----------------------------- MODULE RunProofs ------------------------------
(***************************************************************************)
(* What a whole run guarantees.  The queue handles every object of the     *)
(* input and every object to prune exactly once; the inventory never       *)
(* forgets an object that jpl has written and that still exists; an object *)
(* is applied after what it depends on; a clean run leaves the input and   *)
(* nothing else; and a caller that heard of no error has it all.  All of   *)
(* it for every set of manifests and any number of runs and faults.        *)
(***************************************************************************)
EXTENDS RunEvents, ResourceGraphProofs, SequenceTheorems

-----------------------------------------------------------------------------
(* The types, and what the queue holds.                                     *)

\* A task list is empty unless an apply or prune task runs or was cut short,
\* and the inventory task is the last one, with no object of its own.
TodoInv ==
  /\ pc \notin {"idle", "apply", "prune"} => todo = {}
  /\ \A i \in DOMAIN queue :
        queue[i].type = "inventory" => i = Len(queue) /\ queue[i].objs = {}
  /\ pc = "inventory" => queue = <<>>

TypeInv == TypeOK /\ TodoInv

LEMMA IdOfPtrType == \A p \in Pointers : IdOfPtr(p) \in Ids
  BY BodyAssumption DEF Pointers, IdOfPtr, IdOf, BodyType

LEMMA WithStatusType == ASSUME NEW S PROVE WithStatus(S) \subseteq Ids
  BY IdOfPtrType DEF WithStatus

LEMMA ConcatThree ==
  ASSUME NEW S, NEW A \in Seq(S), NEW P \in Seq(S), NEW x \in S
  PROVE  LET q == A \o P \o <<x>>
             n == Len(A) + Len(P)
         IN  /\ q \in Seq(S) /\ Len(q) = n + 1 /\ DOMAIN q = 1..(n + 1)
             /\ \A i \in 1..Len(A) : q[i] = A[i]
             /\ \A i \in 1..Len(P) : q[Len(A) + i] = P[i]
             /\ q[n + 1] = x
<1> DEFINE B == A \o P
<1>1. /\ B \in Seq(S) /\ Len(B) = Len(A) + Len(P)
      /\ \A i \in 1..Len(A) : B[i] = A[i]
      /\ \A i \in 1..Len(P) : B[Len(A) + i] = P[i]
      /\ Len(A) \in Nat /\ Len(P) \in Nat
  OBVIOUS
<1> DEFINE q == B \o <<x>>
<1> HIDE DEF B
<1>2. /\ q \in Seq(S) /\ Len(q) = Len(B) + 1 /\ DOMAIN q = 1..(Len(B) + 1)
      /\ \A i \in 1..Len(B) : q[i] = B[i]
      /\ q[Len(B) + 1] = x
  <2> DEFINE X == <<x>>
  <2>1. X \in Seq(S) /\ Len(X) = 1 /\ X[1] = x
    OBVIOUS
  <2> HIDE DEF X
  <2>2. /\ B \o X \in Seq(S) /\ Len(B \o X) = Len(B) + 1
        /\ \A i \in 1..(Len(B) + 1) : (B \o X)[i] = IF i <= Len(B) THEN B[i] ELSE X[i - Len(B)]
    <3>0. B \in Seq(S) /\ X \in Seq(S)
      BY <1>1, <2>1
    <3>1. /\ B \o X \in Seq(S) /\ Len(B \o X) = Len(B) + Len(X)
          /\ \A i \in 1..(Len(B) + Len(X)) :
               (B \o X)[i] = IF i <= Len(B) THEN B[i] ELSE X[i - Len(B)]
      BY <3>0, ConcatProperties
    <3> QED
      BY <2>1, <3>1, Zenon
  <2>3. \A i \in 1..Len(B) : i \in 1..(Len(B) + 1) /\ i <= Len(B)
    BY <1>1
  <2>4. Len(B) + 1 \in 1..(Len(B) + 1) /\ ~(Len(B) + 1 <= Len(B)) /\ Len(B) + 1 - Len(B) = 1
    BY <1>1
  <2> QED
    BY <2>1, <2>2, <2>3, <2>4 DEF X
<1> HIDE DEF q
<1>3. \A i \in 1..Len(A) : q[i] = A[i]
  BY <1>1, <1>2
<1>4. ASSUME NEW i \in 1..Len(P) PROVE q[Len(A) + i] = P[i]
  <2>1. Len(A) + i \in 1..Len(B)
    BY <1>1
  <2> QED
    BY <1>1, <1>2, <2>1
<1> QED
  BY <1>1, <1>2, <1>3, <1>4 DEF q, B

\* The groups of an input that has passed the check for cycles.
LEMMA GroupsFacts ==
  ASSUME TypeOK, ~Cyclic(input)
  PROVE  LET G == Groups(input)
             n == Len(G)
         IN  /\ G \in Seq(SUBSET Manifests) /\ n \in Nat
             /\ \A i \in 1..n : G[i] \subseteq Manifests
             /\ UNION {G[i] : i \in 1..n} = Vertices(input)
             /\ \A i, j \in 1..n : i # j => G[i] \cap G[j] = {}
<1> DEFINE G == Groups(input)
<1>1. /\ G \in Seq(SUBSET Manifests)
      /\ UNION {G[i] : i \in DOMAIN G} = Vertices(input)
      /\ \A i, j \in DOMAIN G : i # j => G[i] \cap G[j] = {}
  BY GroupsPartition DEF TypeOK
<1> HIDE DEF G
<1>2. DOMAIN G = 1..Len(G) /\ Len(G) \in Nat /\ \A i \in 1..Len(G) : G[i] \subseteq Manifests
  BY <1>1
<1> QED
  BY <1>1, <1>2 DEF G

LEMMA OddNumber == \A i \in Nat : i % 2 = 1 => i = 2 * ((i + 1) \div 2) - 1
  OBVIOUS

\* Every object of the input is in one apply task exactly.
LEMMA ApplyTasksFacts ==
  ASSUME TypeOK, ~Cyclic(input)
  PROVE  LET A == ApplyTasks
             W == {i \in 1..Len(A) : A[i].type = "apply"}
         IN  /\ A \in Seq(TaskType) /\ Len(A) \in Nat
             /\ \A i \in 1..Len(A) : A[i].type \in {"apply", "wait"} /\ A[i].objs \subseteq Manifests
             /\ \A i, j \in W : i # j => A[i].objs \cap A[j].objs = {}
             /\ UNION {A[i].objs : i \in W} = Vertices(input)
<1> DEFINE G == Groups(input)
           n == Len(G)
           A == ApplyTasks
           W == {i \in 1..Len(A) : A[i].type = "apply"}
<1>1. /\ G \in Seq(SUBSET Manifests) /\ n \in Nat
      /\ \A i \in 1..n : G[i] \subseteq Manifests
      /\ UNION {G[i] : i \in 1..n} = Vertices(input)
      /\ \A i, j \in 1..n : i # j => G[i] \cap G[j] = {}
  BY GroupsFacts
<1>2. CASE ~Waits
  <2>1. A = [i \in 1..n |-> Task("apply", G[i])]
    BY <1>2 DEF ApplyTasks
  <2> HIDE DEF G, n, A
  <2>2. A \in Seq(TaskType) /\ Len(A) = n
    BY <1>1, <2>1 DEF Task, TaskType, Pointers
  <2>3. \A i \in 1..n : A[i].type = "apply" /\ A[i].objs = G[i]
    BY <2>1 DEF Task
  <2>4. W = 1..n
    BY <2>2, <2>3
  <2> QED
    BY <1>1, <2>2, <2>3, <2>4 DEF A
<1>3. CASE Waits
  <2>1. A = [i \in 1..(2 * n) |->
               Task(IF i % 2 = 1 THEN "apply" ELSE "wait", G[(i + 1) \div 2])]
    BY <1>3 DEF ApplyTasks
  <2> HIDE DEF G, n, A
  <2>2. \A i \in 1..(2 * n) : (i + 1) \div 2 \in 1..n
    BY <1>1
  <2>3. \A i \in 1..(2 * n) : A[i].type = (IF i % 2 = 1 THEN "apply" ELSE "wait")
                                /\ A[i].objs = G[(i + 1) \div 2]
    BY <2>1 DEF Task
  <2>4. \A i \in 1..(2 * n) : A[i] \in TaskType
    <3> TAKE i \in 1..(2 * n)
    <3>1. G[(i + 1) \div 2] \in SUBSET Pointers
      BY <1>1, <2>2 DEF Pointers
    <3> QED
      BY <2>1, <3>1 DEF Task, TaskType
  <2>5. A \in Seq(TaskType) /\ Len(A) = 2 * n
    BY <1>1, <2>1, <2>4
  <2>6. W = {i \in 1..(2 * n) : i % 2 = 1}
    BY <2>3, <2>5
  <2>7. ASSUME NEW i \in W, NEW j \in W, i # j PROVE A[i].objs \cap A[j].objs = {}
    <3>1. i \in Nat /\ j \in Nat /\ i % 2 = 1 /\ j % 2 = 1 /\ i \in 1..(2 * n) /\ j \in 1..(2 * n)
      BY <1>1, <2>6
    <3>2. (i + 1) \div 2 # (j + 1) \div 2
      BY <2>7, <3>1, OddNumber
    <3> QED
      BY <1>1, <2>2, <2>3, <3>1, <3>2
  <2>8. ASSUME NEW k \in 1..n PROVE \E i \in W : A[i].objs = G[k]
    <3>1. 2 * k - 1 \in 1..(2 * n) /\ (2 * k - 1) % 2 = 1 /\ ((2 * k - 1) + 1) \div 2 = k
      BY <1>1
    <3> QED
      BY <2>3, <2>6, <3>1
  <2>9. \A i \in W : \E k \in 1..n : A[i].objs = G[k]
    BY <2>2, <2>3, <2>6
  <2>10. UNION {A[i].objs : i \in W} = UNION {G[k] : k \in 1..n}
    BY <2>8, <2>9
  <2>11. \A i \in 1..(2 * n) : A[i].type \in {"apply", "wait"} /\ A[i].objs \subseteq Manifests
    BY <1>1, <2>2, <2>3
  <2>12. Len(A) \in Nat /\ 1..Len(A) = 1..(2 * n)
    BY <1>1, <2>5
  <2>13. \A i, j \in W : i # j => A[i].objs \cap A[j].objs = {}
    BY <2>7
  <2>14. UNION {A[i].objs : i \in W} = Vertices(input)
    BY <1>1, <2>10
  <2> QED
    BY <2>5, <2>11, <2>12, <2>13, <2>14 DEF A
<1> QED
  BY <1>2, <1>3

LEMMA ThreeParts ==
  ASSUME NEW a \in Nat, NEW b \in 0..1, NEW i \in 1..(a + b + 1)
  PROVE  i \in 1..a \/ (b = 1 /\ i = a + 1) \/ i = a + b + 1
<1>1. CASE b = 0
  BY <1>1
<1>2. CASE b = 1
  BY <1>2
<1> QED
  BY <1>1, <1>2

\* QueueBuilder.Build: the inventory comes last, and every object of the input
\* and every object to prune is in exactly one task that handles it.
LEMMA BuildQueueFacts ==
  ASSUME TypeOK, ~Cyclic(input)
  PROVE  LET q == BuildQueue
             W == {i \in DOMAIN q : q[i].type \in {"apply", "prune"}}
         IN  /\ q \in Seq(TaskType)
             /\ \A i \in DOMAIN q : q[i].type = "inventory" => i = Len(q) /\ q[i].objs = {}
             /\ \A i \in DOMAIN q : q[i].type = "prune" => q[i].objs = ToPrune
             /\ \A i, j \in W : i # j => q[i].objs \cap q[j].objs = {}
             /\ UNION {q[i].objs : i \in W} = Vertices(input) \cup ToPrune
<1> DEFINE A == ApplyTasks
           P == PruneTasks
           x == Task("inventory", {})
           q == BuildQueue
           a == Len(A)
           b == Len(P)
           V == {i \in 1..a : A[i].type = "apply"}
           W == {i \in DOMAIN q : q[i].type \in {"apply", "prune"}}
<1>1. /\ A \in Seq(TaskType) /\ a \in Nat
      /\ \A i \in 1..a : A[i].type \in {"apply", "wait"} /\ A[i].objs \subseteq Manifests
      /\ \A i, j \in V : i # j => A[i].objs \cap A[j].objs = {}
      /\ UNION {A[i].objs : i \in V} = Vertices(input)
  BY ApplyTasksFacts
<1>2. ToPrune \subseteq Ids /\ Manifests \cap Ids = {}
  BY ApplierAssumption DEF ToPrune, TypeOK
<1>3. /\ P \in Seq(TaskType) /\ b \in 0..1 /\ (b = 1) = (ToPrune # {})
      /\ b = 1 => P[1].type = "prune" /\ P[1].objs = ToPrune
  <2>1. Task("prune", ToPrune) \in TaskType
    BY <1>2 DEF Task, TaskType, Pointers
  <2>2. CASE ToPrune = {}
    <3>1. P = <<>>
      BY <2>2 DEF PruneTasks
    <3> QED
      BY <2>2, <3>1
  <2>3. CASE ToPrune # {}
    <3>1. P = <<Task("prune", ToPrune)>>
      BY <2>3 DEF PruneTasks
    <3> HIDE DEF P
    <3>2. P \in Seq(TaskType) /\ b = 1 /\ P[1] = Task("prune", ToPrune)
      BY <2>1, <3>1
    <3> QED
      BY <2>3, <3>2 DEF Task
  <2> QED
    BY <2>2, <2>3
<1>4. x \in TaskType /\ x.type = "inventory" /\ x.objs = {}
  BY DEF Task, TaskType
<1>5. q = A \o P \o <<x>>
  BY DEF BuildQueue
<1> HIDE DEF A, P, x, q
<1>6. /\ q \in Seq(TaskType) /\ Len(q) = a + b + 1 /\ DOMAIN q = 1..(a + b + 1)
      /\ \A i \in 1..a : q[i] = A[i]
      /\ \A i \in 1..b : q[a + i] = P[i]
      /\ q[a + b + 1] = x
  BY <1>1, <1>3, <1>4, <1>5, ConcatThree
<1>7. \A i \in DOMAIN q : i \in 1..a \/ (b = 1 /\ i = a + 1) \/ i = a + b + 1
  <2>1. a \in Nat /\ b \in 0..1 /\ DOMAIN q = 1..(a + b + 1)
    BY <1>1, <1>3, <1>6
  <2> HIDE DEF a, b
  <2> QED
    BY <2>1, ThreeParts
<1>8. b = 1 => q[a + 1].type = "prune" /\ q[a + 1].objs = ToPrune
  BY <1>3, <1>6
<1>9. W = V \cup (IF b = 1 THEN {a + 1} ELSE {})
  <2>1. \A i \in W : i \in V \/ (b = 1 /\ i = a + 1)
    BY <1>1, <1>4, <1>6, <1>7
  <2>2. \A i \in V : i \in W
    BY <1>1, <1>3, <1>6
  <2>3. b = 1 => a + 1 \in W
    BY <1>1, <1>6, <1>8
  <2> QED
    BY <2>1, <2>2, <2>3
<1>10. \A i \in DOMAIN q : q[i].type = "inventory" => i = Len(q) /\ q[i].objs = {}
  BY <1>1, <1>4, <1>6, <1>7, <1>8
<1>14. \A i \in DOMAIN q : q[i].type = "prune" => q[i].objs = ToPrune
  BY <1>1, <1>4, <1>6, <1>7, <1>8
<1>11. \A i \in V : q[i].objs = A[i].objs /\ q[i].objs \cap ToPrune = {}
  BY <1>1, <1>2, <1>6
<1>12. \A i, j \in W : i # j => q[i].objs \cap q[j].objs = {}
  BY <1>1, <1>8, <1>9, <1>11
<1>13. UNION {q[i].objs : i \in W} = Vertices(input) \cup ToPrune
  <2>1. UNION {q[i].objs : i \in V} = Vertices(input)
    BY <1>1, <1>11
  <2>2. CASE b = 1
    BY <1>8, <1>9, <2>1, <2>2
  <2>3. CASE b # 1
    BY <1>3, <1>9, <2>1, <2>3
  <2> QED
    BY <2>2, <2>3
<1> QED
  BY <1>6, <1>10, <1>12, <1>13, <1>14 DEF q

-----------------------------------------------------------------------------
(* Type correctness.                                                        *)

LEMMA InitTypeInv == Init => TypeInv
<1> SUFFICES ASSUME Init PROVE TypeInv
  OBVIOUS
<1>1. input \in Seq(Manifests) /\ queue \in Seq(TaskType)
  BY DEF Init
<1>2. opts \in OptionType /\ statuses \in [Pointers -> Statuses]
  BY DEF Init, OptionType, Statuses
<1>3. TypeOK
  <2>1. live \subseteq Ids /\ managed \subseteq live /\ ready \subseteq live
    BY ApplierAssumption DEF Init
  <2>2. runs \in 0..MaxRuns /\ faults \in 0..MaxFaults
    BY ApplierAssumption DEF Init
  <2> QED
    BY <1>1, <1>2, <2>1, <2>2 DEF Init, TypeOK
<1>4. TodoInv
  BY DEF Init, TodoInv
<1> QED
  BY <1>3, <1>4 DEF TypeInv

\* The object at hand is one of those the task has left.
LEMMA ReportType ==
  ASSUME TypeOK, current # None, NEW st \in Statuses, Report(current, st)
  PROVE  /\ todo' \subseteq todo /\ todo' \subseteq Pointers /\ current' = None
         /\ statuses' \in [Pointers -> Statuses]
BY DEF TypeOK, Report

LEMMA EraseType ==
  ASSUME TypeOK, NEW id, Erase(id)
  PROVE  /\ live' \subseteq Ids /\ managed' \subseteq live' /\ ready' \subseteq live'
         /\ stored' \subseteq Ids /\ managed' \subseteq managed
BY DEF TypeOK, Erase

LEMMA WriteType ==
  ASSUME TypeOK, NEW id \in Ids, Write(id)
  PROVE  /\ live' \subseteq Ids /\ managed' \subseteq live' /\ ready' \subseteq live'
         /\ stored' \subseteq Ids /\ book' \in {"clean", "dirty", "saved"}
BY DEF TypeOK, Write, serverVars

LEMMA FaultType ==
  ASSUME TypeOK, Fault \/ NoFault PROVE faults' \in 0..MaxFaults
BY ApplierAssumption DEF TypeOK, Fault, NoFault

LEMMA EnvironmentType == TypeInv /\ Environment => TypeInv'
<1> SUFFICES ASSUME TypeInv, Environment PROVE TypeInv'
  OBVIOUS
<1> USE DEF serverVars, callVars, taskVars, waitVars, ghostVars
<1>1. CASE Start
  <2>1. statuses' \in [Pointers -> Statuses]
    BY <1>1 DEF Start, Statuses
  <2>2. input' \in Seq(Manifests) /\ opts' \in OptionType /\ queue' \in Seq(TaskType)
    BY <1>1, ApplierAssumption DEF Start
  <2>3. runs' \in 0..MaxRuns
    BY <1>1, ApplierAssumption DEF Start, TypeInv, TypeOK
  <2>4. TypeOK'
    BY <1>1, <2>1, <2>2, <2>3 DEF Start, TypeInv, TypeOK
  <2>5. TodoInv'
    <3>1. pc' = "load" /\ queue' = <<>> /\ todo' = {}
      BY <1>1 DEF Start
    <3> QED
      BY <3>1 DEF TodoInv
  <2> QED
    BY <2>4, <2>5 DEF TypeInv
<1>2. CASE Timeout \/ Cancel
  <2>1. faults' \in 0..MaxFaults
    BY <1>2, FaultType DEF Timeout, Cancel, TypeInv
  <2>2. ctxDone' = TRUE /\ UNCHANGED <<serverVars, noSSA, pc, callVars, taskVars,
                                      queue, waitVars, outcome, ghostVars, runs>>
    BY <1>2 DEF Timeout, Cancel, ContextDone
  <2>3. TypeOK'
    BY <2>1, <2>2 DEF TypeInv, TypeOK
  <2>4. TodoInv'
    BY <2>2 DEF TypeInv, TodoInv
  <2> QED
    BY <2>3, <2>4 DEF TypeInv
<1>3. CASE Crash
  <2>1. faults' \in 0..MaxFaults
    BY <1>3, FaultType DEF Crash, TypeInv
  <2> QED
    BY <1>3, <2>1 DEF Crash, End, TypeInv, TypeOK, TodoInv
<1>4. ASSUME NEW id \in Ids, Reconcile(id) PROVE TypeInv'
  BY <1>4 DEF Reconcile, TypeInv, TypeOK, TodoInv
<1>5. ASSUME NEW id \in Ids, ExternalDelete(id) PROVE TypeInv'
  <2>1. faults' \in 0..MaxFaults
    BY <1>5, FaultType DEF ExternalDelete, TypeInv
  <2>2. /\ live' \subseteq Ids /\ managed' \subseteq live' /\ ready' \subseteq live'
        /\ stored' \subseteq Ids
    BY <1>5, EraseType DEF ExternalDelete, TypeInv
  <2> QED
    BY <1>5, <2>1, <2>2 DEF ExternalDelete, TypeInv, TypeOK, TodoInv
<1> QED
  BY <1>1, <1>2, <1>3, <1>4, <1>5 DEF Environment

LEMMA RunnerType ==
  TypeInv /\ (LoadFails \/ LoadNoMatch \/ GraphRejected \/ Prepare \/ RunnerStops
              \/ RunnerReturns \/ RunnerTakes \/ TaskEnds) => TypeInv'
<1> SUFFICES ASSUME TypeInv,
                    LoadFails \/ LoadNoMatch \/ GraphRejected \/ Prepare \/ RunnerStops
                      \/ RunnerReturns \/ RunnerTakes \/ TaskEnds
             PROVE  TypeInv'
  OBVIOUS
<1> USE DEF serverVars, callVars, taskVars, waitVars, ghostVars
<1>1. ASSUME NEW r \in {"ok", "running", "crashed", "loadError", "noMatch",
                       "graphError", "contextError"},
             End(r), Fault \/ NoFault
      PROVE  TypeInv'
  <2>1. faults' \in 0..MaxFaults
    BY <1>1, FaultType DEF TypeInv
  <2> QED
    BY <1>1, <2>1 DEF End, TypeInv, TypeOK, TodoInv
<1>2. CASE LoadFails \/ LoadNoMatch \/ GraphRejected \/ RunnerStops \/ RunnerReturns
  BY <1>1, <1>2 DEF LoadFails, LoadNoMatch, GraphRejected, RunnerStops, RunnerReturns
<1>3. CASE Prepare
  <2>1. /\ queue' \in Seq(TaskType)
        /\ \A i \in DOMAIN queue' :
              queue'[i].type = "inventory" => i = Len(queue') /\ queue'[i].objs = {}
    BY <1>3, BuildQueueFacts DEF Prepare, TypeInv
  <2> QED
    BY <1>3, <2>1 DEF Prepare, NoFault, TypeInv, TypeOK, TodoInv
<1>4. CASE RunnerTakes
  <2> DEFINE t == Head(queue)
             watched == {IdOfPtr(p) : p \in {x \in t.objs : Watchable(x)}}
  <2>1. queue' \in Seq(TaskType) /\ t \in TaskType
    BY <1>4 DEF RunnerTakes, TypeInv, TypeOK
  <2>2. current = None /\ current' = None
    BY <1>4 DEF RunnerTakes, TypeInv, TypeOK, TodoInv
  <2>5. /\ \A i \in DOMAIN queue' :
              queue'[i].type = "inventory" => i = Len(queue') /\ queue'[i].objs = {}
        /\ t.type = "inventory" => queue' = <<>> /\ t.objs = {}
    <3>1. /\ queue \in Seq(TaskType) /\ queue # <<>> /\ queue' = Tail(queue)
          /\ \A i \in DOMAIN queue :
                queue[i].type = "inventory" => i = Len(queue) /\ queue[i].objs = {}
      BY <1>4 DEF RunnerTakes, TypeInv, TypeOK, TodoInv
    <3>2. /\ Len(queue') = Len(queue) - 1 /\ Len(queue) \in Nat \ {0}
          /\ \A i \in DOMAIN queue' : queue'[i] = queue[i + 1] /\ i + 1 \in DOMAIN queue
          /\ t = queue[1] /\ 1 \in DOMAIN queue
      BY <3>1
    <3>3. Len(queue) = 1 => queue' = <<>>
      BY <3>1
    <3>4. \A i \in DOMAIN queue' :
            queue'[i].type = "inventory" => i = Len(queue') /\ queue'[i].objs = {}
      <4> TAKE i \in DOMAIN queue'
      <4> HAVE queue'[i].type = "inventory"
      <4>1. queue[i + 1].type = "inventory" /\ i + 1 \in DOMAIN queue
        BY <3>2
      <4>2. i + 1 = Len(queue) /\ queue[i + 1].objs = {}
        BY <3>1, <4>1
      <4> QED
        BY <3>2, <4>2
    <3> QED
      BY <3>1, <3>2, <3>3, <3>4
  <2>3. CASE t.type = "wait"
    <3>1. watched \subseteq Ids
      BY <2>1, IdOfPtrType DEF TaskType
    <3>2. watch' = watched /\ failedSeen' = {} /\ pc' \in {"select", "wait"} /\ todo' = todo
      BY <1>4, <2>3 DEF RunnerTakes, AfterWatching
    <3> QED
      BY <1>4, <2>1, <2>2, <2>5, <3>1, <3>2 DEF RunnerTakes, NoFault, TypeInv, TypeOK, TodoInv
  <2>4. CASE t.type # "wait"
    <3>1. watch' = watch /\ failedSeen' = failedSeen /\ pc' = t.type /\ todo' = t.objs
      BY <1>4, <2>4 DEF RunnerTakes
    <3> QED
      BY <1>4, <2>1, <2>2, <2>4, <2>5, <3>1 DEF RunnerTakes, NoFault, TaskType, TypeInv, TypeOK, TodoInv
  <2> QED
    BY <2>3, <2>4
<1>5. CASE TaskEnds
  BY <1>5 DEF TaskEnds, NoFault, TypeInv, TypeOK, TodoInv
<1> QED
  BY <1>2, <1>3, <1>4, <1>5

LEMMA ApplyType == TypeInv /\ ApplyStep => TypeInv'
<1> SUFFICES ASSUME TypeInv, ApplyStep PROVE TypeInv'
  OBVIOUS
<1> USE DEF serverVars, callVars, taskVars, waitVars, ghostVars
<1>1. pc = "apply" /\ pc' = "apply" /\ UNCHANGED <<noSSA, callVars, queue, ctxDone, outcome, runs>>
  BY DEF ApplyStep, FilterStops, ApplyStarts, PatchSucceeds, PatchFails, PatchLost, PatchUnsupported
<1>2. faults' \in 0..MaxFaults
  <2>1. Fault \/ NoFault
    BY DEF ApplyStep, FilterStops, ApplyStarts, PatchSucceeds, PatchFails, PatchLost, PatchUnsupported
  <2> QED
    BY <2>1, FaultType DEF TypeInv
<1>3. TodoInv'
  BY <1>1 DEF TodoInv, TypeInv
<1>4. ASSUME NEW m \in Manifests, FilterStops(m) PROVE TypeOK'
  <2>1. PICK st \in {"applyFailed", "skipped"} : Report(m, st)
    BY <1>4 DEF FilterStops
  <2>2. m \in todo
    BY <1>4 DEF FilterStops, NextToApply
  <2>3. todo' \subseteq Pointers /\ current' = None /\ statuses' \in [Pointers -> Statuses]
    BY <2>1, <2>2 DEF Report, TypeInv, TypeOK, Statuses
  <2> QED
    BY <1>1, <1>2, <1>4, <2>3 DEF FilterStops, TypeInv, TypeOK
<1>5. ASSUME NEW m \in Manifests, ApplyStarts(m) PROVE TypeOK'
  BY <1>1, <1>2, <1>5 DEF ApplyStarts, NextToApply, TypeInv, TypeOK
<1>6. current # None => current \in Pointers /\ IdOfPtr(current) \in Ids
  BY IdOfPtrType DEF TypeInv, TypeOK
<1>7. CASE PatchSucceeds
  <2>1. todo' \subseteq Pointers /\ current' = None /\ statuses' \in [Pointers -> Statuses]
    BY <1>7, ReportType DEF PatchSucceeds, TypeInv, Statuses
  <2>2. /\ live' \subseteq Ids /\ managed' \subseteq live' /\ ready' \subseteq live'
        /\ stored' \subseteq Ids /\ book' \in {"clean", "dirty", "saved"}
    BY <1>6, <1>7, WriteType DEF PatchSucceeds, TypeInv
  <2>3. reconciled' \subseteq Ids /\ UNCHANGED <<starting, watch, failedSeen, cut, lost, intact>>
    BY <1>7 DEF PatchSucceeds, TypeInv, TypeOK
  <2> QED
    BY <1>1, <1>2, <1>3, <2>1, <2>2, <2>3 DEF TypeInv, TypeOK
<1>8. CASE PatchFails
  <2>1. todo' \subseteq Pointers /\ current' = None /\ statuses' \in [Pointers -> Statuses]
    BY <1>8, ReportType DEF PatchFails, TypeInv, Statuses
  <2>2. UNCHANGED <<serverVars, waitVars, ghostVars>>
    BY <1>8 DEF PatchFails
  <2> QED
    BY <1>1, <1>2, <1>3, <2>1, <2>2 DEF TypeInv, TypeOK
<1>9. CASE PatchLost
  <2>1. todo' \subseteq Pointers /\ current' = None /\ statuses' \in [Pointers -> Statuses]
    BY <1>9, ReportType DEF PatchLost, TypeInv, Statuses
  <2>2. /\ live' \subseteq Ids /\ managed' \subseteq live' /\ ready' \subseteq live'
        /\ stored' \subseteq Ids /\ book' \in {"clean", "dirty", "saved"}
    BY <1>6, <1>9, WriteType DEF PatchLost, TypeInv
  <2>3. lost' \subseteq Ids /\ reconciled' \subseteq Ids /\ intact' \in BOOLEAN
    BY <1>6, <1>9 DEF PatchLost, TypeInv, TypeOK
  <2>4. UNCHANGED <<watch, failedSeen, cut>>
    BY <1>9 DEF PatchLost
  <2> QED
    BY <1>1, <1>2, <1>3, <2>1, <2>2, <2>3, <2>4 DEF TypeInv, TypeOK
<1>10. CASE PatchUnsupported
  <2>1. todo' = {} /\ current' = None /\ statuses' \in [Pointers -> Statuses]
    BY <1>6, <1>10 DEF PatchUnsupported, TypeInv, TypeOK, Statuses
  <2>2. UNCHANGED <<serverVars, waitVars, ghostVars>>
    BY <1>10 DEF PatchUnsupported
  <2> QED
    BY <1>1, <1>2, <1>3, <2>1, <2>2 DEF TypeInv, TypeOK
<1> QED
  BY <1>3, <1>4, <1>5, <1>7, <1>8, <1>9, <1>10 DEF ApplyStep, TypeInv

LEMMA WaitType == TypeInv /\ WaitStep => TypeInv'
<1> SUFFICES ASSUME TypeInv, WaitStep PROVE TypeInv'
  OBVIOUS
<1> USE DEF serverVars, callVars, taskVars, waitVars, ghostVars
<1>1. CASE PollerCloses
  <2>1. faults' \in 0..MaxFaults
    BY <1>1, FaultType DEF PollerCloses, TypeInv
  <2> QED
    BY <1>1, <2>1 DEF PollerCloses, TypeInv, TypeOK, TodoInv
<1>2. ASSUME NEW id \in Ids, StatusCurrent(id) PROVE TypeInv'
  BY <1>2 DEF StatusCurrent, NoFault, TypeInv, TypeOK, TodoInv
<1>3. ASSUME NEW id \in Ids, StatusFailed(id) PROVE TypeInv'
  BY <1>3 DEF StatusFailed, NoFault, TypeInv, TypeOK, TodoInv
<1> QED
  BY <1>1, <1>2, <1>3 DEF WaitStep

LEMMA PruneType == TypeInv /\ PruneStep => TypeInv'
<1> SUFFICES ASSUME TypeInv, PruneStep PROVE TypeInv'
  OBVIOUS
<1> USE DEF serverVars, callVars, taskVars, waitVars, ghostVars
<1>1. pc = "prune" /\ pc' = "prune" /\ UNCHANGED <<noSSA, callVars, queue, waitVars, ctxDone, outcome, ghostVars, runs>>
  BY DEF PruneStep, PruneStarts, DeleteSucceeds, DeleteNotFound, DeleteFails, DeleteLost
<1>2. faults' \in 0..MaxFaults
  <2>1. Fault \/ NoFault
    BY DEF PruneStep, PruneStarts, DeleteSucceeds, DeleteNotFound, DeleteFails, DeleteLost
  <2> QED
    BY <2>1, FaultType DEF TypeInv
<1>3. TodoInv'
  BY <1>1 DEF TodoInv, TypeInv
<1>4. None \notin Ids
  BY ApplierAssumption
<1>5. ASSUME NEW id \in Ids, PruneStarts(id) PROVE TypeOK'
  BY <1>1, <1>2, <1>5 DEF PruneStarts, NextToPrune, TypeInv, TypeOK
<1>6. CASE DeleteSucceeds
  <2>1. current # None
    BY <1>4, <1>6 DEF DeleteSucceeds, TypeInv, TypeOK
  <2>2. todo' \subseteq Pointers /\ current' = None /\ statuses' \in [Pointers -> Statuses]
    BY <1>6, <2>1, ReportType DEF DeleteSucceeds, TypeInv, Statuses
  <2>3. /\ live' \subseteq Ids /\ managed' \subseteq live' /\ ready' \subseteq live'
        /\ stored' \subseteq Ids
    BY <1>6, EraseType DEF DeleteSucceeds, TypeInv, TypeOK
  <2> QED
    BY <1>1, <1>2, <1>3, <2>2, <2>3 DEF TypeInv, TypeOK
<1>7. CASE DeleteNotFound
  <2>1. todo' \subseteq todo /\ current' = None /\ UNCHANGED <<serverVars, statuses>>
    BY <1>7 DEF DeleteNotFound
  <2> QED
    BY <1>1, <1>2, <1>3, <2>1 DEF TypeInv, TypeOK
<1>8. CASE DeleteFails
  <2>2. todo' \subseteq Pointers /\ current' = None /\ statuses' \in [Pointers -> Statuses]
    BY <1>8, ReportType DEF DeleteFails, TypeInv, Statuses
  <2>3. UNCHANGED serverVars
    BY <1>8 DEF DeleteFails
  <2> QED
    BY <1>1, <1>2, <1>3, <2>2, <2>3 DEF TypeInv, TypeOK
<1>9. CASE DeleteLost
  <2>1. current # None
    BY <1>4, <1>9 DEF DeleteLost, TypeInv, TypeOK
  <2>2. todo' \subseteq Pointers /\ current' = None /\ statuses' \in [Pointers -> Statuses]
    BY <1>9, <2>1, ReportType DEF DeleteLost, TypeInv, Statuses
  <2>3. /\ live' \subseteq Ids /\ managed' \subseteq live' /\ ready' \subseteq live'
        /\ stored' \subseteq Ids
    BY <1>9, EraseType DEF DeleteLost, TypeInv
  <2> QED
    BY <1>1, <1>2, <1>3, <2>2, <2>3 DEF TypeInv, TypeOK
<1> QED
  BY <1>3, <1>5, <1>6, <1>7, <1>8, <1>9 DEF PruneStep, TypeInv

LEMMA NewInventoryType == NewInventory \subseteq Ids
  BY WithStatusType DEF NewInventory

LEMMA SaveType == TypeInv /\ (Save \/ SaveFails) => TypeInv'
<1> SUFFICES ASSUME TypeInv, Save \/ SaveFails PROVE TypeInv'
  OBVIOUS
<1> USE DEF serverVars, callVars, taskVars, waitVars, ghostVars
<1>1. faults' \in 0..MaxFaults
  BY FaultType DEF Save, SaveFails, TypeInv
<1>2. CASE Save
  <2>1. stored' \subseteq Ids /\ book' \in {"clean", "dirty", "saved"}
    BY <1>2, NewInventoryType DEF Save, TypeInv, TypeOK
  <2> QED
    BY <1>1, <1>2, <2>1 DEF Save, TypeInv, TypeOK, TodoInv
<1>3. CASE SaveFails
  BY <1>1, <1>3 DEF SaveFails, TypeInv, TypeOK, TodoInv
<1> QED
  BY <1>2, <1>3

LEMMA TypeInvStep == TypeInv /\ [Next]_vars => TypeInv'
<1>1. TypeInv /\ UNCHANGED vars => TypeInv'
  BY DEF vars, serverVars, callVars, taskVars, waitVars, ghostVars, TypeInv, TypeOK, TodoInv
<1> QED
  BY <1>1, EnvironmentType, RunnerType, ApplyType, WaitType, PruneType, SaveType
  DEF Next, RunStep

\* The state of the applier, the manager and the runner keeps its type: the
\* object at hand is one the task has left, what is ready or managed is live.
THEOREM TypeCorrect == Spec => []TypeOK
<1>1. TypeInv => TypeOK
  BY DEF TypeInv
<1> QED
  BY <1>1, InitTypeInv, TypeInvStep, PTL DEF Spec

-----------------------------------------------------------------------------
(* The inventory.                                                           *)

\* A server knows server-side apply for every kind, or not even for the
\* ConfigMap of the inventory.  One aggregated API that does not know it ends
\* the apply task early, and the inventory then forgets objects it has.
UniformServers == \A S \in ServerProfiles : S = {} \/ InventoryId \in S

\* What the run has still to handle: the objects the running task has left and
\* those of the apply and prune tasks in the queue.
Work == {i \in DOMAIN queue : queue[i].type \in {"apply", "prune"}}
Pending == todo \cup UNION {queue[i].objs : i \in Work}

\* No object is handled by two tasks; only what was tracked when the run began
\* and is not in its input is pruned.
TasksInv ==
  /\ \A i \in Work : queue[i].objs \cap todo = {}
  /\ \A i, j \in Work : i # j => queue[i].objs \cap queue[j].objs = {}
  /\ \A i \in Work : queue[i].type = "prune" => queue[i].objs \subseteq starting \ InputIds
  /\ pc = "prune" => todo \subseteq starting \ InputIds

\* A run begins with nothing done, and an object has no status before its turn.
FreshInv ==
  /\ \A p \in Pending : statuses[p] = "none"
  /\ pc = "load" => /\ statuses = [p \in Pointers |-> "none"]
                    /\ todo = {} /\ book = "clean"

\* What the ghosts record: a run that is over and intact has no write that its
\* save does not know of.
BookInv ==
  /\ pc = "idle" /\ intact => book # "dirty"
  /\ intact => lost = {}
  /\ UniformServers /\ intact /\ book # "dirty" => managed \subseteq stored

\* The run remembers id: its save will write it, or its turn is yet to come.
Remembered(id) ==
  \/ id \in NewInventory \cup lost
  \/ id \in starting /\ \E p \in Pending : IdOfPtr(p) = id

\* A run that may save remembers whatever jpl wrote and was tracked before.
KeepInv ==
  UniformServers /\ pc \notin {"idle", "load"} /\ ~opts.dryRun /\ InventoryId \notin noSSA =>
    \A id \in managed : (intact \/ id \in stored) => Remembered(id)

TrackInv == TypeInv /\ TasksInv /\ FreshInv /\ BookInv /\ KeepInv

-----------------------------------------------------------------------------
(* What a run remembers, and how a step changes it.                         *)

\* A step that touches neither the tasks nor the statuses forgets nothing.
LEMMA SameMemory ==
  ASSUME UNCHANGED <<statuses, starting, queue, todo, lost>>
  PROVE  /\ Pending' = Pending /\ Work' = Work /\ NewInventory' = NewInventory
         /\ \A id : Remembered(id)' <=> Remembered(id)
<1>1. Work' = Work
  BY DEF Work
<1>2. Pending' = Pending
  BY <1>1 DEF Pending
<1>3. NewInventory' = NewInventory
  BY DEF NewInventory, WithStatus
<1> QED
  BY <1>1, <1>2, <1>3 DEF Remembered

\* A step of the run or of its environment that handles no object.
LEMMA QuietStep ==
  ASSUME TrackInv, TypeInv',
         UNCHANGED <<stored, noSSA, callVars, queue, todo, statuses, ghostVars>>,
         managed' \subseteq managed,
         pc' = pc \/ (pc' = "select" /\ pc \notin {"idle", "load"})
  PROVE  TrackInv'
<1>1. /\ Pending' = Pending /\ Work' = Work
      /\ \A id : Remembered(id)' <=> Remembered(id)
  BY SameMemory DEF callVars, ghostVars
<1>2. UNCHANGED <<lost, book, intact, starting, input, opts>>
  BY DEF callVars, ghostVars
<1>3. TasksInv'
  BY <1>1, <1>2 DEF TrackInv, TasksInv, InputIds
<1>4. FreshInv'
  BY <1>1, <1>2 DEF TrackInv, FreshInv
<1>5. BookInv'
  BY <1>2 DEF TrackInv, BookInv
<1>6. KeepInv'
  BY <1>1, <1>2 DEF TrackInv, KeepInv
<1> QED
  BY <1>3, <1>4, <1>5, <1>6 DEF TrackInv

\* The end of a run: what it wrote without a save is why it is not intact.
LEMMA EndInv ==
  ASSUME TrackInv, TypeInv', NEW result, End(result)
  PROVE  TrackInv'
<1> USE DEF End, serverVars, callVars, taskVars
<1>1. Pending' = Pending /\ Work' = Work
  BY SameMemory
<1>2. TasksInv' /\ FreshInv' /\ KeepInv'
  BY <1>1 DEF TrackInv, TasksInv, FreshInv, KeepInv, InputIds
<1>3. BookInv'
  BY DEF TrackInv, BookInv
<1> QED
  BY <1>2, <1>3 DEF TrackInv

LEMMA InitInv == Init => TrackInv
<1> SUFFICES ASSUME Init PROVE TrackInv
  OBVIOUS
<1>1. TypeInv
  BY InitTypeInv
<1>2. Work = {} /\ Pending = {}
  BY DEF Init, Work, Pending
<1>3. TasksInv /\ FreshInv /\ BookInv /\ KeepInv
  BY <1>2 DEF Init, TasksInv, FreshInv, BookInv, KeepInv
<1> QED
  BY <1>1, <1>3 DEF TrackInv

LEMMA StartInv == TrackInv /\ Start /\ TypeInv' => TrackInv'
<1> SUFFICES ASSUME TrackInv, Start, TypeInv' PROVE TrackInv'
  OBVIOUS
<1> USE DEF serverVars
<1>1. Work' = {} /\ Pending' = {}
  BY DEF Start, Work, Pending
<1>2. TasksInv' /\ FreshInv' /\ KeepInv'
  BY <1>1 DEF Start, TrackInv, TasksInv, FreshInv, KeepInv
<1>3. BookInv'
  <2>1. UniformServers /\ intact => managed \subseteq stored
    BY DEF Start, TrackInv, BookInv
  <2> QED
    BY <2>1 DEF Start, BookInv
<1> QED
  BY <1>2, <1>3 DEF TrackInv

\* The queue is built: everything tracked that still exists is in it.
LEMMA PrepareInv ==
  TrackInv /\ Prepare /\ TypeInv' => TrackInv' /\ Pending' = Vertices(input) \cup ToPrune
<1> SUFFICES ASSUME TrackInv, Prepare, TypeInv'
             PROVE  TrackInv' /\ Pending' = Vertices(input) \cup ToPrune
  OBVIOUS
<1> USE DEF serverVars, taskVars, ghostVars
<1>1. /\ pc = "load" /\ pc' = "select" /\ todo' = {} /\ book = "clean"
      /\ statuses' = [p \in Pointers |-> "none"]
      /\ starting' = stored \cap live /\ queue' = BuildQueue
      /\ UNCHANGED <<live, managed, ready, stored, noSSA, input, opts, lost, book, intact>>
  BY DEF Prepare, TrackInv, FreshInv
<1>2. /\ \A i, j \in Work' : i # j => queue'[i].objs \cap queue'[j].objs = {}
      /\ \A i \in Work' : queue'[i].type = "prune" => queue'[i].objs = ToPrune
      /\ Pending' = Vertices(input) \cup ToPrune
  <2>1. TypeOK /\ ~Cyclic(input)
    BY DEF Prepare, TrackInv, TypeInv
  <2>2. Pending' = UNION {queue'[i].objs : i \in Work'}
    BY <1>1 DEF Pending
  <2> QED
    BY <1>1, <2>1, <2>2, BuildQueueFacts DEF Work
<1>3. ToPrune \subseteq Ids /\ Vertices(input) \subseteq Manifests /\ managed \subseteq live
      /\ live \subseteq Ids
  BY DEF ToPrune, Vertices, TrackInv, TypeInv, TypeOK
<1>4. TasksInv'
  <2>1. ToPrune \subseteq starting' \ InputIds'
    BY <1>1 DEF ToPrune, InputIds
  <2> QED
    BY <1>1, <1>2, <2>1 DEF TasksInv
<1>5. FreshInv'
  BY <1>1, <1>2, <1>3 DEF FreshInv, Pointers
<1>6. KeepInv'
  <2> SUFFICES ASSUME UniformServers, NEW id \in managed, intact \/ id \in stored
               PROVE  Remembered(id)'
    BY <1>1 DEF KeepInv
  <2>1. id \in stored
    BY <1>1 DEF TrackInv, BookInv
  <2>2. id \in starting'
    BY <1>1, <1>3, <2>1
  <2>3. \E p \in Pending' : IdOfPtr(p) = id
    <3>1. CASE id \in InputIds
      <4>1. PICK m \in Vertices(input) : id = IdOf(m)
        BY <3>1 DEF InputIds
      <4> QED
        BY <1>2, <1>3, <4>1 DEF IdOfPtr
    <3>2. CASE id \notin InputIds
      <4>1. id \in ToPrune /\ id \in Ids
        BY <1>3, <2>1, <3>2 DEF ToPrune
      <4> QED
        BY <1>2, <4>1, ApplierAssumption DEF IdOfPtr
    <3> QED
      BY <3>1, <3>2
  <2> QED
    BY <2>2, <2>3 DEF Remembered
<1>7. BookInv'
  BY <1>1 DEF TrackInv, BookInv
<1> QED
  BY <1>2, <1>4, <1>5, <1>6, <1>7 DEF TrackInv

\* Taking a task moves its objects from the queue to the task.
LEMMA TakesInv == TrackInv /\ RunnerTakes /\ TypeInv' => TrackInv' /\ Pending' = Pending
<1> SUFFICES ASSUME TrackInv, RunnerTakes, TypeInv' PROVE TrackInv' /\ Pending' = Pending
  OBVIOUS
<1> USE DEF serverVars, callVars, ghostVars
<1> DEFINE t == Head(queue)
<1>1. /\ pc = "select" /\ queue # <<>> /\ queue \in Seq(TaskType) /\ todo = {}
      /\ queue' = Tail(queue)
      /\ UNCHANGED <<live, managed, stored, noSSA, starting, input, opts, statuses, lost, book, intact>>
  BY DEF RunnerTakes, TrackInv, TypeInv, TypeOK, TodoInv
<1>2. /\ Len(queue) \in Nat \ {0} /\ DOMAIN queue = 1..Len(queue) /\ t = queue[1]
      /\ DOMAIN queue' = 1..(Len(queue) - 1)
      /\ \A i \in DOMAIN queue' : queue'[i] = queue[i + 1]
  BY <1>1
<1>3. t \in TaskType
  BY <1>1
<1>4. \A i \in DOMAIN queue' : i + 1 \in DOMAIN queue /\ i + 1 # 1
  BY <1>2
<1>5. \A i \in Work' : i + 1 \in Work /\ i + 1 # 1 /\ queue'[i] = queue[i + 1]
  BY <1>2, <1>4 DEF Work
<1>6. \A i \in Work : i # 1 => i - 1 \in Work' /\ queue'[i - 1] = queue[i]
  <2> TAKE i \in Work
  <2> HAVE i # 1
  <2>1. i - 1 \in DOMAIN queue' /\ (i - 1) + 1 = i /\ i \in DOMAIN queue
    BY <1>2 DEF Work
  <2> QED
    BY <1>2, <2>1 DEF Work
<1>7. IF t.type \in {"apply", "prune"} THEN todo' = t.objs /\ 1 \in Work
                                       ELSE todo' = {} /\ 1 \notin Work
  <2>1. 1 \in Work <=> t.type \in {"apply", "prune"}
    BY <1>2 DEF Work
  <2>2. t.type = "wait" => todo' = {}
    BY <1>1 DEF RunnerTakes
  <2>3. t.type # "wait" => todo' = t.objs
    BY DEF RunnerTakes
  <2>4. t.type = "inventory" => t.objs = {}
    BY <1>1, <1>2 DEF TrackInv, TypeInv, TodoInv
  <2>5. t.type \in {"apply", "wait", "prune", "inventory"}
    BY <1>3 DEF TaskType
  <2> QED
    BY <2>1, <2>2, <2>3, <2>4, <2>5
<1>8. pc' \in {"apply", "prune", "wait", "select", "inventory"} /\ (pc' = "prune" => t.type = "prune")
  <2>1. t.type \in {"apply", "wait", "prune", "inventory"}
    BY <1>3 DEF TaskType
  <2>2. CASE t.type = "wait"
    BY <2>2 DEF RunnerTakes, AfterWatching
  <2>3. CASE t.type # "wait"
    BY <2>1, <2>3 DEF RunnerTakes
  <2> QED
    BY <2>2, <2>3
<1> HIDE DEF t
<1>9. Pending' = Pending
  <2>1. ASSUME NEW p \in Pending' PROVE p \in Pending
    <3>1. CASE p \in todo'
      BY <1>2, <1>7, <3>1 DEF Pending
    <3>2. CASE p \notin todo'
      BY <1>5, <2>1, <3>2 DEF Pending
    <3> QED
      BY <3>1, <3>2
  <2>2. ASSUME NEW p \in Pending PROVE p \in Pending'
    <3>1. PICK i \in Work : p \in queue[i].objs
      BY <1>1, <2>2 DEF Pending
    <3>2. CASE i = 1
      BY <1>2, <1>7, <3>1, <3>2 DEF Pending
    <3>3. CASE i # 1
      BY <1>6, <3>1, <3>3 DEF Pending
    <3> QED
      BY <3>2, <3>3
  <2> QED
    BY <2>1, <2>2
<1>10. TasksInv'
  <2>1. \A i, j \in Work : i # j => queue[i].objs \cap queue[j].objs = {}
    BY DEF TrackInv, TasksInv
  <2>2. \A i \in Work : queue[i].type = "prune" => queue[i].objs \subseteq starting \ InputIds
    BY DEF TrackInv, TasksInv
  <2>3. \A i \in Work' : queue'[i].objs \cap todo' = {}
    BY <1>2, <1>5, <1>7, <2>1
  <2>4. \A i, j \in Work' : i # j => queue'[i].objs \cap queue'[j].objs = {}
    <3> TAKE i, j \in Work'
    <3> HAVE i # j
    <3>1. i + 1 # j + 1
      BY <1>2 DEF Work
    <3> QED
      BY <1>5, <2>1, <3>1
  <2>5. \A i \in Work' : queue'[i].type = "prune" => queue'[i].objs \subseteq starting' \ InputIds'
    BY <1>1, <1>5, <2>2 DEF InputIds
  <2>6. pc' = "prune" => todo' \subseteq starting' \ InputIds'
    BY <1>1, <1>2, <1>7, <1>8, <2>2 DEF InputIds
  <2> QED
    BY <2>3, <2>4, <2>5, <2>6 DEF TasksInv
<1>11. FreshInv'
  BY <1>1, <1>8, <1>9 DEF TrackInv, FreshInv
<1>12. KeepInv'
  <2>1. NewInventory' = NewInventory
    BY <1>1 DEF NewInventory, WithStatus
  <2>2. \A id : Remembered(id) => Remembered(id)'
    BY <1>1, <1>9, <2>1 DEF Remembered
  <2> QED
    BY <1>1, <2>2 DEF TrackInv, KeepInv
<1>13. BookInv'
  BY <1>1, <1>8 DEF TrackInv, BookInv
<1> QED
  BY <1>9, <1>10, <1>11, <1>12, <1>13 DEF TrackInv

-----------------------------------------------------------------------------
(* The terminal event of an object.                                         *)

\* Objects leave the running task one by one, and only then get a status.
LEMMA PendingShrinks ==
  ASSUME TrackInv, NEW p \in todo, NEW st \in Statuses,
         todo' \subseteq todo \ {p}, UNCHANGED <<pc, queue, starting, input>>, pc # "load",
         statuses' = [statuses EXCEPT ![p] = st]
  PROVE  TasksInv' /\ FreshInv' /\ Work' = Work /\ p \in Pointers /\ statuses[p] = "none"
<1>1. /\ Work' = Work
      /\ \A i \in Work : queue[i].objs \cap todo = {}
  BY DEF Work, TrackInv, TasksInv
<1>2. TasksInv'
  BY <1>1 DEF TrackInv, TasksInv, InputIds
<1>3. Pending' \subseteq Pending \ {p}
  BY <1>1 DEF Pending
<1>4. \A q \in Pending' : q # p /\ statuses[q] = "none"
  BY <1>3 DEF TrackInv, FreshInv
<1>5. statuses \in [Pointers -> Statuses] /\ p \in Pointers
  BY DEF TrackInv, TypeInv, TypeOK
<1>6. \A q \in Pending' : statuses'[q] = "none"
  <2> TAKE q \in Pending'
  <2>1. q # p /\ statuses[q] = "none" /\ "none" \in Statuses
    BY <1>4 DEF Statuses
  <2>2. q \in Pointers
    <3>1. todo \subseteq Pointers /\ queue \in Seq(TaskType)
      BY DEF TrackInv, TypeInv, TypeOK
    <3>2. \A i \in Work : queue[i] \in TaskType
      BY <3>1 DEF Work
    <3>3. \A i \in Work : queue[i].objs \subseteq Pointers
      BY <3>2 DEF TaskType
    <3> QED
      BY <1>3, <3>1, <3>3 DEF Pending
  <2> QED
    BY <1>5, <2>1, <2>2
<1>7. statuses[p] = "none"
  BY DEF Pending, TrackInv, FreshInv
<1> QED
  BY <1>1, <1>2, <1>5, <1>6, <1>7 DEF FreshInv

\* A new status adds to what will be saved, and takes nothing from it.
LEMMA NewInventoryGrows ==
  ASSUME TypeOK, NEW p \in Pointers, NEW st \in Statuses, statuses[p] = "none",
         statuses' = [statuses EXCEPT ![p] = st], starting' = starting
  PROVE  /\ NewInventory \subseteq NewInventory'
         /\ st \in {"applyOk", "deleteFailed"} => IdOfPtr(p) \in NewInventory'
         /\ st \in {"applyFailed", "skipped"} /\ IdOfPtr(p) \in starting
              => IdOfPtr(p) \in NewInventory'
<1>1. statuses \in [Pointers -> Statuses] /\ statuses'[p] = st
  BY DEF TypeOK
<1>2. \A q \in Pointers : statuses[q] # "none" => statuses'[q] = statuses[q]
  BY <1>1
<1>3. ASSUME NEW S, "none" \notin S
      PROVE  /\ WithStatus(S) \subseteq WithStatus(S)'
             /\ st \in S => IdOfPtr(p) \in WithStatus(S)'
  BY <1>1, <1>2, <1>3 DEF WithStatus
<1>4. /\ WithStatus({"applyOk", "deleteFailed"}) \subseteq WithStatus({"applyOk", "deleteFailed"})'
      /\ WithStatus({"applyFailed", "skipped"}) \subseteq WithStatus({"applyFailed", "skipped"})'
  BY <1>3
<1>5. /\ st \in {"applyOk", "deleteFailed"} => IdOfPtr(p) \in WithStatus({"applyOk", "deleteFailed"})'
      /\ st \in {"applyFailed", "skipped"} => IdOfPtr(p) \in WithStatus({"applyFailed", "skipped"})'
  BY <1>3
<1> QED
  BY <1>4, <1>5 DEF NewInventory

\* The event of an object keeps the invariant, if an object that still exists
\* afterwards is one that the save will write, or one the run never heard of.
LEMMA HandledInv ==
  ASSUME TrackInv, TypeInv', NEW p \in todo, NEW st \in Statuses,
         todo' \subseteq todo \ {p}, statuses' = [statuses EXCEPT ![p] = st],
         pc \in {"apply", "prune"},
         UNCHANGED <<pc, queue, starting, input, opts, noSSA, stored>>,
         managed' \subseteq managed \cup {IdOfPtr(p)},
         lost \subseteq lost', intact' => intact,
         UniformServers /\ ~opts.dryRun /\ InventoryId \notin noSSA => todo' = todo \ {p},
         IdOfPtr(p) \in managed' =>
           \/ st \in {"applyOk", "deleteFailed"}
           \/ IdOfPtr(p) \in starting /\ st \in {"applyFailed", "skipped"}
           \/ IdOfPtr(p) \in lost' \cup (managed \ starting)
  PROVE  TasksInv' /\ FreshInv' /\ KeepInv'
<1>1. TasksInv' /\ FreshInv' /\ Work' = Work /\ p \in Pointers /\ statuses[p] = "none"
  BY PendingShrinks
<1>2. /\ NewInventory \subseteq NewInventory'
      /\ st \in {"applyOk", "deleteFailed"} => IdOfPtr(p) \in NewInventory'
      /\ st \in {"applyFailed", "skipped"} /\ IdOfPtr(p) \in starting
           => IdOfPtr(p) \in NewInventory'
  BY <1>1, NewInventoryGrows DEF TrackInv, TypeInv
<1>3. KeepInv'
  <2> SUFFICES ASSUME UniformServers, ~opts.dryRun, InventoryId \notin noSSA,
                      NEW id \in managed', intact' \/ id \in stored
               PROVE  Remembered(id)'
    BY DEF KeepInv
  <2>1. id \in managed => Remembered(id)
    BY DEF TrackInv, KeepInv
  <2>2. todo' = todo \ {p} /\ Pending \ {p} \subseteq Pending'
    BY <1>1 DEF Pending
  <2>3. CASE id = IdOfPtr(p)
    <3>1. CASE id \in NewInventory' \cup lost'
      BY <3>1 DEF Remembered
    <3>2. CASE id \in managed \ starting
      BY <1>2, <2>1, <3>2 DEF Remembered
    <3> QED
      BY <1>2, <2>3, <3>1, <3>2
  <2>4. CASE id # IdOfPtr(p)
    <3>1. id \in managed
      BY <2>4
    <3>2. CASE id \in NewInventory \cup lost
      BY <1>2, <3>2 DEF Remembered
    <3>3. CASE id \in starting /\ \E q \in Pending : IdOfPtr(q) = id
      <4>1. PICK q \in Pending : IdOfPtr(q) = id
        BY <3>3
      <4>2. q \in Pending'
        BY <2>2, <2>4, <4>1
      <4> QED
        BY <3>3, <4>1, <4>2 DEF Remembered
    <3> QED
      BY <2>1, <3>1, <3>2, <3>3 DEF Remembered
  <2> QED
    BY <2>3, <2>4
<1> QED
  BY <1>1, <1>3

LEMMA ApplyInv == TrackInv /\ ApplyStep /\ TypeInv' => TrackInv'
<1> SUFFICES ASSUME TrackInv, ApplyStep, TypeInv' PROVE TrackInv'
  OBVIOUS
<1> USE DEF serverVars, callVars, taskVars, ghostVars
<1>1. /\ pc = "apply" /\ pc' = "apply"
      /\ UNCHANGED <<noSSA, queue, starting, input, opts, stored>>
  BY DEF ApplyStep, FilterStops, ApplyStarts, PatchSucceeds, PatchFails, PatchLost,
         PatchUnsupported, Write
<1>2. {"applyOk", "applyFailed", "skipped"} \subseteq Statuses
  BY DEF Statuses
<1>3. current # None => current \in todo
  BY DEF TrackInv, TypeInv, TypeOK
<1>4. ASSUME NEW m \in Manifests, FilterStops(m) PROVE TrackInv'
  <2>1. PICK st \in {"applyFailed", "skipped"} : Report(m, st)
    BY <1>4 DEF FilterStops
  <2>2. m \in todo /\ UNCHANGED <<managed, lost, book, intact>>
    BY <1>4 DEF FilterStops, NextToApply
  <2>3. TasksInv' /\ FreshInv' /\ KeepInv'
    BY <1>1, <1>2, <2>1, <2>2, HandledInv DEF Report
  <2>4. BookInv'
    BY <1>1, <2>2 DEF TrackInv, BookInv
  <2> QED
    BY <2>3, <2>4 DEF TrackInv
<1>5. ASSUME NEW m \in Manifests, ApplyStarts(m) PROVE TrackInv'
  BY <1>5, QuietStep DEF ApplyStarts
<1>6. CASE PatchSucceeds
  <2>1. /\ Report(current, "applyOk") /\ Write(IdOfPtr(current)) /\ current \in todo
        /\ UNCHANGED <<lost, intact>>
    BY <1>3, <1>6 DEF PatchSucceeds
  <2>2. managed' \subseteq managed \cup {IdOfPtr(current)}
    BY <2>1 DEF Write
  <2>3. TasksInv' /\ FreshInv' /\ KeepInv'
    BY <1>1, <1>2, <2>1, <2>2, HandledInv DEF Report
  <2>4. BookInv'
    BY <1>1, <2>1 DEF Write, TrackInv, BookInv
  <2> QED
    BY <2>3, <2>4 DEF TrackInv
<1>7. CASE PatchFails
  <2>1. /\ Report(current, "applyFailed") /\ current \in todo
        /\ UNCHANGED <<managed, lost, book, intact>>
    BY <1>3, <1>7 DEF PatchFails
  <2>2. TasksInv' /\ FreshInv' /\ KeepInv'
    BY <1>1, <1>2, <2>1, HandledInv DEF Report
  <2>3. BookInv'
    BY <1>1, <2>1 DEF TrackInv, BookInv
  <2> QED
    BY <2>2, <2>3 DEF TrackInv
<1>8. CASE PatchLost
  <2> DEFINE id == IdOfPtr(current)
  <2>1. /\ Report(current, "applyFailed") /\ Write(id) /\ current \in todo
        /\ lost' = lost \cup ({id} \ starting) /\ intact' = (intact /\ id \in starting)
        /\ ~opts.dryRun
    BY <1>3, <1>8 DEF PatchLost
  <2>2. managed' \subseteq managed \cup {id} /\ book' = "dirty"
    BY <2>1 DEF Write
  <2>3. lost \subseteq lost' /\ (intact' => intact) /\ (id \in starting \/ id \in lost')
    BY <2>1
  <2>4. TasksInv' /\ FreshInv' /\ KeepInv'
    BY <1>1, <1>2, <2>1, <2>2, <2>3, HandledInv DEF Report
  <2>5. BookInv'
    BY <1>1, <2>1, <2>2 DEF TrackInv, BookInv
  <2> QED
    BY <2>4, <2>5 DEF TrackInv
<1>9. CASE PatchUnsupported
  <2>1. /\ todo' = {} /\ statuses' = [statuses EXCEPT ![current] = "applyFailed"]
        /\ current \in todo /\ UNCHANGED <<managed, lost, book, intact>>
    BY <1>3, <1>9 DEF PatchUnsupported
  <2>2. UniformServers => InventoryId \in noSSA
    BY <1>9 DEF PatchUnsupported, UniformServers, TrackInv, TypeInv, TypeOK
  <2>3. TasksInv' /\ FreshInv' /\ KeepInv'
    BY <1>1, <1>2, <2>1, <2>2, HandledInv
  <2>4. BookInv'
    BY <1>1, <2>1 DEF TrackInv, BookInv
  <2> QED
    BY <2>3, <2>4 DEF TrackInv
<1> QED
  BY <1>4, <1>5, <1>6, <1>7, <1>8, <1>9 DEF ApplyStep

LEMMA PruneInv == TrackInv /\ PruneStep /\ TypeInv' => TrackInv'
<1> SUFFICES ASSUME TrackInv, PruneStep, TypeInv' PROVE TrackInv'
  OBVIOUS
<1> USE DEF serverVars, callVars, taskVars, ghostVars
<1>1. /\ pc = "prune" /\ pc' = "prune"
      /\ UNCHANGED <<noSSA, queue, starting, input, opts, stored, lost, book, intact>>
      /\ managed' \subseteq managed
  BY DEF PruneStep, PruneStarts, DeleteSucceeds, DeleteNotFound, DeleteFails,
         DeleteLost, Erase
<1>2. BookInv'
  BY <1>1 DEF TrackInv, BookInv
<1>3. {"none", "deleteOk", "deleteFailed"} \subseteq Statuses
  BY DEF Statuses
<1>4. current # None => current \in todo /\ current \in Ids /\ IdOfPtr(current) = current
  BY <1>1, ApplierAssumption DEF IdOfPtr, TrackInv, TypeInv, TypeOK, TasksInv
<1>5. managed \subseteq live /\ None \notin live
  BY ApplierAssumption DEF TrackInv, TypeInv, TypeOK
<1>6. ASSUME NEW id \in Ids, PruneStarts(id) PROVE TrackInv'
  BY <1>6, QuietStep DEF PruneStarts
<1>7. CASE DeleteSucceeds /\ ~opts.dryRun
  <2>1. Report(current, "deleteOk") /\ current \in todo /\ IdOfPtr(current) \notin managed'
    BY <1>4, <1>5, <1>7 DEF DeleteSucceeds, Erase, Gone
  <2> QED
    BY <1>1, <1>2, <1>3, <2>1, HandledInv DEF Report, TrackInv
<1>8. CASE DeleteSucceeds /\ opts.dryRun
  <2>1. Report(current, "deleteOk") /\ current \in todo
    BY <1>4, <1>5, <1>8 DEF DeleteSucceeds
  <2>2. TasksInv' /\ FreshInv'
    BY <1>1, <1>3, <2>1, PendingShrinks DEF Report
  <2>3. KeepInv'
    BY <1>1, <1>8 DEF TrackInv, KeepInv
  <2> QED
    BY <1>2, <2>2, <2>3 DEF TrackInv
<1>9. CASE DeleteNotFound
  <2>1. /\ current \in todo /\ todo' = todo \ {current}
        /\ statuses' = [statuses EXCEPT ![current] = "none"]
    <3>1. current \in todo /\ todo' = todo \ {current} /\ statuses' = statuses
      BY <1>4, <1>9 DEF DeleteNotFound
    <3>2. statuses[current] = "none" /\ statuses \in [Pointers -> Statuses]
      BY <3>1 DEF Pending, TrackInv, FreshInv, TypeInv, TypeOK
    <3> QED
      BY <3>1, <3>2
  <2>2. IdOfPtr(current) \notin managed'
    BY <1>1, <1>4, <1>5, <1>9 DEF DeleteNotFound
  <2> QED
    BY <1>1, <1>2, <1>3, <2>1, <2>2, HandledInv DEF TrackInv
<1>10. CASE DeleteFails
  <2>1. Report(current, "deleteFailed") /\ current \in todo
    BY <1>4, <1>10 DEF DeleteFails
  <2> QED
    BY <1>1, <1>2, <1>3, <2>1, HandledInv DEF Report, TrackInv
<1>11. CASE DeleteLost
  <2>1. Report(current, "deleteFailed") /\ current \in todo
    BY <1>4, <1>5, <1>11 DEF DeleteLost
  <2> QED
    BY <1>1, <1>2, <1>3, <2>1, HandledInv DEF Report, TrackInv
<1> QED
  BY <1>6, <1>7, <1>8, <1>9, <1>10, <1>11 DEF PruneStep

-----------------------------------------------------------------------------
(* The save, and the steps around it.                                       *)

\* When the inventory task runs every object has had its turn.
LEMMA NothingPendingAtSave ==
  ASSUME TrackInv, pc = "inventory"
  PROVE  Pending = {}
<1>1. queue = <<>> /\ todo = {}
  BY DEF TrackInv, TypeInv, TodoInv
<1> QED
  BY <1>1 DEF Pending, Work

\* A save that reaches the server drops nothing that is tracked and exists.
LEMMA SaveKeeps ==
  ASSUME UniformServers, TrackInv, Save, ~opts.dryRun
  PROVE  /\ stored' = NewInventory
         /\ stored \cap managed \subseteq NewInventory \cup lost
         /\ intact => managed \subseteq NewInventory
<1>1. pc = "inventory" /\ InventoryId \notin noSSA /\ stored' = NewInventory
  BY DEF Save
<1>2. \A id \in managed : (intact \/ id \in stored) => id \in NewInventory \cup lost
  BY <1>1, NothingPendingAtSave DEF TrackInv, KeepInv, Remembered
<1>3. intact => lost = {}
  BY DEF TrackInv, BookInv
<1> QED
  BY <1>1, <1>2, <1>3

LEMMA SaveInv == TrackInv /\ (Save \/ SaveFails) /\ TypeInv' => TrackInv'
<1> SUFFICES ASSUME TrackInv, Save \/ SaveFails, TypeInv' PROVE TrackInv'
  OBVIOUS
<1> USE DEF serverVars, callVars, taskVars, ghostVars
<1>1. CASE SaveFails
  BY <1>1, QuietStep DEF SaveFails
<1>2. CASE Save /\ opts.dryRun
  BY <1>2, QuietStep DEF Save
<1>3. CASE Save /\ ~opts.dryRun
  <2>1. /\ stored' = NewInventory /\ book' = "saved" /\ pc' = "select"
        /\ UNCHANGED <<managed, noSSA, starting, input, opts, queue, todo, statuses, lost, intact>>
    BY <1>3 DEF Save
  <2>2. UniformServers => (intact => managed \subseteq NewInventory)
    BY <1>3, SaveKeeps
  <2>3. /\ Pending' = Pending /\ Work' = Work /\ NewInventory' = NewInventory
        /\ \A id : Remembered(id)' <=> Remembered(id)
    BY <2>1, SameMemory
  <2>4. TasksInv' /\ FreshInv'
    BY <2>1, <2>3 DEF TrackInv, TasksInv, FreshInv, InputIds
  <2>5. BookInv'
    BY <2>1, <2>2 DEF TrackInv, BookInv
  <2>6. KeepInv'
    BY <2>1, <2>2, <2>3 DEF KeepInv, Remembered
  <2> QED
    BY <2>4, <2>5, <2>6 DEF TrackInv
<1> QED
  BY <1>1, <1>2, <1>3

LEMMA OtherRunStepsInv ==
  TrackInv /\ (LoadFails \/ LoadNoMatch \/ GraphRejected \/ RunnerStops
               \/ RunnerReturns \/ TaskEnds \/ WaitStep) /\ TypeInv' => TrackInv'
<1> SUFFICES ASSUME TrackInv, TypeInv',
                    LoadFails \/ LoadNoMatch \/ GraphRejected \/ RunnerStops
                      \/ RunnerReturns \/ TaskEnds \/ WaitStep
             PROVE  TrackInv'
  OBVIOUS
<1> USE DEF serverVars, callVars, taskVars
<1>1. CASE LoadFails \/ LoadNoMatch \/ GraphRejected \/ RunnerStops \/ RunnerReturns
  BY <1>1, EndInv DEF LoadFails, LoadNoMatch, GraphRejected, RunnerStops, RunnerReturns
<1>2. CASE TaskEnds
  BY <1>2, QuietStep DEF TaskEnds
<1>3. CASE WaitStep
  <2>1. CASE PollerCloses
    BY <2>1, QuietStep DEF PollerCloses
  <2>2. ASSUME NEW id \in Ids, StatusCurrent(id) PROVE TrackInv'
    BY <2>2, QuietStep DEF StatusCurrent
  <2>3. ASSUME NEW id \in Ids, StatusFailed(id) PROVE TrackInv'
    BY <2>3, QuietStep DEF StatusFailed
  <2> QED
    BY <1>3, <2>1, <2>2, <2>3 DEF WaitStep
<1> QED
  BY <1>1, <1>2, <1>3

LEMMA EnvironmentInv == TrackInv /\ Environment /\ TypeInv' => TrackInv'
<1> SUFFICES ASSUME TrackInv, Environment, TypeInv' PROVE TrackInv'
  OBVIOUS
<1> USE DEF serverVars, callVars, taskVars
<1>1. CASE Timeout \/ Cancel
  BY <1>1, QuietStep DEF Timeout, Cancel, ContextDone
<1>2. CASE Crash
  BY <1>2, EndInv DEF Crash
<1>3. ASSUME NEW id \in Ids, Reconcile(id) PROVE TrackInv'
  BY <1>3, QuietStep DEF Reconcile
<1>4. ASSUME NEW id \in Ids, ExternalDelete(id) PROVE TrackInv'
  BY <1>4, QuietStep DEF ExternalDelete, Erase
<1> QED
  BY <1>1, <1>2, <1>3, <1>4, StartInv DEF Environment

LEMMA TrackInvStep == TrackInv /\ [Next]_vars => TrackInv'
<1> SUFFICES ASSUME TrackInv, [Next]_vars PROVE TrackInv'
  OBVIOUS
<1>1. TypeInv'
  BY TypeInvStep DEF TrackInv
<1>2. CASE UNCHANGED vars
  BY <1>1, <1>2, QuietStep DEF vars, serverVars, callVars, taskVars
<1> QED
  BY <1>1, <1>2, EnvironmentInv, PrepareInv, TakesInv, OtherRunStepsInv, ApplyInv,
     PruneInv, SaveInv
  DEF Next, RunStep

LEMMA TrackInvariance == Spec => []TrackInv
  BY InitInv, TrackInvStep, PTL DEF Spec

-----------------------------------------------------------------------------
\* Between two runs every object jpl wrote and that still exists is in the
\* inventory, unless a run stopped between its writes and its save or lost the
\* reply to a first write (manager.go:118-136, queuebuilder.go:102-104).
THEOREM InventoryComplete == UniformServers => (Spec => []TrackedBetweenRuns)
<1> SUFFICES ASSUME UniformServers PROVE Spec => []TrackedBetweenRuns
  OBVIOUS
<1>1. TrackInv => TrackedBetweenRuns
  BY DEF TrackInv, BookInv, TrackedBetweenRuns
<1> QED
  BY <1>1, TrackInvariance, PTL

\* A save never drops a tracked object that still exists, whatever became of it
\* in the run (manager.go:130-136).
THEOREM SaveForgetsNothing == UniformServers => (Spec => TrackedStaysTracked)
<1> SUFFICES ASSUME UniformServers PROVE Spec => TrackedStaysTracked
  OBVIOUS
<1>1. TrackInv /\ [Next]_vars =>
        [stored' # stored => stored \cap managed \subseteq stored' \cup lost]_vars
  <2> SUFFICES ASSUME TrackInv, [Next]_vars, stored' # stored
               PROVE  stored \cap managed \subseteq stored' \cup lost
    OBVIOUS
  <2>1. Save /\ ~opts.dryRun
    BY DEF vars, serverVars, Next, RunStep, Environment, Start, Timeout, Cancel, Crash,
       ContextDone, Reconcile, ExternalDelete, Erase, LoadFails, LoadNoMatch, End,
       GraphRejected, Prepare, RunnerStops, RunnerReturns, RunnerTakes, TaskEnds,
       ApplyStep, FilterStops, ApplyStarts, PatchSucceeds, PatchFails, PatchLost,
       PatchUnsupported, Write, WaitStep, PollerCloses, StatusCurrent, StatusFailed,
       PruneStep, PruneStarts, DeleteSucceeds, DeleteNotFound, DeleteFails, DeleteLost,
       Save, SaveFails
  <2> QED
    BY <2>1, SaveKeeps
<1> QED
  BY <1>1, TrackInvariance, PTL DEF Spec, TrackedStaysTracked

\* A prune request deletes, with what it contains, an object that was tracked
\* when the run began and that the input has no more (applier.go:216-230).
THEOREM PruneIsBounded == Spec => PruneDeletesAbandoned
<1>1. TrackInv /\ [Next]_vars =>
        [live' # live /\ pc = "prune" /\ current # current' =>
           /\ current \in starting \ InputIds
           /\ live \ live' = Gone(current)]_vars
  <2> SUFFICES ASSUME TrackInv, [Next]_vars, live' # live, pc = "prune", current # current'
               PROVE  current \in starting \ InputIds /\ live \ live' = Gone(current)
    OBVIOUS
  <2>1. current \in live /\ Erase(current)
    BY DEF vars, serverVars, taskVars, Next, RunStep, Environment, Start, Timeout, Cancel,
       Crash, ContextDone, Reconcile, ExternalDelete, LoadFails, LoadNoMatch, End,
       GraphRejected, Prepare, RunnerStops, RunnerReturns, RunnerTakes, TaskEnds,
       ApplyStep, FilterStops, ApplyStarts, PatchSucceeds, PatchFails, PatchLost,
       PatchUnsupported, WaitStep, PollerCloses, StatusCurrent, StatusFailed,
       PruneStep, PruneStarts, DeleteSucceeds, DeleteNotFound, DeleteFails, DeleteLost,
       Save, SaveFails
  <2>2. current \in todo
    BY <2>1, ApplierAssumption DEF TrackInv, TypeInv, TypeOK
  <2>3. current \in starting \ InputIds
    BY <2>2 DEF TrackInv, TasksInv
  <2>4. Gone(current) \subseteq live
    BY <2>1 DEF Gone
  <2> QED
    BY <2>1, <2>3, <2>4 DEF Erase
<1> QED
  BY <1>1, TrackInvariance, PTL DEF Spec, PruneDeletesAbandoned

-----------------------------------------------------------------------------
(* The order of the tasks.                                                  *)

LEMMA Halves ==
  \A i \in Nat \ {0} : \E k \in Nat \ {0} : k = (i + 1) \div 2 /\ (i = 2 * k - 1 \/ i = 2 * k)
  OBVIOUS

LEMMA TaskFields == \A type, objs : Task(type, objs).type = type /\ Task(type, objs).objs = objs
  BY DEF Task

\* The apply and wait tasks, one by one.
LEMMA TasksShape ==
  ASSUME TypeOK, ~Cyclic(input)
  PROVE  LET G == Groups(input)
             A == ApplyTasks
             n == Len(G)
         IN  /\ n \in Nat /\ Len(A) = IF Waits THEN 2 * n ELSE n
             /\ ~Waits => \A k \in 1..n : A[k] = Task("apply", G[k])
             /\ Waits => \A k \in 1..n : /\ A[2 * k - 1] = Task("apply", G[k])
                                        /\ A[2 * k] = Task("wait", G[k])
<1> DEFINE G == Groups(input)
           n == Len(G)
           A == ApplyTasks
<1>1. n \in Nat
  BY GroupsFacts
<1>2. CASE ~Waits
  <2>1. A = [i \in 1..n |-> Task("apply", G[i])]
    BY <1>2 DEF ApplyTasks
  <2> HIDE DEF G, n, A
  <2>2. Len(A) = n
    BY <1>1, <2>1
  <2> QED
    BY <1>1, <1>2, <2>1, <2>2 DEF G, n, A
<1>3. CASE Waits
  <2>1. A = [i \in 1..(2 * n) |->
               Task(IF i % 2 = 1 THEN "apply" ELSE "wait", G[(i + 1) \div 2])]
    BY <1>3 DEF ApplyTasks
  <2> HIDE DEF G, n, A
  <2>2. Len(A) = 2 * n
    BY <1>1, <2>1
  <2>3. ASSUME NEW k \in 1..n
        PROVE  A[2 * k - 1] = Task("apply", G[k]) /\ A[2 * k] = Task("wait", G[k])
    <3>1. /\ 2 * k - 1 \in 1..(2 * n) /\ (2 * k - 1) % 2 = 1 /\ ((2 * k - 1) + 1) \div 2 = k
          /\ 2 * k \in 1..(2 * n) /\ (2 * k) % 2 = 0 /\ (2 * k + 1) \div 2 = k
      BY <1>1
    <3> QED
      BY <2>1, <3>1
  <2> QED
    BY <1>1, <1>3, <2>2, <2>3 DEF G, n, A
<1> QED
  BY <1>2, <1>3

\* An apply task comes after the apply tasks of the earlier groups, and after
\* their waits if there are any; it comes before everything of its own group.
LEMMA TasksOrder ==
  ASSUME TypeOK, ~Cyclic(input), NEW s \in 1..Len(ApplyTasks), ApplyTasks[s].type = "apply"
  PROVE  LET G == Groups(input)
             A == ApplyTasks
         IN  \E k \in DOMAIN G :
               /\ A[s] = Task("apply", G[k])
               /\ \A i \in 1..(s - 1) : \E j \in 1..(k - 1) : A[i].objs = G[j]
               /\ \A j \in 1..(k - 1) :
                    /\ \E a \in 1..(s - 1) : A[a] = Task("apply", G[j])
                    /\ Waits => \E b \in 1..(s - 1) : A[b] = Task("wait", G[j])
<1> DEFINE G == Groups(input)
           A == ApplyTasks
           n == Len(G)
<1>1. /\ n \in Nat /\ Len(A) = IF Waits THEN 2 * n ELSE n
      /\ ~Waits => \A k \in 1..n : A[k] = Task("apply", G[k])
      /\ Waits => \A k \in 1..n : A[2 * k - 1] = Task("apply", G[k]) /\ A[2 * k] = Task("wait", G[k])
  BY TasksShape
<1>2. DOMAIN G = 1..n
  BY GroupsFacts
<1>3. A[s].type = "apply" /\ s \in 1..Len(A)
  OBVIOUS
<1> HIDE DEF G, A, n
<1>4. CASE ~Waits
  <2>1. s \in 1..n /\ \A i \in 1..(s - 1) : i \in 1..n
    BY <1>1, <1>3, <1>4
  <2>2. A[s] = Task("apply", G[s])
    BY <1>1, <1>4, <2>1
  <2>3. \A i \in 1..(s - 1) : A[i] = Task("apply", G[i]) /\ A[i].objs = G[i]
    BY <1>1, <1>4, <2>1 DEF Task
  <2> QED
    BY <1>2, <1>4, <2>1, <2>2, <2>3 DEF G, A
<1>5. CASE Waits
  <2>1. s \in 1..(2 * n) /\ s \in Nat \ {0}
    BY <1>1, <1>3, <1>5
  <2>2. PICK k \in Nat \ {0} : s = 2 * k - 1 \/ s = 2 * k
    BY <2>1, Halves
  <2>3. k \in 1..n
    <3>1. 2 * k - 1 <= 2 * n
      BY <1>1, <2>1, <2>2
    <3> QED
      BY <1>1, <3>1
  <2>4. s = 2 * k - 1
    <3>1. A[2 * k] = Task("wait", G[k])
      BY <1>1, <1>5, <2>3
    <3>2. A[2 * k].type = "wait"
      BY <3>1, TaskFields
    <3> QED
      BY <1>3, <2>2, <3>2
  <2>5. A[s] = Task("apply", G[k])
    BY <1>1, <1>5, <2>3, <2>4
  <2>6. ASSUME NEW i \in 1..(s - 1) PROVE \E j \in 1..(k - 1) : A[i].objs = G[j]
    <3>0. i \in Nat \ {0} /\ i <= s - 1
      BY <2>1
    <3>1. PICK j \in Nat \ {0} : i = 2 * j - 1 \/ i = 2 * j
      BY <3>0, Halves
    <3>2. j \in 1..(k - 1) /\ j \in 1..n
      BY <1>1, <2>3, <2>4, <3>0, <3>1
    <3>3. A[i] = Task("apply", G[j]) \/ A[i] = Task("wait", G[j])
      BY <1>1, <1>5, <3>1, <3>2
    <3>4. A[i].objs = G[j]
      BY <3>3, TaskFields
    <3> QED
      BY <3>2, <3>4
  <2>7. ASSUME NEW j \in 1..(k - 1)
        PROVE  /\ \E a \in 1..(s - 1) : A[a] = Task("apply", G[j])
               /\ \E b \in 1..(s - 1) : A[b] = Task("wait", G[j])
    <3>0. j \in 1..n /\ j <= k - 1
      BY <1>1, <2>3
    <3>1. 2 * j - 1 \in 1..(s - 1) /\ 2 * j \in 1..(s - 1) /\ j \in 1..n
      BY <1>1, <2>3, <2>4, <3>0
    <3> QED
      BY <1>1, <1>5, <3>1
  <2> QED
    BY <1>2, <2>3, <2>5, <2>6, <2>7 DEF G, A
<1> QED
  BY <1>4, <1>5

\* The queue begins with them; what follows prunes and saves.
LEMMA QueueShape ==
  ASSUME TypeOK, ~Cyclic(input)
  PROVE  LET A == ApplyTasks
             q == BuildQueue
         IN  /\ Len(A) \in Nat /\ Len(A) <= Len(q)
             /\ Len(q) # 0 /\ q[Len(q)].type = "inventory"
             /\ \A i \in DOMAIN q :
                  IF i <= Len(A) THEN q[i] = A[i] ELSE q[i].type \in {"prune", "inventory"}
<1> DEFINE A == ApplyTasks
           P == PruneTasks
           x == Task("inventory", {})
           q == BuildQueue
           a == Len(A)
           b == Len(P)
<1>1. A \in Seq(TaskType) /\ a \in Nat
  BY ApplyTasksFacts
<1>2. P \in Seq(TaskType) /\ b \in 0..1 /\ (b = 1 => P[1].type = "prune")
  <2>1. Task("prune", ToPrune) \in TaskType /\ Task("prune", ToPrune).type = "prune"
    BY DEF ToPrune, TypeOK, Task, TaskType, Pointers
  <2>2. CASE ToPrune = {}
    <3>1. P = <<>>
      BY <2>2 DEF PruneTasks
    <3> QED
      BY <3>1
  <2>3. CASE ToPrune # {}
    <3>1. P = <<Task("prune", ToPrune)>>
      BY <2>3 DEF PruneTasks
    <3> HIDE DEF P
    <3> QED
      BY <2>1, <3>1
  <2> QED
    BY <2>2, <2>3
<1>3. x \in TaskType /\ x.type = "inventory"
  BY DEF Task, TaskType
<1>4. q = A \o P \o <<x>>
  BY DEF BuildQueue
<1> HIDE DEF A, P, x, q
<1>5. /\ q \in Seq(TaskType) /\ Len(q) = a + b + 1 /\ DOMAIN q = 1..(a + b + 1)
      /\ \A i \in 1..a : q[i] = A[i]
      /\ \A i \in 1..b : q[a + i] = P[i]
      /\ q[a + b + 1] = x
  BY <1>1, <1>2, <1>3, <1>4, ConcatThree
<1>6. \A i \in DOMAIN q : i \in 1..a \/ (b = 1 /\ i = a + 1) \/ i = a + b + 1
  <2>1. a \in Nat /\ b \in 0..1 /\ DOMAIN q = 1..(a + b + 1)
    BY <1>1, <1>2, <1>5
  <2> HIDE DEF a, b
  <2> QED
    BY <2>1, ThreeParts
<1>7. b = 1 => q[a + 1].type = "prune"
  BY <1>2, <1>5
<1>8. \A i \in DOMAIN q : IF i <= a THEN q[i] = A[i] ELSE q[i].type \in {"prune", "inventory"}
  <2> TAKE i \in DOMAIN q
  <2>1. CASE i <= a
    BY <1>1, <1>5, <2>1
  <2>2. CASE ~(i <= a)
    BY <1>1, <1>3, <1>5, <1>6, <1>7, <2>2
  <2> QED
    BY <2>1, <2>2
<1> QED
  BY <1>1, <1>2, <1>3, <1>5, <1>8 DEF A, q

-----------------------------------------------------------------------------
(* How far a run has come.                                                  *)

\* What some object of the input waits for.
Awaited == {e[2] : e \in Edges(input)}

\* The server refused one of the objects, and their task gave up.
Refused(objs) == \E p \in objs : IdOf(p) \in noSSA /\ statuses[p] = "applyFailed"

\* The apply and wait tasks the run has not taken lead the queue.
TasksLeft(s) ==
  /\ Len(ApplyTasks) - s <= Len(queue)
  /\ \A i \in DOMAIN queue :
       IF i <= Len(ApplyTasks) - s THEN queue[i] = ApplyTasks[s + i]
                                   ELSE queue[i].type \in {"prune", "inventory"}

TaskAtHand(s) ==
  /\ pc \in {"apply", "wait"} => s >= 1 /\ ApplyTasks[s].type = pc
  /\ pc = "apply" => todo \subseteq ApplyTasks[s].objs

\* The objects of the tasks taken have had their turn.
TriedUpTo(s) ==
  \A i \in 1..s : ApplyTasks[i].type = "apply" =>
    \A m \in ApplyTasks[i].objs : \/ pc = "apply" /\ i = s /\ m \in todo
                                  \/ statuses[m] # "none"
                                  \/ Refused(ApplyTasks[i].objs)

\* What was waited for has been seen Current since it was last written.
SeenUpTo(s) ==
  Waits /\ ~cut =>
    \A i \in 1..s : ApplyTasks[i].type = "wait" =>
      \A m \in ApplyTasks[i].objs \cap Awaited : statuses[m] = "applyOk" =>
        IdOf(m) \in reconciled \/ (pc = "wait" /\ i = s /\ IdOf(m) \in watch)

\* The run has taken s of its apply and wait tasks.
Progress(s) == TasksLeft(s) /\ TaskAtHand(s) /\ TriedUpTo(s) /\ SeenUpTo(s)

OrderInv ==
  pc \notin {"idle", "load"} => ~Cyclic(input) /\ \E s \in 0..Len(ApplyTasks) : Progress(s)

\* What a status of a manifest and the tasks are made of does not change.
LEMMA SameTasks ==
  ASSUME UNCHANGED <<input, opts>>
  PROVE  /\ ApplyTasks' = ApplyTasks /\ (Waits' <=> Waits) /\ Awaited' = Awaited
         /\ (Cyclic(input)' <=> Cyclic(input))
  BY DEF ApplyTasks, Waits, Awaited

\* A step that gives no object of the input a status and ends no wait.
LEMMA QuietProgress ==
  ASSUME TypeOK, ~Cyclic(input), NEW s \in 0..Len(ApplyTasks), Progress(s),
         UNCHANGED <<input, opts, noSSA, queue, watch, reconciled, cut>>,
         \A m \in Manifests : statuses'[m] = statuses[m],
         \/ pc' = pc /\ (pc = "apply" => todo' = todo)
         \/ pc' = "select" /\ pc # "wait" /\ (pc = "apply" => todo = {})
  PROVE  Progress(s)'
<1>1. ApplyTasks' = ApplyTasks /\ (Waits' <=> Waits) /\ Awaited' = Awaited
  BY SameTasks
<1>2. s \in Nat /\ \A i \in 1..s : i \in 1..Len(ApplyTasks) /\ ApplyTasks[i].objs \subseteq Manifests
  BY ApplyTasksFacts
<1>3. TasksLeft(s)'
  BY <1>1 DEF Progress, TasksLeft
<1>4. TaskAtHand(s)'
  BY <1>1 DEF Progress, TaskAtHand
<1>5. \A i \in 1..s : Refused(ApplyTasks[i].objs) => Refused(ApplyTasks[i].objs)'
  BY <1>1, <1>2 DEF Refused
<1>6. TriedUpTo(s)'
  BY <1>1, <1>2, <1>5 DEF Progress, TriedUpTo
<1>7. SeenUpTo(s)'
  BY <1>1, <1>2 DEF Progress, SeenUpTo
<1> QED
  BY <1>3, <1>4, <1>6, <1>7 DEF Progress

\* An apply task gives the object p its status, and perhaps gives up.
LEMMA ReportProgress ==
  ASSUME CopiesAgree, TrackInv, ~Cyclic(input), NEW s \in 0..Len(ApplyTasks), Progress(s),
         UNCHANGED <<input, opts, noSSA, queue, watch, cut, pc>>, pc = "apply",
         NEW p \in todo, NEW st \in Statuses \ {"none"},
         statuses' = [statuses EXCEPT ![p] = st],
         reconciled \ {IdOf(p)} \subseteq reconciled',
         \/ todo' = todo \ {p}
         \/ todo' = {} /\ IdOf(p) \in noSSA /\ st = "applyFailed"
  PROVE  Progress(s)'
<1> DEFINE A == ApplyTasks
           G == Groups(input)
<1>1. ApplyTasks' = ApplyTasks /\ (Waits' <=> Waits) /\ Awaited' = Awaited
  BY SameTasks
<1>2. TypeOK /\ input \in Seq(Manifests) /\ statuses \in [Pointers -> Statuses]
      /\ todo \subseteq Pointers
  BY DEF TrackInv, TypeInv, TypeOK
<1>3. s \in Nat /\ s \in 1..Len(A) /\ A[s].type = "apply" /\ p \in A[s].objs
      /\ todo \subseteq A[s].objs
  BY DEF Progress, TaskAtHand
<1>4. \A i \in 1..s : i \in 1..Len(A) /\ A[i].objs \subseteq Manifests
  BY <1>2, ApplyTasksFacts
<1>5. PICK k \in DOMAIN G : /\ A[s] = Task("apply", G[k])
                            /\ \A i \in 1..(s - 1) : \E j \in 1..(k - 1) : A[i].objs = G[j]
  BY <1>2, <1>3, TasksOrder
<1>6. A[s].objs = G[k]
  BY <1>5, TaskFields
<1>7. /\ DOMAIN G = 1..Len(G) /\ Len(G) \in Nat
      /\ \A i, j \in 1..Len(G) : i # j => G[i] \cap G[j] = {}
  <2>1. G \in Seq(SUBSET Manifests)
    BY <1>2, GroupsFacts
  <2> QED
    BY <1>2, <2>1, GroupsFacts
<1>8. statuses[p] = "none" /\ p \in Pointers
  <2>1. p \in Pending
    BY DEF Pending
  <2> QED
    BY <1>2, <2>1 DEF TrackInv, FreshInv
<1>9. /\ statuses'[p] = st
      /\ \A m \in Manifests : m # p => statuses'[m] = statuses[m]
      /\ \A m \in Manifests : statuses[m] # "none" => statuses'[m] = statuses[m]
  <2>1. Manifests \subseteq Pointers
    BY DEF Pointers
  <2> QED
    BY <1>2, <1>8, <2>1
<1> HIDE DEF A, G
<1>10. TasksLeft(s)' /\ TaskAtHand(s)'
  BY <1>1, <1>3 DEF Progress, TasksLeft, TaskAtHand, A
<1>11. \A i \in 1..s : Refused(A[i].objs) => Refused(A[i].objs)'
  <2> SUFFICES ASSUME NEW i \in 1..s, Refused(A[i].objs) PROVE Refused(A[i].objs)'
    OBVIOUS
  <2>1. PICK c \in A[i].objs : IdOf(c) \in noSSA /\ statuses[c] = "applyFailed"
    BY DEF Refused
  <2>2. statuses'[c] = "applyFailed"
    BY <1>4, <1>9, <2>1
  <2>3. A[i].objs' = A[i].objs
    BY <1>1 DEF A
  <2> QED
    BY <2>1, <2>2, <2>3 DEF Refused
<1>12. TriedUpTo(s)'
  <2> SUFFICES ASSUME NEW i \in 1..s, A[i].type = "apply", NEW m \in A[i].objs
               PROVE  \/ i = s /\ m \in todo'
                      \/ statuses'[m] # "none"
                      \/ Refused(A[i].objs)'
    BY <1>1 DEF TriedUpTo, A
  <2>1. \/ i = s /\ m \in todo
        \/ statuses[m] # "none"
        \/ Refused(A[i].objs)
    BY DEF Progress, TriedUpTo, A
  <2>2. CASE statuses[m] # "none"
    BY <1>4, <1>9, <2>2
  <2>3. CASE Refused(A[i].objs)
    BY <1>11, <2>3
  <2>4. CASE i = s /\ m \in todo
    <3>1. CASE todo' = todo \ {p}
      <4>1. m = p \/ m \in todo'
        BY <2>4, <3>1
      <4> QED
        BY <1>9, <2>4, <4>1
    <3>2. CASE IdOf(p) \in noSSA /\ st = "applyFailed"
      <4>1. statuses'[p] = "applyFailed" /\ IdOf(p)' \in noSSA' /\ p \in A[i].objs'
        BY <1>1, <1>3, <1>9, <2>4, <3>2 DEF A
      <4> QED
        BY <4>1 DEF Refused
    <3> QED
      BY <3>1, <3>2
  <2> QED
    BY <2>1, <2>2, <2>3, <2>4
<1>13. SeenUpTo(s)'
  <2> SUFFICES ASSUME Waits, ~cut, NEW i \in 1..s, A[i].type = "wait",
                      NEW m \in A[i].objs \cap Awaited, statuses'[m] = "applyOk"
               PROVE  IdOf(m) \in reconciled'
    BY <1>1 DEF SeenUpTo, A
  <2>1. i \in 1..(s - 1)
    BY <1>3
  <2>2. PICK j \in 1..(k - 1) : A[i].objs = G[j]
    BY <1>5, <2>1
  <2>3. j \in 1..Len(G) /\ k \in 1..Len(G) /\ j # k /\ j \in Nat /\ k \in Nat /\ j < k
    BY <1>5, <1>7
  <2>4. m # p
    <3>1. m \in G[j] /\ p \in G[k]
      BY <1>3, <1>6, <2>2
    <3> QED
      BY <1>7, <2>3, <3>1
  <2>5. statuses[m] = "applyOk"
    BY <1>4, <1>9, <2>4
  <2>6. IdOf(m) \in reconciled
    BY <2>5 DEF Progress, SeenUpTo, A
  <2>7. IdOf(m) # IdOf(p)
    <3> SUFFICES ASSUME IdOf(p) = IdOf(m) PROVE FALSE
      OBVIOUS
    <3>1. PICK e \in Edges(input) : m = e[2]
      BY DEF Awaited
    <3>2. p \in Vertices(input)
      <4>1. UNION {G[l] : l \in 1..Len(G)} = Vertices(input)
        BY <1>2, GroupsFacts DEF G
      <4> QED
        BY <1>3, <1>6, <2>3, <4>1
    <3>3. j \in DOMAIN G /\ e[2] \in G[j] /\ IdOf(p) = IdOf(e[2])
      BY <1>7, <2>2, <2>3, <3>1
    <3>4. PICK l \in 1..j : l \in DOMAIN G /\ p \in G[l]
      BY <1>2, <3>2, <3>3, CopiesNotLater DEF G
    <3>5. l \in 1..Len(G) /\ l # k
      BY <1>7, <2>3, <3>4
    <3> QED
      BY <1>3, <1>6, <1>7, <2>3, <3>4, <3>5
  <2> QED
    BY <2>6, <2>7
<1> QED
  BY <1>10, <1>12, <1>13 DEF Progress

LEMMA PrepareProgress ==
  TrackInv /\ Prepare => (~Cyclic(input) /\ \E s \in 0..Len(ApplyTasks) : Progress(s))'
<1> SUFFICES ASSUME TrackInv, Prepare
             PROVE  ~Cyclic(input)' /\ \E s \in 0..Len(ApplyTasks)' : Progress(s)'
  OBVIOUS
<1>1. TypeOK /\ ~Cyclic(input) /\ UNCHANGED <<input, opts>> /\ queue' = BuildQueue
      /\ pc' = "select"
  BY DEF Prepare, TrackInv, TypeInv
<1>2. ApplyTasks' = ApplyTasks /\ (Cyclic(input)' <=> Cyclic(input))
  BY <1>1, SameTasks
<1>3. /\ Len(ApplyTasks) \in Nat /\ Len(ApplyTasks) <= Len(queue')
      /\ \A i \in DOMAIN queue' :
           IF i <= Len(ApplyTasks) THEN queue'[i] = ApplyTasks[i]
                                   ELSE queue'[i].type \in {"prune", "inventory"}
  BY <1>1, QueueShape
<1>4. TasksLeft(0)'
  <2>1. Len(ApplyTasks) - 0 = Len(ApplyTasks)
    BY <1>3
  <2>2. \A i \in DOMAIN queue' : 0 + i = i
    <3>1. queue' \in Seq(TaskType)
      BY <1>1, BuildQueueFacts
    <3> QED
      BY <3>1
  <2> QED
    BY <1>2, <1>3, <2>1, <2>2 DEF TasksLeft
<1>5. TaskAtHand(0)' /\ TriedUpTo(0)' /\ SeenUpTo(0)'
  BY <1>1 DEF TaskAtHand, TriedUpTo, SeenUpTo
<1> QED
  BY <1>1, <1>2, <1>3, <1>4, <1>5 DEF Progress

\* Taking the next task: an apply task starts with all its objects, a wait
\* watches what was applied.
LEMMA TakesProgress ==
  ASSUME TrackInv, ~Cyclic(input), NEW s \in 0..Len(ApplyTasks), Progress(s), RunnerTakes
  PROVE  \E r \in 0..Len(ApplyTasks)' : Progress(r)'
<1> DEFINE A == ApplyTasks
           n == Len(A)
           t == Head(queue)
           watched == {IdOfPtr(p) : p \in {x \in t.objs : Watchable(x)}}
<1>1. /\ pc = "select" /\ queue # <<>> /\ queue' = Tail(queue)
      /\ UNCHANGED <<input, opts, noSSA, statuses, reconciled, cut>>
      /\ queue \in Seq(TaskType) /\ TypeOK
  BY DEF RunnerTakes, TrackInv, TypeInv, TypeOK, callVars
<1>2. IF t.type = "wait"
        THEN watch' = watched /\ pc' = AfterWatching(watched)
        ELSE pc' = t.type /\ todo' = t.objs
  BY DEF RunnerTakes
<1>3. ApplyTasks' = ApplyTasks /\ (Waits' <=> Waits) /\ Awaited' = Awaited
  BY <1>1, SameTasks
<1>4. /\ A \in Seq(TaskType) /\ n \in Nat
      /\ \A i \in 1..n : A[i].type \in {"apply", "wait"} /\ A[i].objs \subseteq Manifests
  BY <1>1, ApplyTasksFacts
<1>5. s \in Nat /\ s <= n
  BY <1>4
<1>6. /\ Len(queue) \in Nat \ {0} /\ DOMAIN queue = 1..Len(queue) /\ t = queue[1]
      /\ Len(queue') = Len(queue) - 1 /\ DOMAIN queue' = 1..(Len(queue) - 1)
      /\ \A i \in DOMAIN queue' : queue'[i] = queue[i + 1] /\ i + 1 \in DOMAIN queue
  BY <1>1
<1>7. /\ n - s <= Len(queue)
      /\ \A i \in DOMAIN queue : IF i <= n - s THEN queue[i] = A[s + i]
                                 ELSE queue[i].type \in {"prune", "inventory"}
  BY DEF Progress, TasksLeft
<1>8. /\ \A i \in 1..s : A[i].type = "apply" =>
           \A m \in A[i].objs : statuses[m] # "none" \/ Refused(A[i].objs)
      /\ Waits /\ ~cut =>
           \A i \in 1..s : A[i].type = "wait" =>
             \A m \in A[i].objs \cap Awaited : statuses[m] = "applyOk" =>
               IdOf(m) \in reconciled
  BY <1>1 DEF Progress, TriedUpTo, SeenUpTo
<1>9. \A S : Refused(S)' <=> Refused(S)
  BY <1>1 DEF Refused
<1> HIDE DEF A, n, t, watched
<1>10. CASE s = n
  <2>1. t.type \in {"prune", "inventory"}
    BY <1>5, <1>6, <1>7, <1>10
  <2>2. pc' \in {"prune", "inventory"}
    BY <1>2, <2>1
  <2>3. TasksLeft(s)'
    <3>1. n - s = 0
      BY <1>5, <1>10
    <3>2. \A i \in DOMAIN queue' : queue'[i].type \in {"prune", "inventory"} /\ ~(i <= 0)
      BY <1>6, <1>7, <3>1
    <3> QED
      BY <1>3, <1>6, <3>1, <3>2 DEF TasksLeft, A, n
  <2>4. TaskAtHand(s)'
    BY <2>2 DEF TaskAtHand
  <2>5. TriedUpTo(s)'
    BY <1>1, <1>3, <1>8, <1>9 DEF TriedUpTo, A
  <2>6. SeenUpTo(s)'
    BY <1>1, <1>3, <1>8 DEF SeenUpTo, A
  <2> QED
    BY <1>3, <2>3, <2>4, <2>5, <2>6 DEF Progress
<1>11. CASE s # n
  <2> DEFINE r == s + 1
  <2>1. r \in 1..n /\ r - 1 = s /\ r \in Nat
    BY <1>4, <1>5, <1>11
  <2>2. t = A[r]
    <3>1. 1 \in DOMAIN queue /\ 1 <= n - s
      BY <1>4, <1>5, <1>6, <2>1
    <3> QED
      BY <1>6, <1>7, <3>1
  <2>3. TasksLeft(r)'
    <3>1. n - r <= Len(queue')
      BY <1>4, <1>5, <1>6, <1>7
    <3>2. ASSUME NEW i \in DOMAIN queue'
          PROVE  IF i <= n - r THEN queue'[i] = A[r + i]
                               ELSE queue'[i].type \in {"prune", "inventory"}
      <4>0. i \in Nat /\ i + 1 \in DOMAIN queue /\ queue'[i] = queue[i + 1]
        BY <1>6
      <4>1. s + (i + 1) = r + i /\ (i + 1 <= n - s <=> i <= n - r)
        <5>1. n \in Nat /\ s \in Nat /\ i \in Nat
          BY <1>4, <1>5, <4>0
        <5>2. s + (i + 1) = r + i
          BY <5>1
        <5>3. i + 1 <= n - s <=> i <= n - r
          BY <5>1
        <5> QED
          BY <5>2, <5>3
      <4> QED
        BY <1>7, <4>0, <4>1
    <3> QED
      BY <1>3, <3>1, <3>2 DEF TasksLeft, A, n
  <2>4. A[r].type \in {"apply", "wait"} /\ A[r].objs \subseteq Manifests
    BY <1>4, <2>1
  <2>5. CASE A[r].type = "apply"
    <3>1. pc' = "apply" /\ todo' = A[r].objs
      BY <1>2, <2>2, <2>5
    <3>2. TaskAtHand(r)'
      BY <1>3, <2>1, <2>5, <3>1 DEF TaskAtHand, A
    <3>3. TriedUpTo(r)'
      <4>1. \A i \in 1..r : i \in 1..s \/ i = r
        BY <2>1
      <4> QED
        BY <1>1, <1>3, <1>8, <1>9, <3>1, <4>1 DEF TriedUpTo, A
    <3>4. SeenUpTo(r)'
      <4>1. \A i \in 1..r : A[i].type = "wait" => i \in 1..s
        BY <2>1, <2>5
      <4> QED
        BY <1>1, <1>3, <1>8, <4>1 DEF SeenUpTo, A
    <3> QED
      BY <1>3, <2>1, <2>3, <3>2, <3>3, <3>4 DEF Progress, A, n
  <2>6. CASE A[r].type = "wait"
    <3>1. watch' = watched /\ pc' = IF watched = {} THEN "select" ELSE "wait"
      BY <1>2, <2>2, <2>6 DEF AfterWatching
    <3>2. TaskAtHand(r)'
      BY <1>3, <2>1, <2>6, <3>1 DEF TaskAtHand, A
    <3>3. TriedUpTo(r)'
      <4>1. \A i \in 1..r : A[i].type = "apply" => i \in 1..s
        BY <2>1, <2>6
      <4>2. pc' # "apply"
        BY <3>1
      <4> QED
        BY <1>1, <1>3, <1>8, <1>9, <4>1, <4>2 DEF TriedUpTo, A
    <3>4. \A m \in A[r].objs : statuses[m] = "applyOk" => IdOf(m) \in watched
      <4> TAKE m \in A[r].objs
      <4> HAVE statuses[m] = "applyOk"
      <4>1. Watchable(m) /\ m \in t.objs /\ m \in Manifests
        BY <2>2, <2>4 DEF Watchable
      <4>2. IdOfPtr(m) \in watched /\ IdOfPtr(m) = IdOf(m)
        BY <4>1 DEF watched, IdOfPtr
      <4> QED
        BY <4>2
    <3>5. SeenUpTo(r)'
      <4> SUFFICES ASSUME Waits, ~cut, NEW i \in 1..r, A[i].type = "wait",
                          NEW m \in A[i].objs \cap Awaited, statuses[m] = "applyOk"
                   PROVE  IdOf(m) \in reconciled \/ (pc' = "wait" /\ i = r /\ IdOf(m) \in watch')
        BY <1>1, <1>3 DEF SeenUpTo, A
      <4>1. CASE i \in 1..s
        BY <1>8, <4>1
      <4>2. CASE i = r
        BY <3>1, <3>4, <4>2
      <4> QED
        BY <2>1, <4>1, <4>2
    <3> QED
      BY <1>3, <2>1, <2>3, <3>2, <3>3, <3>5 DEF Progress, A, n
  <2> QED
    BY <2>4, <2>5, <2>6
<1> QED
  BY <1>10, <1>11

\* The last object of a wait is seen Current when the wait ends, or it is cut.
LEMMA WaitProgress ==
  ASSUME TypeOK, ~Cyclic(input), NEW s \in 0..Len(ApplyTasks), Progress(s),
         PollerCloses \/ \E id \in Ids : StatusCurrent(id)
  PROVE  Progress(s)'
<1>1. /\ pc = "wait" /\ pc' \in {"select", "wait"}
      /\ UNCHANGED <<input, opts, noSSA, queue, statuses, todo>>
  BY DEF PollerCloses, StatusCurrent, callVars, taskVars
<1>2. ApplyTasks' = ApplyTasks /\ (Waits' <=> Waits) /\ Awaited' = Awaited
  BY <1>1, SameTasks
<1>3. TasksLeft(s)'
  BY <1>1, <1>2 DEF Progress, TasksLeft
<1>4. TaskAtHand(s)'
  BY <1>1, <1>2 DEF Progress, TaskAtHand
<1>5. \A S : Refused(S)' <=> Refused(S)
  BY <1>1 DEF Refused
<1>6. TriedUpTo(s)'
  BY <1>1, <1>2, <1>5 DEF Progress, TriedUpTo
<1>7. SeenUpTo(s)'
  <2>1. CASE PollerCloses
    BY <2>1 DEF PollerCloses, SeenUpTo
  <2>2. ASSUME NEW id \in Ids, StatusCurrent(id) PROVE SeenUpTo(s)'
    <3>1. /\ watch' = watch \ {id} /\ reconciled' = reconciled \cup {id} /\ cut' = cut
          /\ pc' = IF watch = {id} THEN "select" ELSE "wait"
      BY <2>2 DEF StatusCurrent
    <3>2. \A x \in watch : x \in reconciled' \/ (pc' = "wait" /\ x \in watch')
      BY <3>1
    <3> QED
      BY <1>1, <1>2, <3>1, <3>2 DEF Progress, SeenUpTo
  <2> QED
    BY <2>1, <2>2
<1> QED
  BY <1>3, <1>4, <1>6, <1>7 DEF Progress

LEMMA ApplyProgress ==
  ASSUME CopiesAgree, TrackInv, ~Cyclic(input), NEW s \in 0..Len(ApplyTasks), Progress(s),
         ApplyStep
  PROVE  Progress(s)'
<1> USE DEF serverVars, callVars, waitVars, ghostVars
<1>1. TypeOK /\ pc = "apply"
  BY DEF ApplyStep, FilterStops, ApplyStarts, PatchSucceeds, PatchFails, PatchLost,
     PatchUnsupported, TrackInv, TypeInv
<1>2. \A p \in todo : p \in Manifests
  <2>1. s \in 1..Len(ApplyTasks) /\ todo \subseteq ApplyTasks[s].objs
    BY <1>1 DEF Progress, TaskAtHand
  <2> QED
    BY <1>1, <2>1, ApplyTasksFacts
<1>3. current # None => current \in todo /\ IdOfPtr(current) = IdOf(current)
  BY <1>1, <1>2 DEF TypeOK, IdOfPtr
<1>4. ASSUME NEW m \in Manifests, FilterStops(m) PROVE Progress(s)'
  <2>1. PICK st \in {"applyFailed", "skipped"} : Report(m, st)
    BY <1>4 DEF FilterStops
  <2>2. m \in todo /\ UNCHANGED <<input, opts, noSSA, queue, watch, cut, pc, reconciled>>
    BY <1>4 DEF FilterStops, NextToApply
  <2>3. st \in Statuses \ {"none"}
    BY DEF Statuses
  <2> QED
    BY <1>1, <2>1, <2>2, <2>3, ReportProgress DEF Report
<1>5. ASSUME NEW m \in Manifests, ApplyStarts(m) PROVE Progress(s)'
  BY <1>1, <1>5, QuietProgress DEF ApplyStarts
<1>6. CASE PatchSucceeds
  <2>1. /\ current \in todo /\ Report(current, "applyOk")
        /\ UNCHANGED <<input, opts, noSSA, queue, watch, cut, pc>>
        /\ reconciled' = reconciled \ {IdOf(current)}
    BY <1>3, <1>6 DEF PatchSucceeds
  <2> QED
    BY <1>1, <2>1, ReportProgress DEF Report, Statuses
<1>7. CASE PatchFails
  <2>1. /\ current \in todo /\ Report(current, "applyFailed")
        /\ UNCHANGED <<input, opts, noSSA, queue, watch, cut, pc, reconciled>>
    BY <1>3, <1>7 DEF PatchFails
  <2> QED
    BY <1>1, <2>1, ReportProgress DEF Report, Statuses
<1>8. CASE PatchLost
  <2>1. /\ current \in todo /\ Report(current, "applyFailed")
        /\ UNCHANGED <<input, opts, noSSA, queue, watch, cut, pc>>
        /\ reconciled' = reconciled \ {IdOf(current)}
    BY <1>3, <1>8 DEF PatchLost
  <2> QED
    BY <1>1, <2>1, ReportProgress DEF Report, Statuses
<1>9. CASE PatchUnsupported
  <2>1. /\ current \in todo /\ todo' = {} /\ IdOf(current) \in noSSA
        /\ statuses' = [statuses EXCEPT ![current] = "applyFailed"]
        /\ UNCHANGED <<input, opts, noSSA, queue, watch, cut, pc, reconciled>>
    BY <1>3, <1>9 DEF PatchUnsupported
  <2> QED
    BY <1>1, <2>1, ReportProgress DEF Statuses
<1> QED
  BY <1>4, <1>5, <1>6, <1>7, <1>8, <1>9 DEF ApplyStep

\* A prune task has no object of the input.
LEMMA PruneProgress ==
  ASSUME TrackInv, ~Cyclic(input), NEW s \in 0..Len(ApplyTasks), Progress(s), PruneStep
  PROVE  Progress(s)'
<1> USE DEF serverVars, callVars, waitVars, ghostVars
<1>1. /\ TypeOK /\ pc = "prune" /\ pc' = "prune"
      /\ UNCHANGED <<input, opts, noSSA, queue, watch, reconciled, cut>>
  BY DEF PruneStep, PruneStarts, DeleteSucceeds, DeleteNotFound, DeleteFails, DeleteLost,
     TrackInv, TypeInv
<1>2. current \notin Manifests
  <2>1. current \in Ids \cup {None}
    BY <1>1 DEF TrackInv, TasksInv, TypeOK
  <2> QED
    BY <2>1, ApplierAssumption
<1>3. \A m \in Manifests : statuses'[m] = statuses[m]
  <2>1. UNCHANGED statuses \/ \E st \in Statuses : statuses' = [statuses EXCEPT ![current] = st]
    BY DEF PruneStep, PruneStarts, DeleteSucceeds, DeleteNotFound, DeleteFails, DeleteLost,
       Report, Statuses
  <2>2. statuses \in [Pointers -> Statuses] /\ Manifests \subseteq Pointers
    BY <1>1 DEF TypeOK, Pointers
  <2> QED
    BY <1>2, <2>1, <2>2
<1> QED
  BY <1>1, <1>3, QuietProgress

LEMMA OrderInvStep == CopiesAgree /\ TrackInv /\ OrderInv /\ [Next]_vars => OrderInv'
<1> SUFFICES ASSUME CopiesAgree, TrackInv, OrderInv, [Next]_vars PROVE OrderInv'
  OBVIOUS
<1> USE DEF serverVars, callVars, taskVars, waitVars, ghostVars
<1>1. CASE Start
  BY <1>1 DEF Start, OrderInv
<1>2. CASE LoadFails \/ LoadNoMatch \/ GraphRejected \/ RunnerStops \/ RunnerReturns \/ Crash
  BY <1>2 DEF LoadFails, LoadNoMatch, GraphRejected, RunnerStops, RunnerReturns, Crash,
     End, OrderInv
<1>3. CASE Prepare
  BY <1>3, PrepareProgress DEF OrderInv
<1>4. ASSUME pc \in {"idle", "load"}, ~Start, ~Prepare, ~Crash, ~LoadFails, ~LoadNoMatch,
             ~GraphRejected
      PROVE  pc' = pc
  BY <1>4 DEF vars, Next, RunStep, Environment, Timeout, Cancel, ContextDone, Reconcile,
     ExternalDelete, RunnerStops, RunnerReturns, RunnerTakes, TaskEnds, ApplyStep,
     FilterStops, ApplyStarts, PatchSucceeds, PatchFails, PatchLost, PatchUnsupported,
     WaitStep, PollerCloses, StatusCurrent, StatusFailed, PruneStep, PruneStarts,
     DeleteSucceeds, DeleteNotFound, DeleteFails, DeleteLost, Save, SaveFails
<1>5. CASE pc \in {"idle", "load"}
  BY <1>1, <1>2, <1>3, <1>4, <1>5 DEF OrderInv
<1>6. ASSUME pc \notin {"idle", "load"},
             RunnerTakes \/ TaskEnds \/ ApplyStep \/ WaitStep \/ PruneStep \/ Save
               \/ SaveFails \/ Timeout \/ Cancel \/ UNCHANGED vars
               \/ \E id \in Ids : Reconcile(id) \/ ExternalDelete(id)
      PROVE  OrderInv'
  <2>1. TypeOK /\ ~Cyclic(input)
    BY <1>6 DEF TrackInv, TypeInv, OrderInv
  <2>2. PICK s \in 0..Len(ApplyTasks) : Progress(s)
    BY <1>6 DEF OrderInv
  <2>3. UNCHANGED <<input, opts>>
    BY <1>6 DEF vars, RunnerTakes, TaskEnds, ApplyStep,
       FilterStops, ApplyStarts, PatchSucceeds, PatchFails, PatchLost, PatchUnsupported,
       WaitStep, PollerCloses, StatusCurrent, StatusFailed, PruneStep, PruneStarts,
       DeleteSucceeds, DeleteNotFound, DeleteFails, DeleteLost, Save, SaveFails,
       Timeout, Cancel, ContextDone, Reconcile, ExternalDelete
  <2>4. ~Cyclic(input)' /\ ApplyTasks' = ApplyTasks
    BY <2>1, <2>3, SameTasks
  <2>5. CASE RunnerTakes
    BY <2>1, <2>2, <2>4, <2>5, TakesProgress DEF OrderInv
  <2>6. CASE ApplyStep
    BY <2>1, <2>2, <2>4, <2>6, ApplyProgress DEF OrderInv
  <2>7. CASE PruneStep
    BY <2>1, <2>2, <2>4, <2>7, PruneProgress DEF OrderInv
  <2>8. CASE PollerCloses \/ \E id \in Ids : StatusCurrent(id)
    BY <2>1, <2>2, <2>4, <2>8, WaitProgress DEF OrderInv
  <2>9. CASE TaskEnds \/ Save \/ SaveFails
    <3>1. /\ UNCHANGED <<input, opts, noSSA, queue, watch, reconciled, cut, statuses>>
          /\ pc' = "select" /\ pc # "wait" /\ (pc = "apply" => todo = {})
      BY <2>9 DEF TaskEnds, Save, SaveFails
    <3>2. Progress(s)'
      BY <2>1, <2>2, <3>1, QuietProgress
    <3> QED
      BY <2>2, <2>4, <3>2 DEF OrderInv
  <2>10. CASE Timeout \/ Cancel \/ UNCHANGED vars
                \/ \E id \in Ids : StatusFailed(id) \/ Reconcile(id) \/ ExternalDelete(id)
    <3>1. UNCHANGED <<input, opts, noSSA, queue, watch, reconciled, cut, statuses, todo, pc>>
      BY <2>10 DEF vars, Timeout, Cancel, ContextDone, StatusFailed, Reconcile, ExternalDelete
    <3>2. Progress(s)'
      BY <2>1, <2>2, <3>1, QuietProgress
    <3> QED
      BY <2>2, <2>4, <3>2 DEF OrderInv
  <2> QED
    BY <1>6, <2>5, <2>6, <2>7, <2>8, <2>9, <2>10 DEF WaitStep
<1> QED
  BY <1>1, <1>2, <1>3, <1>5, <1>6 DEF Next, RunStep, Environment

LEMMA OrderInvariance == CopiesAgree => (Spec => []OrderInv)
<1> SUFFICES ASSUME CopiesAgree PROVE Spec => []OrderInv
  OBVIOUS
<1>1. Init => OrderInv
  BY DEF Init, OrderInv
<1>2. TrackInv /\ OrderInv /\ [Next]_vars => OrderInv'
  BY OrderInvStep
<1> QED
  BY <1>1, <1>2, TrackInvariance, PTL DEF Spec

\* When an object is applied everything it depends on has had its turn, and was
\* seen Current if it was applied in a run that waits and no wait was cut short
\* (queuebuilder.go:78-95, wait.go:51-92): for every graph, any number of copies
\* of an object that agree, and whatever the server and the controllers do.
THEOREM DependenciesFirst == CopiesAgree => (Spec => []DependenciesSettled)
<1> SUFFICES ASSUME CopiesAgree PROVE Spec => []DependenciesSettled
  OBVIOUS
<1>1. TrackInv /\ OrderInv => DependenciesSettled
  <2> SUFFICES ASSUME TrackInv, OrderInv, pc = "apply", current # None,
                      NEW e \in Edges(input), e[1] = current
               PROVE  /\ statuses[e[2]] # "none" \/ GivenUp(e[2])
                      /\ (opts.wait /\ ~opts.dryRun /\ statuses[e[2]] = "applyOk" /\ ~cut)
                           => IdOf(e[2]) \in reconciled
    BY DEF DependenciesSettled
  <2> DEFINE G == Groups(input)
             A == ApplyTasks
  <2>1. TypeOK /\ input \in Seq(Manifests) /\ current \in todo
    BY DEF TrackInv, TypeInv, TypeOK
  <2>2. ~Cyclic(input)
    BY DEF OrderInv
  <2>3. PICK s \in 0..Len(A) : Progress(s)
    BY DEF OrderInv
  <2>4. s \in 1..Len(A) /\ A[s].type = "apply" /\ todo \subseteq A[s].objs
    BY <2>3 DEF Progress, TaskAtHand
  <2>5. PICK k \in DOMAIN G :
          /\ A[s] = Task("apply", G[k])
          /\ \A j \in 1..(k - 1) :
               /\ \E a \in 1..(s - 1) : A[a] = Task("apply", G[j])
               /\ Waits => \E b \in 1..(s - 1) : A[b] = Task("wait", G[j])
    BY <2>1, <2>2, <2>4, TasksOrder
  <2>6. current \in G[k]
    BY <2>1, <2>4, <2>5, TaskFields
  <2>7. e = <<current, e[2]>> /\ e[2] \in Vertices(input)
    BY <2>1, EdgesArePairs, DependencyIsLookedUp
  <2>8. PICK j \in 1..(k - 1) : j \in DOMAIN G /\ e[2] \in G[j]
    BY <2>1, <2>6, <2>7, GroupIsFree
  <2>9. statuses[e[2]] # "none" \/ GivenUp(e[2])
    <3>1. PICK a \in 1..(s - 1) : A[a] = Task("apply", G[j])
      BY <2>5, <2>8
    <3>2. A[a].type = "apply" /\ A[a].objs = G[j] /\ a \in 1..s /\ a # s
      BY <2>4, <3>1, TaskFields
    <3>3. statuses[e[2]] # "none" \/ Refused(G[j])
      BY <2>3, <2>8, <3>2 DEF Progress, TriedUpTo
    <3> QED
      BY <2>8, <3>3 DEF Refused, GivenUp
  <2>10. ASSUME opts.wait /\ ~opts.dryRun, statuses[e[2]] = "applyOk", ~cut
         PROVE  IdOf(e[2]) \in reconciled
    <3>1. Waits /\ e[2] \in Awaited
      BY <2>10 DEF Waits, Awaited
    <3>2. PICK b \in 1..(s - 1) : A[b] = Task("wait", G[j])
      BY <2>5, <2>8, <3>1
    <3>3. A[b].type = "wait" /\ A[b].objs = G[j] /\ b \in 1..s
      BY <2>4, <3>2, TaskFields
    <3> QED
      BY <2>3, <2>8, <2>10, <3>1, <3>3 DEF Progress, SeenUpTo
  <2> QED
    BY <2>9, <2>10
<1> QED
  BY <1>1, OrderInvariance, TrackInvariance, PTL

-----------------------------------------------------------------------------
(* What the tasks and a save are made of.                                   *)

\* Only objects of the input are applied.
AppliesInput ==
  /\ \A i \in DOMAIN queue : queue[i].type = "apply" => queue[i].objs \subseteq Vertices(input)
  /\ pc = "apply" => todo \subseteq Vertices(input)
  /\ \A p \in Pointers :
       statuses[p] \in {"applyOk", "applyFailed", "skipped"} => p \in Vertices(input)

\* A save is the last thing a run does, and writes what the run knows.
SaveIsLast ==
  /\ book = "saved" => stored = NewInventory /\ queue = <<>> /\ pc \in {"select", "idle"}
  /\ pc \notin {"idle", "load"} /\ queue # <<>> => queue[Len(queue)].type = "inventory"

\* In a run that waits an apply task is followed by its wait.
WaitFollows ==
  Waits /\ pc \notin {"idle", "load"} =>
    /\ \A i \in DOMAIN queue : queue[i].type = "apply" =>
         i + 1 \in DOMAIN queue /\ queue[i + 1] = Task("wait", queue[i].objs)
    /\ pc = "apply" =>
         1 \in DOMAIN queue /\ queue[1].type = "wait" /\ todo \subseteq queue[1].objs

PlanInv == AppliesInput /\ SaveIsLast /\ WaitFollows

\* What QueueBuilder.Build hands to the runner.
LEMMA BuildPlan ==
  ASSUME TypeOK, ~Cyclic(input)
  PROVE  LET q == BuildQueue
         IN  /\ q \in Seq(TaskType) /\ Len(q) \in Nat /\ q # <<>>
             /\ q[Len(q)].type = "inventory"
             /\ \A i \in DOMAIN q : q[i].type = "apply" =>
                  /\ q[i].objs \subseteq Vertices(input)
                  /\ Waits => i + 1 \in DOMAIN q /\ q[i + 1] = Task("wait", q[i].objs)
<1> DEFINE q == BuildQueue
           A == ApplyTasks
           G == Groups(input)
           n == Len(G)
<1>1. q \in Seq(TaskType) /\ DOMAIN q = 1..Len(q) /\ Len(q) \in Nat
  BY BuildQueueFacts
<1>2. /\ Len(A) \in Nat /\ Len(A) <= Len(q) /\ Len(q) # 0 /\ q[Len(q)].type = "inventory"
      /\ \A i \in DOMAIN q :
           IF i <= Len(A) THEN q[i] = A[i] ELSE q[i].type \in {"prune", "inventory"}
  BY QueueShape
<1>3. /\ n \in Nat /\ Len(A) = IF Waits THEN 2 * n ELSE n
      /\ Waits => \A k \in 1..n : A[2 * k - 1] = Task("apply", G[k]) /\ A[2 * k] = Task("wait", G[k])
  BY TasksShape
<1>4. \A i \in DOMAIN q : q[i].type = "apply" => q[i].objs \subseteq Vertices(input)
  <2>1. UNION {q[i].objs : i \in {j \in DOMAIN q : q[j].type \in {"apply", "prune"}}}
          = Vertices(input) \cup ToPrune
    BY BuildQueueFacts
  <2>2. \A i \in 1..Len(A) : A[i].objs \subseteq Manifests
    BY ApplyTasksFacts
  <2>3. ToPrune \cap Manifests = {}
    BY ApplierAssumption DEF ToPrune, TypeOK
  <2> HIDE DEF q, A
  <2> SUFFICES ASSUME NEW i \in DOMAIN q, q[i].type = "apply", NEW p \in q[i].objs
               PROVE  p \in Vertices(input)
    OBVIOUS
  <2>4. i \in 1..Len(A) /\ q[i] = A[i]
    BY <1>1, <1>2
  <2>5. p \in Manifests /\ p \in Vertices(input) \cup ToPrune
    BY <2>1, <2>2, <2>4
  <2> QED
    BY <2>3, <2>5
<1> HIDE DEF q, A, G, n
<1>5. ASSUME Waits, NEW i \in DOMAIN q, q[i].type = "apply"
      PROVE  i + 1 \in DOMAIN q /\ q[i + 1] = Task("wait", q[i].objs)
  <2>1. i \in 1..(2 * n) /\ i \in Nat \ {0} /\ q[i] = A[i]
    BY <1>1, <1>2, <1>3, <1>5
  <2>2. PICK k \in Nat \ {0} : i = 2 * k - 1 \/ i = 2 * k
    BY <2>1, Halves
  <2>3. k \in 1..n
    <3>1. 2 * k - 1 <= 2 * n
      BY <1>3, <2>1, <2>2
    <3> QED
      BY <1>3, <3>1
  <2>4. A[2 * k - 1] = Task("apply", G[k]) /\ A[2 * k] = Task("wait", G[k])
    BY <1>3, <1>5, <2>3
  <2>5. i # 2 * k
    <3>1. A[2 * k].type = "wait"
      BY <2>4, TaskFields
    <3> QED
      BY <1>5, <2>1, <3>1
  <2>6. i + 1 = 2 * k /\ i = 2 * k - 1
    BY <2>2, <2>5
  <2>7. i + 1 \in DOMAIN q /\ i + 1 <= Len(A)
    <3>1. i + 1 \in 1..(2 * n) /\ Len(A) = 2 * n
      BY <1>3, <1>5, <2>3, <2>6
    <3> QED
      BY <1>1, <1>2, <3>1
  <2>8. q[i + 1] = A[2 * k] /\ q[i] = A[2 * k - 1]
    BY <1>2, <2>1, <2>6, <2>7
  <2>9. q[i].objs = G[k]
    BY <2>4, <2>8, TaskFields
  <2> QED
    BY <2>4, <2>7, <2>8, <2>9
<1>6. q # <<>>
  BY <1>1, <1>2
<1> QED
  BY <1>1, <1>2, <1>4, <1>5, <1>6 DEF q

\* A step that builds no queue and takes no task.
LEMMA QuietPlan ==
  ASSUME PlanInv, UNCHANGED <<input, opts, queue, stored, starting>>, todo' \subseteq todo,
         \A p \in Pointers :
           statuses'[p] \in {"applyOk", "applyFailed", "skipped"} => p \in Vertices(input),
         book' = "saved" => book = "saved" /\ UNCHANGED statuses,
         pc' = pc \/ (pc' = "select" /\ pc \notin {"idle", "load"}) \/ pc' = "idle"
  PROVE  PlanInv'
<1>1. AppliesInput'
  BY DEF PlanInv, AppliesInput
<1>2. SaveIsLast'
  <2>1. book' = "saved" => NewInventory' = NewInventory
    BY DEF NewInventory, WithStatus
  <2> QED
    BY <2>1 DEF PlanInv, SaveIsLast
<1>3. WaitFollows'
  BY DEF PlanInv, WaitFollows, Waits
<1> QED
  BY <1>1, <1>2, <1>3 DEF PlanInv

LEMMA PlanInvStep == TrackInv /\ PlanInv /\ [Next]_vars => PlanInv'
<1> SUFFICES ASSUME TrackInv, PlanInv, [Next]_vars PROVE PlanInv'
  OBVIOUS
<1> USE DEF serverVars, callVars, taskVars, waitVars, ghostVars
<1> DEFINE Applied == {"applyOk", "applyFailed", "skipped"}
<1>1. /\ TypeOK /\ statuses \in [Pointers -> Statuses] /\ queue \in Seq(TaskType)
      /\ \A p \in Pointers : statuses[p] \in Applied => p \in Vertices(input)
  BY DEF TrackInv, TypeInv, TypeOK, PlanInv, AppliesInput
<1>2. CASE Start
  BY <1>2 DEF Start, PlanInv, AppliesInput, SaveIsLast, WaitFollows
<1>3. CASE LoadFails \/ LoadNoMatch \/ GraphRejected \/ RunnerStops \/ RunnerReturns \/ Crash
  BY <1>1, <1>3, QuietPlan DEF LoadFails, LoadNoMatch, GraphRejected, RunnerStops,
     RunnerReturns, Crash, End
<1>4. CASE Prepare
  <2>1. /\ ~Cyclic(input) /\ queue' = BuildQueue /\ pc' = "select" /\ UNCHANGED <<input, opts>>
        /\ statuses' = [p \in Pointers |-> "none"] /\ book' = "clean"
    BY <1>4 DEF Prepare, TrackInv, FreshInv
  <2>2. /\ queue'[Len(queue')].type = "inventory"
        /\ \A i \in DOMAIN queue' : queue'[i].type = "apply" =>
             /\ queue'[i].objs \subseteq Vertices(input)
             /\ Waits => i + 1 \in DOMAIN queue' /\ queue'[i + 1] = Task("wait", queue'[i].objs)
    BY <1>1, <2>1, BuildPlan
  <2>3. AppliesInput'
    BY <2>1, <2>2 DEF AppliesInput
  <2>4. SaveIsLast'
    BY <2>1, <2>2 DEF SaveIsLast
  <2>5. WaitFollows'
    BY <2>1, <2>2 DEF WaitFollows, Waits
  <2> QED
    BY <2>3, <2>4, <2>5 DEF PlanInv
<1>5. CASE RunnerTakes
  <2> DEFINE t == Head(queue)
  <2>1. /\ pc = "select" /\ queue # <<>> /\ queue' = Tail(queue) /\ book # "saved"
        /\ UNCHANGED <<input, opts, statuses, book>>
    BY <1>5 DEF RunnerTakes, PlanInv, SaveIsLast
  <2>2. /\ Len(queue) \in Nat \ {0} /\ DOMAIN queue = 1..Len(queue) /\ t = queue[1]
        /\ Len(queue') = Len(queue) - 1 /\ DOMAIN queue' = 1..(Len(queue) - 1)
        /\ \A i \in DOMAIN queue' : queue'[i] = queue[i + 1] /\ i + 1 \in DOMAIN queue
    BY <1>1, <2>1
  <2>3. pc' = "apply" => t.type = "apply" /\ todo' = t.objs
    BY <1>5 DEF RunnerTakes, AfterWatching
  <2> HIDE DEF t
  <2>4. AppliesInput'
    BY <2>1, <2>2, <2>3 DEF PlanInv, AppliesInput
  <2>5. SaveIsLast'
    <3>1. ASSUME queue' # <<>> PROVE queue'[Len(queue')].type = "inventory"
      <4>1. Len(queue') \in DOMAIN queue' /\ Len(queue') + 1 = Len(queue)
        <5>1. queue' \in Seq(TaskType)
          BY <1>1, <2>1
        <5>2. Len(queue') # 0
          BY <3>1, <5>1
        <5> QED
          BY <2>2, <5>2
      <4>2. queue[Len(queue)].type = "inventory"
        BY <2>1 DEF PlanInv, SaveIsLast
      <4> QED
        BY <2>2, <4>1, <4>2
    <3> QED
      BY <2>1, <3>1 DEF SaveIsLast
  <2>6. WaitFollows'
    <3> SUFFICES ASSUME Waits
                 PROVE  /\ \A i \in DOMAIN queue' : queue'[i].type = "apply" =>
                             /\ i + 1 \in DOMAIN queue'
                             /\ queue'[i + 1] = Task("wait", queue'[i].objs)
                        /\ pc' = "apply" => /\ 1 \in DOMAIN queue' /\ queue'[1].type = "wait"
                                            /\ todo' \subseteq queue'[1].objs
      BY <2>1 DEF WaitFollows, Waits
    <3>1. \A i \in DOMAIN queue : queue[i].type = "apply" =>
            i + 1 \in DOMAIN queue /\ queue[i + 1] = Task("wait", queue[i].objs)
      BY <2>1 DEF PlanInv, WaitFollows
    <3>2. ASSUME NEW i \in DOMAIN queue', queue'[i].type = "apply"
          PROVE  i + 1 \in DOMAIN queue' /\ queue'[i + 1] = Task("wait", queue'[i].objs)
      <4>1. (i + 1) + 1 \in DOMAIN queue /\ queue[(i + 1) + 1] = Task("wait", queue'[i].objs)
        BY <2>2, <3>1, <3>2
      <4>2. i + 1 \in DOMAIN queue'
        BY <2>2, <4>1
      <4> QED
        BY <2>2, <4>1, <4>2
    <3>3. ASSUME pc' = "apply"
          PROVE  /\ 1 \in DOMAIN queue' /\ queue'[1].type = "wait"
                 /\ todo' \subseteq queue'[1].objs
      <4>1. 1 + 1 \in DOMAIN queue /\ queue[1 + 1] = Task("wait", t.objs)
        BY <2>2, <2>3, <3>1, <3>3
      <4>2. 1 \in DOMAIN queue' /\ queue'[1] = Task("wait", t.objs)
        BY <2>2, <4>1
      <4> QED
        BY <2>3, <3>3, <4>2, TaskFields
    <3> QED
      BY <3>2, <3>3
  <2> QED
    BY <2>4, <2>5, <2>6 DEF PlanInv
<1>6. CASE TaskEnds \/ WaitStep
  <2>1. /\ UNCHANGED <<input, opts, queue, stored, starting, todo, statuses, book>>
        /\ pc' = pc \/ (pc' = "select" /\ pc \notin {"idle", "load"})
    BY <1>6 DEF TaskEnds, WaitStep, PollerCloses, StatusCurrent, StatusFailed
  <2> QED
    BY <1>1, <2>1, QuietPlan
<1>7. CASE ApplyStep
  <2>1. /\ pc = "apply" /\ pc' = "apply" /\ todo' \subseteq todo
        /\ UNCHANGED <<input, opts, queue, stored, starting>>
        /\ book' = book \/ book' = "dirty"
        /\ statuses' = statuses
             \/ \E p \in todo : \E st \in Statuses : statuses' = [statuses EXCEPT ![p] = st]
    <3>1. current # None => current \in todo
      BY <1>1 DEF TypeOK
    <3>2. {"applyOk", "applyFailed", "skipped"} \subseteq Statuses
      BY DEF Statuses
    <3>3. CASE \E m \in Manifests : FilterStops(m) \/ ApplyStarts(m)
      BY <3>2, <3>3 DEF FilterStops, ApplyStarts, Report, NextToApply
    <3>4. CASE PatchSucceeds
      BY <3>1, <3>2, <3>4 DEF PatchSucceeds, Report, Write
    <3>5. CASE PatchFails
      BY <3>1, <3>2, <3>5 DEF PatchFails, Report
    <3>6. CASE PatchLost
      BY <3>1, <3>2, <3>6 DEF PatchLost, Report, Write
    <3>7. CASE PatchUnsupported
      BY <3>1, <3>2, <3>7 DEF PatchUnsupported
    <3> QED
      BY <1>7, <3>3, <3>4, <3>5, <3>6, <3>7 DEF ApplyStep
  <2>2. todo \subseteq Vertices(input) /\ book # "saved"
    BY <2>1 DEF PlanInv, AppliesInput, SaveIsLast
  <2>3. \A p \in Pointers : statuses'[p] \in Applied => p \in Vertices(input)
    BY <1>1, <2>1, <2>2
  <2> QED
    BY <2>1, <2>2, <2>3, QuietPlan
<1>8. CASE PruneStep
  <2>1. /\ pc = "prune" /\ pc' = "prune" /\ todo' \subseteq todo
        /\ UNCHANGED <<input, opts, queue, stored, starting, book>>
        /\ \/ statuses' = statuses
           \/ \E st \in {"deleteOk", "deleteFailed"} : statuses' = [statuses EXCEPT ![current] = st]
    BY <1>8 DEF PruneStep, PruneStarts, DeleteSucceeds, DeleteNotFound, DeleteFails,
       DeleteLost, Report, Erase
  <2>2. book # "saved"
    BY <2>1 DEF PlanInv, SaveIsLast
  <2>3. \A p \in Pointers : statuses'[p] \in Applied => p \in Vertices(input)
    BY <1>1, <2>1
  <2> QED
    BY <2>1, <2>2, <2>3, QuietPlan
<1>9. CASE SaveFails \/ (Save /\ opts.dryRun) \/ Timeout \/ Cancel \/ UNCHANGED vars
             \/ \E id \in Ids : Reconcile(id) \/ ExternalDelete(id)
  <2>1. /\ UNCHANGED <<input, opts, queue, stored, starting, todo, statuses, book>>
        /\ pc' = pc \/ (pc' = "select" /\ pc \notin {"idle", "load"})
    BY <1>9 DEF vars, SaveFails, Save, Timeout, Cancel, ContextDone, Reconcile, ExternalDelete, Erase
  <2> QED
    BY <1>1, <2>1, QuietPlan
<1>10. CASE Save /\ ~opts.dryRun
  <2>1. /\ pc = "inventory" /\ pc' = "select" /\ stored' = NewInventory
        /\ UNCHANGED <<input, opts, queue, starting, todo, statuses>>
    BY <1>10 DEF Save
  <2>2. queue = <<>> /\ NewInventory' = NewInventory
    BY <2>1 DEF TrackInv, TypeInv, TodoInv, NewInventory, WithStatus
  <2>3. AppliesInput' /\ SaveIsLast'
    BY <2>1, <2>2 DEF PlanInv, AppliesInput, SaveIsLast
  <2>4. WaitFollows'
    BY <2>1, <2>2 DEF WaitFollows
  <2> QED
    BY <2>3, <2>4 DEF PlanInv
<1> QED
  BY <1>2, <1>3, <1>4, <1>5, <1>6, <1>7, <1>8, <1>9, <1>10 DEF Next, RunStep, Environment

LEMMA PlanInvInit == Init => PlanInv
  BY DEF Init, PlanInv, AppliesInput, SaveIsLast, WaitFollows

\* After a run in which everything was applied, deleted and saved the inventory
\* is the input, and nothing else jpl ever wrote is left in the cluster
\* (applier.go:216-230, manager.go:118-136; README.md:46-47).
THEOREM CleanRunLeavesInput == UniformServers => (Spec => []CleanRunConverges)
<1> SUFFICES ASSUME UniformServers PROVE Spec => []CleanRunConverges
  OBVIOUS
<1>1. TrackInv /\ PlanInv => CleanRunConverges
  <2> SUFFICES ASSUME TrackInv, PlanInv, book = "saved", intact,
                      \A m \in Vertices(input) : statuses[m] = "applyOk",
                      WithStatus({"deleteFailed"}) = {}
               PROVE  stored = InputIds /\ managed \subseteq InputIds
    BY DEF CleanRunConverges
  <2>1. Vertices(input) \subseteq Manifests /\ Manifests \subseteq Pointers
    BY DEF TrackInv, TypeInv, TypeOK, Vertices, Pointers
  <2>2. \A p \in Pointers : statuses[p] \in {"applyOk", "applyFailed", "skipped"}
                              => p \in Vertices(input) /\ statuses[p] = "applyOk"
    BY DEF PlanInv, AppliesInput
  <2>3. WithStatus({"applyFailed", "skipped"}) = {}
    BY <2>2 DEF WithStatus
  <2>4. WithStatus({"applyOk"}) = InputIds
    BY <2>1, <2>2 DEF WithStatus, InputIds, IdOfPtr
  <2>5. WithStatus({"applyOk", "deleteFailed"}) = WithStatus({"applyOk"})
    BY DEF WithStatus
  <2>6. stored = NewInventory /\ NewInventory = InputIds
    BY <2>3, <2>4, <2>5 DEF PlanInv, SaveIsLast, NewInventory
  <2>7. managed \subseteq stored
    BY DEF TrackInv, BookInv
  <2> QED
    BY <2>6, <2>7
<1>2. Spec => []PlanInv
  BY PlanInvInit, PlanInvStep, TrackInvariance, PTL DEF Spec
<1> QED
  BY <1>1, <1>2, TrackInvariance, PTL

-----------------------------------------------------------------------------
(* What the caller hears.                                                   *)

\* The caller has received an error event, or is about to.
Heard == told \/ IsErrorEvent(event)

\* An object of the input that is applied and whose wait is yet to end.
Waited(id) ==
  \/ \E m \in Vertices(input) :
       /\ IdOf(m) = id /\ statuses[m] = "applyOk"
       /\ \E i \in DOMAIN queue : queue[i].type = "wait" /\ m \in queue[i].objs
  \/ pc = "wait" /\ id \in watch

AllWell ==
  /\ \A p \in Pointers : statuses[p] \notin {"applyFailed", "deleteFailed"}
  /\ \A m \in Vertices(input) : m \in Pending \/ statuses[m] \in {"applyOk", "skipped"}

\* What is to be pruned is gone or has its turn to come, and so has the save.
WillSave ==
  ~opts.dryRun => /\ (starting \ InputIds) \cap live \subseteq Pending
                  /\ queue # <<>> \/ pc = "inventory" \/ book = "saved"

AllSeen ==
  Waits /\ ~cut => \A id \in WithStatus({"applyOk"}) : id \in reconciled \/ Waited(id)

\* Everything that had its turn went well.
Clean ==
  /\ pc = "idle" => queue = <<>> /\ todo = {}
  /\ AllWell /\ WillSave /\ AllSeen

\* A run that went on, or ended without being killed.
Active == pc \notin {"idle", "load"} \/ (pc = "idle" /\ runs > 0 /\ outcome # "crashed")

\* Only an informer that fails or a context that is done ends a wait early, and
\* with the context done nothing is saved.
CutInv == cut /\ ~deaf => ctxDone /\ book # "saved"

CleanInv == CutInv /\ (Active /\ ~Heard => Clean)

-----------------------------------------------------------------------------
(* The steps that send no error.                                            *)

LEMMA QuietClean ==
  ASSUME Clean, UNCHANGED <<input, opts, starting, queue, todo, statuses, book>>,
         live' \subseteq live, reconciled \subseteq reconciled',
         cut => cut',
         \A id : Waited(id) /\ ~cut' => Waited(id)' \/ id \in reconciled',
         \/ pc' = pc
         \/ pc' = "select" /\ (pc = "inventory" => opts.dryRun)
         \/ pc' = "idle" /\ queue = <<>> /\ todo = {} /\ pc # "inventory"
  PROVE  Clean'
<1>1. Pending' = Pending
  BY DEF Pending, Work
<1>2. AllWell'
  BY <1>1 DEF Clean, AllWell
<1>3. WillSave'
  BY <1>1 DEF Clean, WillSave, InputIds
<1>4. AllSeen'
  <2>1. WithStatus({"applyOk"})' = WithStatus({"applyOk"}) /\ (Waits' <=> Waits)
    BY DEF WithStatus, Waits
  <2> QED
    BY <2>1 DEF Clean, AllSeen
<1>5. pc' = "idle" => queue' = <<>> /\ todo' = {}
  BY DEF Clean
<1> QED
  BY <1>2, <1>3, <1>4, <1>5 DEF Clean

\* An object has its turn, and it goes well.
LEMMA HandledClean ==
  ASSUME TrackInv, PlanInv, Clean, pc \in {"apply", "prune"}, pc' = pc,
         UNCHANGED <<input, opts, starting, queue, cut>>,
         NEW p \in todo, NEW st \in Statuses \ {"applyFailed", "deleteFailed"},
         todo' = todo \ {p}, statuses' = [statuses EXCEPT ![p] = st],
         p \in Vertices(input) => st \in {"applyOk", "skipped"},
         ~opts.dryRun => (starting \ InputIds) \cap live' \subseteq live \ {p},
         st = "applyOk" => pc = "apply" /\ reconciled \ {IdOfPtr(p)} \subseteq reconciled',
         st # "applyOk" => reconciled' = reconciled
  PROVE  Clean'
<1>1. /\ TypeOK /\ statuses \in [Pointers -> Statuses] /\ todo \subseteq Pointers
      /\ Vertices(input) \subseteq Manifests /\ Manifests \subseteq Pointers
  BY DEF TrackInv, TypeInv, TypeOK, Vertices, Pointers
<1>2. Work' = Work /\ Pending \ {p} \subseteq Pending'
  BY DEF Pending, Work
<1>3. statuses[p] = "none"
  BY DEF TrackInv, FreshInv, Pending
<1>4. AllWell'
  BY <1>1, <1>2 DEF Clean, AllWell
<1>5. WillSave'
  <2>1. ~opts.dryRun => queue # <<>>
    BY DEF PlanInv, SaveIsLast, Clean, WillSave
  <2> QED
    BY <1>2, <2>1 DEF Clean, WillSave, InputIds
<1>6. AllSeen'
  <2> SUFFICES ASSUME Waits, ~cut, NEW q \in Pointers, statuses'[q] = "applyOk"
               PROVE  IdOfPtr(q) \in reconciled' \/ Waited(IdOfPtr(q))'
    BY DEF AllSeen, Waits, WithStatus
  <2> DEFINE id == IdOfPtr(q)
  <2>1. ASSUME st = "applyOk" PROVE Waited(IdOfPtr(p))'
    <3>1. /\ 1 \in DOMAIN queue /\ queue[1].type = "wait" /\ p \in queue[1].objs
          /\ p \in Vertices(input)
      BY <2>1 DEF PlanInv, AppliesInput, WaitFollows
    <3>2. IdOfPtr(p) = IdOf(p) /\ statuses'[p] = "applyOk"
      BY <1>1, <2>1, <3>1 DEF IdOfPtr
    <3> QED
      BY <3>1, <3>2 DEF Waited
  <2>2. CASE q = p
    BY <1>1, <2>1, <2>2
  <2>3. CASE q # p
    <3>1. statuses[q] = "applyOk"
      BY <1>1, <2>3
    <3>2. id \in reconciled \/ Waited(id)
      BY <3>1 DEF Clean, AllSeen, WithStatus
    <3>3. Waited(id) => Waited(id)'
      <4>1. \A m \in Vertices(input) : statuses[m] = "applyOk" => statuses'[m] = "applyOk"
        BY <1>1, <1>3
      <4> QED
        BY <4>1 DEF Waited
    <3>4. CASE id \in reconciled
      BY <2>1, <3>4
    <3> QED
      BY <3>2, <3>3, <3>4
  <2> QED
    BY <2>2, <2>3
<1> QED
  BY <1>4, <1>5, <1>6 DEF Clean

\* The first task is yet to be taken.
LEMMA PrepareClean == TrackInv /\ Prepare => Clean'
<1> SUFFICES ASSUME TrackInv, Prepare PROVE Clean'
  OBVIOUS
<1> USE DEF serverVars, taskVars, ghostVars, waitVars
<1>1. /\ TypeOK /\ ~Cyclic(input) /\ pc' = "select" /\ queue' = BuildQueue
      /\ statuses' = [p \in Pointers |-> "none"] /\ starting' = stored \cap live
      /\ UNCHANGED <<live, input, opts>>
  BY DEF Prepare, TrackInv, TypeInv, FreshInv
<1>2. queue' # <<>>
  BY <1>1, BuildPlan
<1>3. TypeInv'
  BY TypeInvStep DEF TrackInv, Next, RunStep
<1>4. Pending' = Vertices(input) \cup ToPrune
  BY <1>3, PrepareInv
<1>5. Vertices(input) \subseteq Pointers
  BY <1>1 DEF TypeOK, Vertices, Pointers
<1>6. AllWell' /\ WillSave'
  BY <1>1, <1>2, <1>4, <1>5 DEF AllWell, WillSave, ToPrune, InputIds
<1>7. AllSeen'
  BY <1>1 DEF AllSeen, WithStatus
<1> QED
  BY <1>1, <1>6, <1>7 DEF Clean

\* A wait watches everything its task applied.
LEMMA TakesClean == TrackInv /\ PlanInv /\ Clean /\ RunnerTakes => Clean'
<1> SUFFICES ASSUME TrackInv, PlanInv, Clean, RunnerTakes PROVE Clean'
  OBVIOUS
<1> USE DEF serverVars, callVars, ghostVars
<1> DEFINE t == Head(queue)
           watched == {IdOfPtr(p) : p \in {x \in t.objs : Watchable(x)}}
<1>1. /\ TypeOK /\ pc = "select" /\ queue # <<>> /\ queue' = Tail(queue)
      /\ queue \in Seq(TaskType)
      /\ UNCHANGED <<live, input, opts, starting, statuses, reconciled, cut, book>>
  BY DEF RunnerTakes, TrackInv, TypeInv, TypeOK
<1>2. /\ Len(queue) \in Nat \ {0} /\ DOMAIN queue = 1..Len(queue) /\ t = queue[1]
      /\ DOMAIN queue' = 1..(Len(queue) - 1) /\ Len(queue') = Len(queue) - 1
      /\ \A i \in DOMAIN queue' : queue'[i] = queue[i + 1]
  BY <1>1
<1>3. IF t.type = "wait"
        THEN watch' = watched /\ pc' = AfterWatching(watched)
        ELSE pc' = t.type
  BY DEF RunnerTakes
<1>4. t.type \in {"apply", "wait", "prune", "inventory"} /\ pc' # "idle"
  <2>1. t \in TaskType
    BY <1>1
  <2> QED
    BY <1>3, <2>1 DEF TaskType, AfterWatching
<1>5. Pending' = Pending
  <2>1. TypeInv'
    BY TypeInvStep DEF TrackInv, Next, RunStep
  <2> QED
    BY <2>1, TakesInv
<1> HIDE DEF t, watched
<1>6. AllWell'
  BY <1>1, <1>5 DEF Clean, AllWell
<1>7. WillSave'
  <2>1. queue' # <<>> \/ pc' = "inventory"
    <3> SUFFICES ASSUME queue' = <<>> PROVE pc' = "inventory"
      OBVIOUS
    <3>1. Len(queue) = 1
      <4>1. Len(queue') = 0
        OBVIOUS
      <4>2. Len(queue) \in Nat /\ Len(queue') = Len(queue) - 1
        BY <1>2
      <4> QED
        BY <4>1, <4>2
    <3>2. t.type = "inventory"
      BY <1>1, <1>2, <3>1 DEF PlanInv, SaveIsLast
    <3> QED
      BY <1>3, <3>2
  <2> QED
    BY <1>1, <1>5, <2>1 DEF Clean, WillSave, InputIds
<1>8. AllSeen'
  <2> SUFFICES ASSUME Waits, ~cut, NEW id \in WithStatus({"applyOk"}), id \notin reconciled
               PROVE  Waited(id)'
    BY <1>1 DEF AllSeen, Waits, WithStatus
  <2>1. Waited(id)
    BY DEF Clean, AllSeen
  <2>2. PICK m \in Vertices(input) :
          /\ IdOf(m) = id /\ statuses[m] = "applyOk"
          /\ \E i \in DOMAIN queue : queue[i].type = "wait" /\ m \in queue[i].objs
    BY <1>1, <2>1 DEF Waited
  <2>3. PICK i \in DOMAIN queue : queue[i].type = "wait" /\ m \in queue[i].objs
    BY <2>2
  <2>4. CASE i = 1
    <3>1. m \in Manifests
      BY <1>1 DEF TypeOK, Vertices
    <3>2. id \in watched
      BY <1>2, <2>2, <2>3, <2>4, <3>1 DEF watched, Watchable, IdOfPtr
    <3> QED
      BY <1>2, <1>3, <2>3, <2>4, <3>2 DEF Waited, AfterWatching
  <2>5. CASE i # 1
    <3>1. i - 1 \in DOMAIN queue' /\ queue'[i - 1] = queue[i]
      BY <1>2, <2>5
    <3> QED
      BY <1>1, <2>2, <2>3, <3>1 DEF Waited
  <2> QED
    BY <2>4, <2>5
<1> QED
  BY <1>4, <1>6, <1>7, <1>8 DEF Clean

\* What the goroutine of Run does without an error.
LEMMA StepClean ==
  ASSUME TrackInv, PlanInv, Clean, pc # "idle",
         \/ RunnerReturns \/ RunnerTakes \/ TaskEnds \/ PatchSucceeds \/ WaitStep
         \/ \E m \in Manifests : (FilterStops(m) /\ statuses'[m] = "skipped") \/ ApplyStarts(m)
         \/ \E id \in Ids : PruneStarts(id)
         \/ DeleteSucceeds \/ DeleteNotFound \/ Save
  PROVE  Clean'
<1> USE DEF serverVars, callVars, taskVars, waitVars, ghostVars
<1>1. /\ TypeOK /\ statuses \in [Pointers -> Statuses] /\ todo \subseteq Pointers
      /\ live \subseteq Ids
      /\ pc # "idle" /\ pc # "load" => todo = {} \/ pc \in {"apply", "prune"}
  BY DEF TrackInv, TypeInv, TypeOK, TodoInv
<1>2. {"none", "applyOk", "skipped", "deleteOk"} \subseteq Statuses \ {"applyFailed", "deleteFailed"}
  BY DEF Statuses
<1>3. CASE RunnerReturns
  <2>1. /\ pc = "select" /\ pc' = "idle" /\ queue = <<>> /\ todo = {}
        /\ UNCHANGED <<live, input, opts, starting, queue, todo, statuses, book, reconciled, cut>>
    BY <1>1, <1>3 DEF RunnerReturns, End
  <2>2. \A id : ~Waited(id)
    BY <2>1 DEF Waited
  <2> QED
    BY <2>1, <2>2, QuietClean
<1>4. CASE RunnerTakes
  BY <1>4, TakesClean
<1>5. CASE TaskEnds
  <2>1. /\ pc \in {"apply", "prune"} /\ pc' = "select"
        /\ UNCHANGED <<live, input, opts, starting, queue, todo, statuses, book, reconciled, cut>>
    BY <1>5 DEF TaskEnds
  <2>2. \A id : Waited(id) => Waited(id)'
    BY <2>1 DEF Waited
  <2> QED
    BY <2>1, <2>2, QuietClean
<1>6. CASE PatchSucceeds
  <2>1. /\ pc = "apply" /\ pc' = "apply" /\ current \in todo
        /\ UNCHANGED <<input, opts, starting, queue, cut>>
        /\ Report(current, "applyOk") /\ Write(IdOfPtr(current))
        /\ reconciled' = reconciled \ {IdOfPtr(current)}
    BY <1>1, <1>6 DEF PatchSucceeds, TypeOK
  <2>2. current \in Vertices(input) /\ current \in Manifests
    BY <1>1, <2>1 DEF PlanInv, AppliesInput, TypeOK, Vertices
  <2>3. IdOfPtr(current) \in InputIds /\ current \notin live
    BY <1>1, <2>2, ApplierAssumption DEF InputIds, IdOfPtr
  <2>4. ~opts.dryRun => (starting \ InputIds) \cap live' \subseteq live \ {current}
    BY <2>1, <2>3 DEF Write
  <2> QED
    BY <1>2, <2>1, <2>4, HandledClean DEF Report
<1>7. CASE WaitStep
  <2>1. /\ pc = "wait" /\ pc' \in {"wait", "select"}
        /\ UNCHANGED <<live, input, opts, starting, queue, todo, statuses, book>>
        /\ reconciled \subseteq reconciled' /\ (cut => cut')
    BY <1>7 DEF WaitStep, PollerCloses, StatusCurrent, StatusFailed
  <2>2. ASSUME NEW x, Waited(x), ~cut' PROVE Waited(x)' \/ x \in reconciled'
    <3>1. CASE ~(pc = "wait" /\ x \in watch)
      BY <2>1, <2>2, <3>1 DEF Waited
    <3>2. ASSUME NEW id \in Ids, StatusCurrent(id), x \in watch
          PROVE  x \in reconciled' \/ (pc' = "wait" /\ x \in watch')
      BY <3>2 DEF StatusCurrent
    <3>3. ASSUME NEW id \in Ids, StatusFailed(id), x \in watch
          PROVE  pc' = "wait" /\ x \in watch'
      BY <3>3 DEF StatusFailed
    <3>4. ~PollerCloses
      BY <2>2 DEF PollerCloses
    <3> QED
      BY <1>7, <2>1, <2>2, <3>1, <3>2, <3>3, <3>4 DEF WaitStep, Waited
  <2> QED
    BY <2>1, <2>2, QuietClean
<1>8. ASSUME NEW m \in Manifests, FilterStops(m), statuses'[m] = "skipped" PROVE Clean'
  <2>1. /\ pc = "apply" /\ pc' = "apply" /\ m \in todo
        /\ UNCHANGED <<live, input, opts, starting, queue, cut, reconciled>>
        /\ Report(m, "applyFailed") \/ Report(m, "skipped")
    BY <1>8 DEF FilterStops, NextToApply
  <2>2. Report(m, "skipped")
    BY <1>1, <1>8, <2>1 DEF Report
  <2>3. m \notin live
    BY <1>1, ApplierAssumption
  <2> QED
    BY <1>2, <2>1, <2>2, <2>3, HandledClean DEF Report
<1>9. CASE \/ \E m \in Manifests : ApplyStarts(m)
           \/ \E id \in Ids : PruneStarts(id)
  <2>1. /\ pc' = pc
        /\ UNCHANGED <<live, input, opts, starting, queue, todo, statuses, book, reconciled,
                       cut, watch>>
    BY <1>9 DEF ApplyStarts, PruneStarts
  <2>2. \A id : Waited(id) => Waited(id)'
    BY <2>1 DEF Waited
  <2> QED
    BY <2>1, <2>2, QuietClean
<1>10. CASE DeleteSucceeds \/ DeleteNotFound
  <2>1. /\ pc = "prune" /\ pc' = "prune" /\ current \in todo
        /\ todo' = todo \ {current}
        /\ UNCHANGED <<input, opts, starting, queue, cut, reconciled>>
    BY <1>1, <1>10, ApplierAssumption DEF DeleteSucceeds, DeleteNotFound, Report, TypeOK
  <2>2. current \in Ids /\ current \notin Vertices(input) /\ statuses[current] = "none"
    BY <1>1, <2>1, ApplierAssumption
    DEF TrackInv, TasksInv, TypeOK, Vertices, FreshInv, Pending
  <2>3. \E x \in {"none", "deleteOk"} : statuses' = [statuses EXCEPT ![current] = x]
    <3>1. CASE DeleteSucceeds
      BY <3>1 DEF DeleteSucceeds, Report
    <3>2. CASE DeleteNotFound
      <4>1. statuses' = statuses
        BY <3>2 DEF DeleteNotFound
      <4> QED
        BY <1>1, <2>2, <4>1
    <3> QED
      BY <1>10, <3>1, <3>2
  <2>4. ~opts.dryRun => live' \subseteq live \ {current}
    <3>1. CASE DeleteSucceeds
      BY <3>1 DEF DeleteSucceeds, Erase, Gone
    <3>2. CASE DeleteNotFound
      BY <3>2 DEF DeleteNotFound
    <3> QED
      BY <1>10, <3>1, <3>2
  <2> QED
    BY <1>2, <2>1, <2>2, <2>3, <2>4, HandledClean
<1>11. CASE Save
  <2>1. /\ pc = "inventory" /\ pc' = "select"
        /\ UNCHANGED <<live, input, opts, starting, queue, todo, statuses, reconciled, cut>>
        /\ IF opts.dryRun THEN UNCHANGED book ELSE book' = "saved"
    BY <1>11 DEF Save
  <2>2. \A id : Waited(id) => Waited(id)'
    BY <2>1 DEF Waited
  <2>3. CASE opts.dryRun
    BY <2>1, <2>2, <2>3, QuietClean
  <2>4. CASE ~opts.dryRun
    <3>1. Pending' = Pending
      BY <2>1 DEF Pending, Work
    <3>2. AllWell' /\ WillSave'
      BY <2>1, <2>4, <3>1 DEF Clean, AllWell, WillSave, InputIds
    <3>3. AllSeen'
      BY <2>1, <2>2 DEF Clean, AllSeen, Waits, WithStatus
    <3> QED
      BY <2>1, <3>2, <3>3 DEF Clean
  <2> QED
    BY <2>3, <2>4
<1> QED
  BY <1>3, <1>4, <1>5, <1>6, <1>7, <1>8, <1>9, <1>10, <1>11

\* The steps of the run, of its caller and of what is around them are steps of
\* module Applier.
LEMMA EventsAreSteps == [EventsNext]_allVars => [Next]_vars
<1> SUFFICES ASSUME [EventsNext]_allVars PROVE [Next]_vars
  OBVIOUS
<1>1. CASE Runs
  <2>1. StepWithError \/ SilentStep \/ TakeStep \/ ApplyEvents \/ PruneEvents
          \/ InventoryEvents \/ StatusEvents \/ WaitIsCut
    BY <1>1 DEF Runs
  <2> QED
    BY <2>1 DEF Next, RunStep, StepWithError, SilentStep, TakeStep, ApplyEvents, ApplyStep,
       PruneEvents, PruneStep, InventoryEvents, StatusEvents, WaitIsCut, WaitStep
<1>2. CASE Calls \/ ProcessDies \/ Around
  BY <1>2 DEF Calls, ProcessDies, Around, Next, Environment
<1>3. CASE Receives \/ Leaves \/ UNCHANGED allVars
  BY <1>3 DEF Receives, Leaves, allVars
<1> QED
  BY <1>1, <1>2, <1>3 DEF EventsNext

LEMMA CutInvStep == TrackInv /\ PlanInv /\ CutInv /\ [EventsNext]_allVars => CutInv'
<1> SUFFICES ASSUME TrackInv, PlanInv, CutInv, [EventsNext]_allVars PROVE CutInv'
  OBVIOUS
<1> USE DEF serverVars, callVars, taskVars, waitVars, ghostVars
<1>1. CASE Calls
  BY <1>1 DEF Calls, Start, CutInv
<1>2. CASE WaitIsCut
  <2>1. faults \in Nat
    BY DEF TrackInv, TypeInv, TypeOK
  <2>2. book # "saved" /\ UNCHANGED <<book, ctxDone>>
    BY <1>2 DEF WaitIsCut, PollerCloses, PlanInv, SaveIsLast
  <2>3. ctxDone \/ deaf'
    <3>1. ctxDone \/ faults' = faults + 1
      BY <1>2 DEF WaitIsCut, PollerCloses, Fault
    <3>2. CASE faults' = faults + 1
      <4>1. faults' # faults
        BY <2>1, <3>2
      <4> QED
        BY <1>2, <4>1 DEF WaitIsCut
    <3> QED
      BY <3>1, <3>2
  <2> QED
    BY <2>2, <2>3 DEF CutInv
<1>3. ASSUME UNCHANGED deaf, InventoryEvents PROVE CutInv'
  BY <1>3 DEF InventoryEvents, Save, SaveFails, CutInv
<1>4. ASSUME UNCHANGED <<cut, deaf>>, ctxDone => ctxDone', book' = book \/ book' = "dirty"
      PROVE  CutInv'
  BY <1>4 DEF CutInv
<1>5. CASE Receives \/ Leaves \/ UNCHANGED allVars
  BY <1>4, <1>5 DEF Receives, Leaves, allVars, eventVars, vars
<1>6. CASE ProcessDies \/ Around
  BY <1>4, <1>6 DEF ProcessDies, Around, Crash, End, Timeout, Cancel, ContextDone, Reconcile,
     ExternalDelete, eventVars
<1>7. ASSUME UNCHANGED deaf,
             StepWithError \/ SilentStep \/ TakeStep \/ ApplyEvents \/ PruneEvents \/ StatusEvents
      PROVE  CutInv'
  <2>1. CASE StepWithError \/ SilentStep \/ TakeStep
    BY <1>4, <1>7, <2>1 DEF StepWithError, SilentStep, TakeStep, LoadFails, LoadNoMatch,
       GraphRejected, RunnerStops, RunnerReturns, End, Prepare, RunnerTakes, TaskEnds,
       DeleteNotFound
  <2>2. CASE ApplyEvents
    BY <1>4, <1>7, <2>2 DEF ApplyEvents, ApplyStarts, FilterStops, PatchSucceeds, PatchFails,
       PatchLost, PatchUnsupported, Write
  <2>3. CASE PruneEvents \/ StatusEvents
    BY <1>4, <1>7, <2>3 DEF PruneEvents, PruneStarts, DeleteSucceeds, DeleteFails, DeleteLost,
       StatusEvents, StatusCurrent, StatusFailed
  <2> QED
    BY <1>7, <2>1, <2>2, <2>3
<1> QED
  BY <1>1, <1>2, <1>3, <1>5, <1>6, <1>7 DEF EventsNext, Runs

LEMMA CleanInvStep == TrackInv /\ PlanInv /\ CleanInv /\ [EventsNext]_allVars => CleanInv'
<1> SUFFICES ASSUME TrackInv, PlanInv, CleanInv, [EventsNext]_allVars, Active', ~Heard'
             PROVE  Clean'
  BY CutInvStep DEF CleanInv
<1> USE DEF serverVars, callVars, taskVars, waitVars, ghostVars
<1>1. CASE Calls \/ ProcessDies
  BY <1>1 DEF Calls, ProcessDies, Start, Crash, End, Active
<1>2. CASE Receives \/ Leaves \/ Around \/ UNCHANGED allVars
  <2>1. /\ UNCHANGED <<input, opts, starting, queue, todo, statuses, book, reconciled, cut,
                       watch, pc, runs, outcome>>
        /\ live' \subseteq live
    BY <1>2 DEF Receives, Leaves, Around, allVars, vars, Timeout, Cancel, ContextDone,
       Reconcile, ExternalDelete, Erase
  <2>2. Heard => Heard'
    BY <1>2 DEF Receives, Leaves, Around, allVars, eventVars, Heard
  <2>3. Clean
    BY <2>1, <2>2 DEF CleanInv, Active
  <2>4. \A id : Waited(id) => Waited(id)'
    BY <2>1 DEF Waited
  <2> QED
    BY <2>1, <2>3, <2>4, QuietClean
<1>3. CASE Runs
  <2>1. ~Heard /\ ~IsErrorEvent(event')
    BY <1>3 DEF Runs, Heard, NoEvent, IsErrorEvent
  <2>2. event'.type # "error" /\ event'.status # "failed"
    BY <2>1 DEF IsErrorEvent
  <2>3. ~StepWithError
    BY <2>2 DEF StepWithError, Sends, Event
  <2>4. CASE Prepare
    BY <2>4, PrepareClean
  <2>5. \/ Prepare
        \/ RunnerReturns \/ RunnerTakes \/ TaskEnds \/ PatchSucceeds \/ WaitStep
        \/ \E m \in Manifests : (FilterStops(m) /\ statuses'[m] = "skipped") \/ ApplyStarts(m)
        \/ \E id \in Ids : PruneStarts(id)
        \/ DeleteSucceeds \/ DeleteNotFound \/ Save
    <3>1. CASE ApplyEvents
      BY <2>2, <3>1 DEF ApplyEvents, Sends, Event
    <3>2. CASE PruneEvents \/ InventoryEvents
      BY <2>2, <3>2 DEF PruneEvents, InventoryEvents, Sends, Event
    <3>3. CASE SilentStep \/ TakeStep
      BY <3>3 DEF SilentStep, TakeStep
    <3>4. CASE StatusEvents \/ WaitIsCut
      BY <3>4 DEF StatusEvents, WaitIsCut, WaitStep
    <3> QED
      BY <1>3, <2>3, <3>1, <3>2, <3>3, <3>4 DEF Runs
  <2>6. CASE ~Prepare
    <3>1. pc \notin {"idle", "load"}
      BY <2>5, <2>6 DEF RunnerReturns, RunnerTakes, TaskEnds, PatchSucceeds, WaitStep,
         PollerCloses, StatusCurrent, StatusFailed, FilterStops, ApplyStarts, PruneStarts,
         DeleteSucceeds, DeleteNotFound, Save
    <3>2. Clean
      BY <2>1, <3>1 DEF CleanInv, Active
    <3> QED
      BY <2>5, <2>6, <3>1, <3>2, StepClean
  <2> QED
    BY <2>4, <2>6
<1> QED
  BY <1>1, <1>2, <1>3 DEF EventsNext

\* A caller that received every event and saw no error has it all: the input is
\* applied or was kept out by its filters, what left the input is deleted, the
\* inventory is saved, and what was applied has been seen Current if the run
\* waits and no informer failed (applier.go:57-141, event.go:180-213).
THEOREM SilenceIsSuccess == EventsSpec => []SilenceMeansDone
<1>1. EventsInit => TrackInv /\ PlanInv /\ CleanInv
  <2>1. Init => ~Active /\ ~cut
    BY DEF Init, Active
  <2> QED
    BY <2>1, InitInv, PlanInvInit DEF EventsInit, CleanInv, CutInv
<1>2. TrackInv /\ PlanInv /\ CleanInv /\ [EventsNext]_allVars => (TrackInv /\ PlanInv /\ CleanInv)'
  BY EventsAreSteps, TrackInvStep, PlanInvStep, CleanInvStep
<1>3. TrackInv /\ PlanInv /\ CleanInv => SilenceMeansDone
  <2> SUFFICES ASSUME TrackInv, PlanInv, CleanInv, Over, outcome # "crashed", runs > 0, ~told
               PROVE  /\ \A m \in Vertices(input) : statuses[m] \in {"applyOk", "skipped"}
                      /\ ~opts.dryRun =>
                           /\ (starting \ InputIds) \cap live = {}
                           /\ book = "saved"
                           /\ stored = WithStatus({"applyOk"})
                                         \cup (WithStatus({"skipped"}) \cap starting)
                      /\ Waits /\ ~deaf => WithStatus({"applyOk"}) \subseteq reconciled
    BY DEF SilenceMeansDone
  <2>1. pc = "idle" /\ Active /\ ~Heard
    BY DEF Over, Active, Heard, IsErrorEvent, NoEvent
  <2>2. Clean /\ queue = <<>> /\ todo = {}
    BY <2>1 DEF CleanInv, Clean
  <2>3. Pending = {} /\ \A id : ~Waited(id)
    BY <2>1, <2>2 DEF Pending, Work, Waited
  <2>4. \A m \in Vertices(input) : statuses[m] \in {"applyOk", "skipped"}
    BY <2>2, <2>3 DEF Clean, AllWell
  <2>5. ASSUME ~opts.dryRun
        PROVE  /\ (starting \ InputIds) \cap live = {} /\ book = "saved"
               /\ stored = WithStatus({"applyOk"}) \cup (WithStatus({"skipped"}) \cap starting)
    <3>1. (starting \ InputIds) \cap live = {} /\ book = "saved"
      BY <2>1, <2>2, <2>3, <2>5 DEF Clean, WillSave
    <3>2. /\ WithStatus({"applyOk", "deleteFailed"}) = WithStatus({"applyOk"})
          /\ WithStatus({"applyFailed", "skipped"}) = WithStatus({"skipped"})
      BY <2>2 DEF Clean, AllWell, WithStatus
    <3> QED
      BY <3>1, <3>2 DEF PlanInv, SaveIsLast, NewInventory
  <2>6. ASSUME Waits, ~deaf PROVE WithStatus({"applyOk"}) \subseteq reconciled
    <3>1. ~cut
      BY <2>5, <2>6 DEF Waits, CleanInv, CutInv
    <3> QED
      BY <2>2, <2>3, <2>6, <3>1 DEF Clean, AllSeen
  <2> QED
    BY <2>4, <2>5, <2>6
<1> QED
  BY <1>1, <1>2, <1>3, PTL DEF EventsSpec
=============================================================================
