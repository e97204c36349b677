----------------------- MODULE SharedInventoryProofs ------------------------
(***************************************************************************)
(* What a save of one of several overlapping runs may forget, for any      *)
(* number of processes and objects.                                        *)
(***************************************************************************)
EXTENDS SharedInventory, TLAPS

\* Nothing is known or reported before a run has loaded the inventory.
Blank(r) ==
  /\ pc[r] = "idle" => starting[r] = {}
  /\ \A id \in Ids :
       /\ pc[r] = "idle" => cache[r][id] = "unknown"
       /\ pc[r] \in {"idle", "get"} => statuses[r][id] = "none"

\* The load has an answer for all it loaded, and those found are tracked.  What
\* a filter keeps out was found.
Answered(r) ==
  \A id \in Ids :
    /\ pc[r] \in {"apply", "prune", "save"} /\ id \in loaded[r] =>
         /\ cache[r][id] # "unknown"
         /\ cache[r][id] = "found" => id \in starting[r]
    /\ statuses[r][id] = "skipped" => cache[r][id] = "found"

\* An object has no status before its turn to be applied.
Turns(r) ==
  \A id \in Ids : pc[r] = "apply" /\ id \in todo[r] => statuses[r][id] = "none"

\* What the inventory has and a run did not load was saved by another one.
Newer(r) == pc[r] # "idle" => stored \ loaded[r] \subseteq since[r]

\* As far as the statuses go, the save will keep it.
Kept(r, id) ==
  \/ statuses[r][id] \in {"applyOk", "deleteFailed"}
  \/ id \in starting[r] /\ statuses[r][id] \in {"applyFailed", "skipped"}

\* What is no surprise to a run: no other run wrote it, nor this one without
\* hearing of it, and its apply task has not left it.
Expected(r) == (loaded[r] \cap live) \ (since[r] \cup missed[r])

\* A tracked object that exists and is no surprise will be kept, or its turn is
\* yet to come.
Keeps(r) ==
  \A id \in Expected(r) :
    /\ pc[r] = "get" => cache[r][id] # "notFound"
    /\ pc[r] = "apply" =>
         Kept(r, id) \/ (id \in starting[r] /\ (id \in todo[r] \/ id \notin input[r]))
    /\ pc[r] = "prune" => Kept(r, id) \/ id \in todo[r]
    /\ pc[r] = "save" => Kept(r, id)

RunInv(r) == Blank(r) /\ Answered(r) /\ Turns(r) /\ Newer(r) /\ Keeps(r)

IInv == TypeOK /\ \A r \in Runners : RunInv(r)

-----------------------------------------------------------------------------
(* What a step of one run does to itself and to the other ones.             *)

Statuses == {"none", "applyOk", "applyFailed", "skipped", "deleteOk", "deleteFailed"}
Answers == {"unknown", "found", "notFound"}

\* The step is not one of q ...
SameRun(q) ==
  /\ pc'[q] = pc[q] /\ input'[q] = input[q] /\ loaded'[q] = loaded[q]
  /\ cache'[q] = cache[q] /\ starting'[q] = starting[q] /\ todo'[q] = todo[q]
  /\ statuses'[q] = statuses[q] /\ missed'[q] = missed[q]

\* ... and what it adds to the cluster or the inventory is news to it.
Informed(q) ==
  pc[q] # "idle" =>
    /\ live' \ since'[q] \subseteq live \ since[q]
    /\ stored' \ since'[q] \subseteq stored \ since[q]

\* So q finds its invariant as it left it.
LEMMA OthersKeepInv ==
  ASSUME NEW q \in Runners, TypeOK, RunInv(q), SameRun(q), Informed(q)
  PROVE  RunInv(q)'
<1>1. Blank(q)' /\ Answered(q)' /\ Turns(q)'
  BY DEF RunInv, Blank, Answered, Turns, SameRun
<1>2. Newer(q)'
  BY DEF RunInv, Newer, SameRun, Informed
<1>3. Keeps(q)'
  <2>1. CASE pc[q] = "idle"
    BY <2>1 DEF Keeps, SameRun
  <2>2. CASE pc[q] # "idle"
    BY <2>2 DEF RunInv, Keeps, Expected, Kept, SameRun, Informed
  <2> QED
    BY <2>1, <2>2
<1> QED
  BY <1>1, <1>2, <1>3 DEF RunInv

\* A report changes the status and the task of its run at its object.
LEMMA ReportFacts ==
  ASSUME TypeOK, NEW r \in Runners, NEW id \in Ids, NEW status \in Statuses,
         Report(r, id, status)
  PROVE  /\ todo' \in [Runners -> SUBSET Ids]
         /\ statuses' \in [Runners -> [Ids -> Statuses]]
         /\ todo'[r] = todo[r] \ {id}
         /\ statuses'[r][id] = status
         /\ \A x \in Ids \ {id} : statuses'[r][x] = statuses[r][x]
         /\ \A q \in Runners \ {r} : todo'[q] = todo[q] /\ statuses'[q] = statuses[q]
<1>1. statuses \in [Runners -> [Ids -> Statuses]] /\ todo \in [Runners -> SUBSET Ids]
  BY DEF TypeOK, Statuses
<1>2. [statuses[r] EXCEPT ![id] = status] \in [Ids -> Statuses]
  BY <1>1
<1>3. statuses' = [statuses EXCEPT ![r] = [statuses[r] EXCEPT ![id] = status]]
  BY DEF Report
<1>4. todo' = [todo EXCEPT ![r] = todo[r] \ {id}]
  BY DEF Report
<1> QED
  BY <1>1, <1>2, <1>3, <1>4

\* An answer changes the cache of its run at its object.
LEMMA GetsFacts ==
  ASSUME TypeOK, NEW r \in Runners, NEW id \in Ids, Gets(r, id)
  PROVE  /\ cache' \in [Runners -> [Ids -> Answers]]
         /\ cache'[r][id] = Answer(r, id)
         /\ \A x \in Ids \ {id} : cache'[r][x] = cache[r][x]
         /\ \A q \in Runners \ {r} : cache'[q] = cache[q]
<1>1. cache \in [Runners -> [Ids -> Answers]]
  BY DEF TypeOK, Answers
<1>2. Answer(r, id) \in Answers
  BY <1>1 DEF Answer, Answers
<1>3. [cache[r] EXCEPT ![id] = Answer(r, id)] \in [Ids -> Answers]
  BY <1>1, <1>2
<1>4. cache' = [cache EXCEPT ![r] = [cache[r] EXCEPT ![id] = Answer(r, id)]]
  BY DEF Gets
<1> QED
  BY <1>1, <1>2, <1>3, <1>4

\* A run that is over is blank, and the other ones are as they were.
LEMMA ForgetFacts ==
  ASSUME TypeOK, NEW r \in Runners, Forget(r), UNCHANGED missed
  PROVE  /\ pc' \in [Runners -> {"idle", "get", "apply", "prune", "save"}]
         /\ input' \in [Runners -> SUBSET Ids] /\ loaded' \in [Runners -> SUBSET Ids]
         /\ starting' \in [Runners -> SUBSET Ids] /\ todo' \in [Runners -> SUBSET Ids]
         /\ cache' \in [Runners -> [Ids -> Answers]]
         /\ statuses' \in [Runners -> [Ids -> Statuses]]
         /\ \A q \in Runners : starting'[q] \subseteq loaded'[q]
         /\ pc'[r] = "idle" /\ loaded'[r] = {} /\ starting'[r] = {}
         /\ \A x \in Ids : cache'[r][x] = "unknown" /\ statuses'[r][x] = "none"
         /\ \A q \in Runners \ {r} : SameRun(q)
<1> DEFINE NoAnswers == [x \in Ids |-> "unknown"]
           NoStatuses == [x \in Ids |-> "none"]
<1>1. NoAnswers \in [Ids -> Answers] /\ NoStatuses \in [Ids -> Statuses]
  BY DEF Answers, Statuses
<1>2. cache \in [Runners -> [Ids -> Answers]] /\ statuses \in [Runners -> [Ids -> Statuses]]
  BY DEF TypeOK, Answers, Statuses
<1>3. cache' = [cache EXCEPT ![r] = NoAnswers] /\ statuses' = [statuses EXCEPT ![r] = NoStatuses]
  BY DEF Forget
<1>4. \A x \in Ids : NoAnswers[x] = "unknown" /\ NoStatuses[x] = "none"
  OBVIOUS
<1> HIDE DEF NoAnswers, NoStatuses
<1>5. /\ cache' \in [Runners -> [Ids -> Answers]] /\ statuses' \in [Runners -> [Ids -> Statuses]]
      /\ cache'[r] = NoAnswers /\ statuses'[r] = NoStatuses
      /\ \A q \in Runners \ {r} : cache'[q] = cache[q] /\ statuses'[q] = statuses[q]
  BY <1>1, <1>2, <1>3
<1>6. /\ pc' \in [Runners -> {"idle", "get", "apply", "prune", "save"}]
      /\ input' \in [Runners -> SUBSET Ids] /\ loaded' \in [Runners -> SUBSET Ids]
      /\ starting' \in [Runners -> SUBSET Ids] /\ todo' \in [Runners -> SUBSET Ids]
      /\ \A q \in Runners : starting'[q] \subseteq loaded'[q]
      /\ pc'[r] = "idle" /\ loaded'[r] = {} /\ starting'[r] = {}
      /\ \A q \in Runners \ {r} :
           /\ pc'[q] = pc[q] /\ input'[q] = input[q] /\ loaded'[q] = loaded[q]
           /\ starting'[q] = starting[q] /\ todo'[q] = todo[q]
  BY DEF Forget, TypeOK
<1> QED
  BY <1>4, <1>5, <1>6 DEF SameRun

-----------------------------------------------------------------------------
(* The steps.                                                               *)

\* What is shown of a step of r.
Goal(r) ==
  /\ TypeOK'
  /\ RunInv(r)'
  /\ \A q \in Runners \ {r} : SameRun(q) /\ Informed(q)

LEMMA InitInv == Init => IInv
BY SharedInventoryAssumption
   DEF Init, IInv, TypeOK, RunInv, Blank, Answered, Turns, Newer, Keeps, Expected

LEMMA LoadStep ==
  ASSUME IInv, NEW r \in Runners, Load(r) PROVE Goal(r)
<1>1. TypeOK'
  <2>1. PICK I \in SUBSET Ids : input' = [input EXCEPT ![r] = I]
    BY SharedInventoryAssumption DEF Load
  <2>2. \A q \in Runners : starting'[q] \subseteq loaded'[q]
    BY DEF Load, IInv, TypeOK, RunInv, Blank
  <2> QED
    BY <2>1, <2>2 DEF Load, IInv, TypeOK
<1>2. \A q \in Runners \ {r} : SameRun(q) /\ Informed(q)
  BY DEF Load, IInv, TypeOK, SameRun, Informed
<1>3. pc[r] = "idle" /\ pc'[r] = "get" /\ loaded'[r] = stored' /\ stored' = stored
  BY DEF Load, IInv, TypeOK
<1>4. \A id \in Ids : cache'[r][id] = "unknown" /\ statuses'[r][id] = "none"
  BY <1>3 DEF Load, IInv, RunInv, Blank
<1>5. RunInv(r)'
  BY <1>1, <1>3, <1>4 DEF RunInv, Blank, Answered, Turns, Newer, Keeps, Expected, TypeOK
<1> QED
  BY <1>1, <1>2, <1>5 DEF Goal

LEMMA LoadObjectStep ==
  ASSUME IInv, NEW r \in Runners, NEW id \in Ids, LoadObject(r, id) PROVE Goal(r)
<1> USE DEF LoadObject, IInv
<1>1. /\ cache'[r][id] = Answer(r, id)
      /\ \A x \in Ids \ {id} : cache'[r][x] = cache[r][x]
      /\ \A q \in Runners \ {r} : cache'[q] = cache[q]
      /\ cache' \in [Runners -> [Ids -> Answers]]
  BY GetsFacts
<1>2. TypeOK'
  BY <1>1 DEF TypeOK, Answers
<1>3. \A q \in Runners \ {r} : SameRun(q) /\ Informed(q)
  BY <1>1 DEF SameRun, Informed
<1>4. Blank(r)' /\ Answered(r)' /\ Turns(r)' /\ Newer(r)'
  BY <1>1 DEF RunInv, Blank, Answered, Turns, Newer, TypeOK
<1>5. Keeps(r)'
  <2>1. pc'[r] = "get" /\ pc[r] = "get"
    OBVIOUS
  <2>2. id \in live => cache'[r][id] = "found"
    BY <1>1 DEF Answer
  <2>3. ASSUME NEW x \in Expected(r) PROVE cache'[r][x] # "notFound"
    <3>1. CASE x = id
      BY <2>2, <3>1 DEF Expected
    <3>2. CASE x # id
      BY <1>1, <2>1, <3>2 DEF RunInv, Keeps, Expected, TypeOK
    <3> QED
      BY <3>1, <3>2
  <2> QED
    BY <2>1, <2>3 DEF Keeps, Expected
<1> QED
  BY <1>2, <1>3, <1>4, <1>5 DEF Goal, RunInv

LEMMA LoadedStep ==
  ASSUME IInv, NEW r \in Runners, Loaded(r) PROVE Goal(r)
<1> USE DEF Loaded, IInv
<1>1. Found(r) \in SUBSET Ids /\ Found(r) \subseteq loaded[r]
  BY DEF Found, TypeOK
<1>2. /\ starting' \in [Runners -> SUBSET Ids] /\ starting'[r] = Found(r)
      /\ \A q \in Runners \ {r} : starting'[q] = starting[q]
  BY <1>1 DEF TypeOK
<1>3. TypeOK'
  BY <1>1, <1>2 DEF TypeOK
<1>4. \A q \in Runners \ {r} : SameRun(q) /\ Informed(q)
  BY <1>2 DEF SameRun, Informed, TypeOK
<1>5. pc'[r] = "apply" /\ todo'[r] = input[r]
  BY DEF TypeOK
<1>6. Blank(r)' /\ Answered(r)' /\ Turns(r)' /\ Newer(r)'
  BY <1>2, <1>5 DEF RunInv, Blank, Answered, Turns, Newer, Found, TypeOK
<1>7. Keeps(r)'
  BY <1>2, <1>5 DEF RunInv, Keeps, Expected, Found, TypeOK
<1> QED
  BY <1>3, <1>4, <1>6, <1>7 DEF Goal, RunInv

LEMMA TaskEndsStep ==
  ASSUME IInv, NEW r \in Runners, TaskEnds(r) PROVE Goal(r)
<1> USE DEF TaskEnds, IInv
<1>1. TypeOK'
  <2>1. starting[r] \ input[r] \in SUBSET Ids
    BY DEF TypeOK
  <2>2. todo' \in [Runners -> SUBSET Ids]
    BY <2>1 DEF TypeOK
  <2>3. pc' \in [Runners -> {"idle", "get", "apply", "prune", "save"}]
    BY DEF TypeOK
  <2> QED
    BY <2>2, <2>3 DEF TypeOK
<1>2. \A q \in Runners \ {r} : SameRun(q) /\ Informed(q)
  BY DEF SameRun, Informed, TypeOK
<1>3. todo[r] = {}
  OBVIOUS
<1>4. \/ pc[r] = "apply" /\ pc'[r] = "prune" /\ todo'[r] = starting[r] \ input[r]
      \/ pc[r] = "prune" /\ pc'[r] = "save" /\ todo'[r] = todo[r]
  BY DEF TypeOK
<1>5. Blank(r)' /\ Answered(r)' /\ Turns(r)' /\ Newer(r)'
  <2>1. Blank(r)' /\ Turns(r)' /\ Newer(r)'
    BY <1>4 DEF RunInv, Blank, Turns, Newer
  <2>2. Answered(r)'
    BY <1>4 DEF RunInv, Answered
  <2> QED
    BY <2>1, <2>2
<1>6. Keeps(r)'
  BY <1>3, <1>4 DEF RunInv, Keeps, Expected, Kept, TypeOK
<1> QED
  BY <1>1, <1>2, <1>5, <1>6 DEF Goal, RunInv

LEMMA FilterKeepsOutStep ==
  ASSUME IInv, NEW r \in Runners, NEW id \in Ids, FilterKeepsOut(r, id) PROVE Goal(r)
<1> USE DEF FilterKeepsOut, NextToApply, IInv
<1>1. Report(r, id, "skipped") /\ "skipped" \in Statuses
  BY DEF Statuses
<1>2. /\ todo'[r] = todo[r] \ {id} /\ statuses'[r][id] = "skipped"
      /\ \A x \in Ids \ {id} : statuses'[r][x] = statuses[r][x]
      /\ \A q \in Runners \ {r} : todo'[q] = todo[q] /\ statuses'[q] = statuses[q]
      /\ todo' \in [Runners -> SUBSET Ids] /\ statuses' \in [Runners -> [Ids -> Statuses]]
  BY <1>1, ReportFacts
<1>3. /\ cache'[r][id] = "found"
      /\ \A x \in Ids \ {id} : cache'[r][x] = cache[r][x]
      /\ \A q \in Runners \ {r} : cache'[q] = cache[q]
      /\ cache' \in [Runners -> [Ids -> Answers]]
  BY GetsFacts
<1>4. TypeOK'
  BY <1>1, <1>2, <1>3 DEF TypeOK, Report, Answers, Statuses
<1>5. \A q \in Runners \ {r} : SameRun(q) /\ Informed(q)
  BY <1>1, <1>2, <1>3 DEF SameRun, Informed, Report
<1>6. cache[r][id] \in {"unknown", "found"}
  BY DEF Answer, TypeOK
<1>7. Blank(r)' /\ Answered(r)' /\ Turns(r)' /\ Newer(r)'
  BY <1>1, <1>2, <1>3, <1>6 DEF RunInv, Blank, Answered, Turns, Newer, Report, TypeOK
<1>8. Keeps(r)'
  <2>1. pc'[r] = "apply"
    BY <1>1 DEF Report
  <2>2. ASSUME NEW x \in Expected(r)
        PROVE  Kept(r, x)' \/ (x \in starting[r] /\ (x \in todo'[r] \/ x \notin input[r]))
    <3>1. CASE x = id
      BY <1>1, <1>2, <1>3, <1>6, <3>1 DEF RunInv, Answered, Expected, Kept, Report
    <3>2. CASE x # id
      BY <1>1, <1>2, <3>2 DEF RunInv, Keeps, Expected, Kept, Report, TypeOK
    <3> QED
      BY <3>1, <3>2
  <2> QED
    BY <1>1, <2>1, <2>2 DEF Keeps, Expected, Report
<1> QED
  BY <1>4, <1>5, <1>7, <1>8 DEF Goal, RunInv

\* The filter of an object that is applied, or that fails, leaves it unknown,
\* or not found.
LEMMA FilterFacts ==
  ASSUME TypeOK, NEW r \in Runners, NEW id \in Ids, FilterPasses(r, id) \/ FilterErrs(r, id)
  PROVE  /\ cache' \in [Runners -> [Ids -> Answers]]
         /\ cache'[r][id] = cache[r][id] \/ cache[r][id] \in {"unknown", "notFound"}
         /\ cache[r][id] # "unknown" => cache'[r][id] = cache[r][id]
         /\ \A x \in Ids \ {id} : cache'[r][x] = cache[r][x]
         /\ \A q \in Runners \ {r} : cache'[q] = cache[q]
<1>1. CASE UNCHANGED cache
  BY <1>1 DEF TypeOK, Answers
<1>2. CASE Gets(r, id)
  BY <1>2, GetsFacts DEF Answer, TypeOK, FilterPasses
<1> QED
  BY <1>1, <1>2 DEF FilterPasses, FilterErrs

LEMMA ApplyStep ==
  ASSUME IInv, NEW r \in Runners, NEW id \in Ids, Apply(r, id) PROVE Goal(r)
<1> USE DEF Apply, NextToApply, IInv
<1>1. Report(r, id, "applyOk") /\ "applyOk" \in Statuses
  BY DEF Statuses
<1>2. /\ todo'[r] = todo[r] \ {id} /\ statuses'[r][id] = "applyOk"
      /\ \A x \in Ids \ {id} : statuses'[r][x] = statuses[r][x]
      /\ \A q \in Runners \ {r} : todo'[q] = todo[q] /\ statuses'[q] = statuses[q]
      /\ todo' \in [Runners -> SUBSET Ids] /\ statuses' \in [Runners -> [Ids -> Statuses]]
  BY <1>1, ReportFacts
<1>3. /\ cache[r][id] # "unknown" => cache'[r][id] = cache[r][id]
      /\ \A x \in Ids \ {id} : cache'[r][x] = cache[r][x]
      /\ \A q \in Runners \ {r} : cache'[q] = cache[q]
      /\ cache' \in [Runners -> [Ids -> Answers]]
  BY FilterFacts
<1>4. /\ since' \in [Runners -> SUBSET Ids] /\ since'[r] = since[r]
      /\ \A q \in Runners \ {r} : pc[q] # "idle" => since'[q] = since[q] \cup {id}
  BY DEF News, Active, TypeOK
<1>5. TypeOK'
  BY <1>1, <1>2, <1>3, <1>4 DEF TypeOK, Report, Answers, Statuses
<1>6. \A q \in Runners \ {r} : SameRun(q) /\ Informed(q)
  BY <1>1, <1>2, <1>3, <1>4 DEF SameRun, Informed, Report
<1>7. Blank(r)' /\ Answered(r)' /\ Turns(r)' /\ Newer(r)'
  <2>1. Blank(r)' /\ Newer(r)'
    BY <1>1, <1>4 DEF RunInv, Blank, Newer, Report
  <2>2. Answered(r)'
    BY <1>1, <1>2, <1>3 DEF RunInv, Answered, Report
  <2>3. Turns(r)'
    BY <1>1, <1>2 DEF RunInv, Turns, Report
  <2> QED
    BY <2>1, <2>2, <2>3
<1>8. Keeps(r)'
  <2>1. pc'[r] = "apply"
    BY <1>1 DEF Report
  <2>2. ASSUME NEW x \in Expected(r)'
        PROVE  Kept(r, x)' \/ (x \in starting[r] /\ (x \in todo'[r] \/ x \notin input[r]))
    <3>1. CASE x = id
      BY <1>2, <3>1 DEF Kept
    <3>2. CASE x # id
      BY <1>1, <1>2, <1>4, <3>2 DEF RunInv, Keeps, Expected, Kept, Report, TypeOK
    <3> QED
      BY <3>1, <3>2
  <2> QED
    BY <1>1, <1>4, <2>1, <2>2 DEF Keeps, Expected, Report
<1> QED
  BY <1>5, <1>6, <1>7, <1>8 DEF Goal, RunInv

LEMMA ApplyFailsStep ==
  ASSUME IInv, NEW r \in Runners, NEW id \in Ids, ApplyFails(r, id) PROVE Goal(r)
<1> USE DEF IInv
<1>1. /\ Report(r, id, "applyFailed") /\ "applyFailed" \in Statuses
      /\ pc[r] = "apply" /\ id \in todo[r] /\ calm' = FALSE
      /\ FilterPasses(r, id) \/ FilterErrs(r, id)
  BY DEF ApplyFails, NextToApply, Statuses
<1>2. /\ todo'[r] = todo[r] \ {id} /\ statuses'[r][id] = "applyFailed"
      /\ \A x \in Ids \ {id} : statuses'[r][x] = statuses[r][x]
      /\ \A q \in Runners \ {r} : todo'[q] = todo[q] /\ statuses'[q] = statuses[q]
      /\ todo' \in [Runners -> SUBSET Ids] /\ statuses' \in [Runners -> [Ids -> Statuses]]
  BY <1>1, ReportFacts
<1>3. /\ cache[r][id] # "unknown" => cache'[r][id] = cache[r][id]
      /\ \A x \in Ids \ {id} : cache'[r][x] = cache[r][x]
      /\ \A q \in Runners \ {r} : cache'[q] = cache[q]
      /\ cache' \in [Runners -> [Ids -> Answers]]
  BY <1>1, FilterFacts
<1>4. /\ since' \in [Runners -> SUBSET Ids] /\ since'[r] = since[r]
      /\ missed' \in [Runners -> SUBSET Ids] /\ missed[r] \subseteq missed'[r]
      /\ live' \in SUBSET Ids /\ live' \subseteq live \cup {id}
      /\ id \in live' => id \in live \cup missed'[r] \cup starting[r]
      /\ \A q \in Runners \ {r} :
           /\ missed'[q] = missed[q]
           /\ pc[q] # "idle" =>
                live' \ since'[q] \subseteq live \ since[q] /\ since[q] \subseteq since'[q]
  <2>1. CASE UNCHANGED <<live, since, missed>>
    BY <2>1 DEF TypeOK
  <2>2. CASE /\ live' = live \cup {id} /\ News(r, {id})
             /\ missed' = [missed EXCEPT ![r] = @ \cup ({id} \ starting[r])]
    BY <2>2 DEF News, Active, TypeOK
  <2> QED
    BY <2>1, <2>2 DEF ApplyFails
<1>5. TypeOK'
  BY <1>1, <1>2, <1>3, <1>4 DEF TypeOK, Report, Answers, Statuses
<1>6. \A q \in Runners \ {r} : SameRun(q) /\ Informed(q)
  BY <1>1, <1>2, <1>3, <1>4 DEF SameRun, Informed, Report
<1>7. Blank(r)' /\ Answered(r)' /\ Turns(r)' /\ Newer(r)'
  <2>1. Blank(r)' /\ Newer(r)'
    BY <1>1, <1>4 DEF RunInv, Blank, Newer, Report
  <2>2. Answered(r)'
    BY <1>1, <1>2, <1>3 DEF RunInv, Answered, Report
  <2>3. Turns(r)'
    BY <1>1, <1>2 DEF RunInv, Turns, Report
  <2> QED
    BY <2>1, <2>2, <2>3
<1>8. Keeps(r)'
  <2>1. pc'[r] = "apply"
    BY <1>1 DEF Report
  <2>2. ASSUME NEW x \in Expected(r)'
        PROVE  Kept(r, x)' \/ (x \in starting[r] /\ (x \in todo'[r] \/ x \notin input[r]))
    <3>1. CASE x = id
      <4>1. statuses[r][id] = "none"
        BY <1>1 DEF RunInv, Turns
      <4>2. id \in live => id \in Expected(r)
        BY <1>1, <1>4, <3>1 DEF Expected, Report
      <4>3. id \in starting[r]
        BY <1>1, <1>4, <3>1, <4>1, <4>2 DEF RunInv, Keeps, Kept, Expected
      <4> QED
        BY <1>1, <1>2, <3>1, <4>3 DEF Kept, Report
    <3>2. CASE x # id
      <4>1. x \in Expected(r)
        BY <1>1, <1>4, <3>2 DEF Expected, Report
      <4>2. x \in Ids
        BY <4>1 DEF Expected, TypeOK
      <4> QED
        BY <1>1, <1>2, <3>2, <4>1, <4>2 DEF RunInv, Keeps, Kept, Report
    <3> QED
      BY <3>1, <3>2
  <2> QED
    BY <1>1, <2>1, <2>2 DEF Keeps, Report
<1> QED
  BY <1>5, <1>6, <1>7, <1>8 DEF Goal, RunInv

\* A 415 leaves the rest of the task, which is missed from then on.
LEMMA ApplyUnsupportedStep ==
  ASSUME IInv, NEW r \in Runners, NEW id \in Ids, ApplyUnsupported(r, id) PROVE Goal(r)
<1> USE DEF IInv
<1>1. /\ pc[r] = "apply" /\ id \in todo[r] /\ calm' = FALSE /\ FilterPasses(r, id)
      /\ UNCHANGED <<live, stored, pc, input, loaded, starting, since>>
  BY DEF ApplyUnsupported, NextToApply
<1>2. /\ todo' \in [Runners -> SUBSET Ids] /\ missed' \in [Runners -> SUBSET Ids]
      /\ todo'[r] = {} /\ missed'[r] = missed[r] \cup (todo[r] \ {id})
      /\ \A q \in Runners \ {r} : todo'[q] = todo[q] /\ missed'[q] = missed[q]
  BY DEF ApplyUnsupported, TypeOK
<1>3. /\ statuses' \in [Runners -> [Ids -> Statuses]]
      /\ statuses'[r][id] = "applyFailed"
      /\ \A x \in Ids \ {id} : statuses'[r][x] = statuses[r][x]
      /\ \A q \in Runners \ {r} : statuses'[q] = statuses[q]
  <2>1. statuses \in [Runners -> [Ids -> Statuses]] /\ "applyFailed" \in Statuses
    BY DEF TypeOK, Statuses
  <2>2. [statuses[r] EXCEPT ![id] = "applyFailed"] \in [Ids -> Statuses]
    BY <2>1
  <2>3. statuses' = [statuses EXCEPT ![r] = [statuses[r] EXCEPT ![id] = "applyFailed"]]
    BY DEF ApplyUnsupported
  <2> QED
    BY <2>1, <2>2, <2>3
<1>4. /\ cache[r][id] # "unknown" => cache'[r][id] = cache[r][id]
      /\ \A x \in Ids \ {id} : cache'[r][x] = cache[r][x]
      /\ \A q \in Runners \ {r} : cache'[q] = cache[q]
      /\ cache' \in [Runners -> [Ids -> Answers]]
  BY <1>1, FilterFacts
<1>5. TypeOK'
  BY <1>1, <1>2, <1>3, <1>4 DEF TypeOK, Answers, Statuses
<1>6. \A q \in Runners \ {r} : SameRun(q) /\ Informed(q)
  BY <1>1, <1>2, <1>3, <1>4 DEF SameRun, Informed
<1>7. Blank(r)' /\ Answered(r)' /\ Turns(r)' /\ Newer(r)'
  <2>1. Blank(r)' /\ Turns(r)' /\ Newer(r)'
    BY <1>1, <1>2 DEF RunInv, Blank, Turns, Newer
  <2>2. Answered(r)'
    BY <1>1, <1>3, <1>4 DEF RunInv, Answered
  <2> QED
    BY <2>1, <2>2
<1>8. Keeps(r)'
  <2>1. ASSUME NEW x \in Expected(r)'
        PROVE  Kept(r, x)' \/ (x \in starting'[r] /\ x \notin input'[r])
    <3>1. x \in Expected(r) /\ x \in Ids /\ (x \in todo[r] => x = id)
      BY <1>1, <1>2 DEF Expected, TypeOK
    <3>2. CASE x = id
      <4>1. statuses[r][id] = "none"
        BY <1>1 DEF RunInv, Turns
      <4>2. id \in starting[r]
        BY <1>1, <3>1, <3>2, <4>1 DEF RunInv, Keeps, Kept
      <4> QED
        BY <1>1, <1>3, <3>2, <4>2 DEF Kept
    <3>3. CASE x # id
      BY <1>1, <1>3, <3>1, <3>3 DEF RunInv, Keeps, Kept
    <3> QED
      BY <3>2, <3>3
  <2> QED
    BY <1>1, <2>1 DEF Keeps
<1> QED
  BY <1>5, <1>6, <1>7, <1>8 DEF Goal, RunInv

\* A prune takes an object out of the cluster, or it is gone, or it is kept.
LEMMA PruneStep ==
  ASSUME IInv, NEW r \in Runners, NEW id \in Ids,
         Prune(r, id) \/ PruneNotFound(r, id) \/ PruneFails(r, id)
  PROVE  Goal(r)
<1> USE DEF NextToPrune, IInv
<1>1. PICK status \in {"deleteOk", "none", "deleteFailed"} :
        /\ Report(r, id, status)
        /\ (status # "deleteFailed" => id \notin live')
        /\ live' \subseteq live
        /\ pc[r] = "prune" /\ UNCHANGED <<cache, since, missed>>
        /\ UNCHANGED calm
  BY DEF Prune, PruneNotFound, PruneFails
<1>2. /\ todo'[r] = todo[r] \ {id} /\ statuses'[r][id] = status
      /\ \A x \in Ids \ {id} : statuses'[r][x] = statuses[r][x]
      /\ \A q \in Runners \ {r} : todo'[q] = todo[q] /\ statuses'[q] = statuses[q]
      /\ todo' \in [Runners -> SUBSET Ids] /\ statuses' \in [Runners -> [Ids -> Statuses]]
  BY <1>1, ReportFacts DEF Statuses
<1>3. TypeOK'
  BY <1>1, <1>2 DEF TypeOK, Report, Statuses
<1>4. \A q \in Runners \ {r} : SameRun(q) /\ Informed(q)
  BY <1>1, <1>2 DEF SameRun, Informed, Report
<1>5. Blank(r)' /\ Answered(r)' /\ Turns(r)' /\ Newer(r)'
  BY <1>1, <1>2 DEF RunInv, Blank, Answered, Turns, Newer, Report, TypeOK
<1>6. Keeps(r)'
  <2>1. pc'[r] = "prune"
    BY <1>1 DEF Report
  <2>2. ASSUME NEW x \in Expected(r)'
        PROVE  Kept(r, x)' \/ x \in todo'[r]
    <3>1. CASE x = id
      BY <1>1, <1>2, <3>1 DEF Expected, Kept
    <3>2. CASE x # id
      BY <1>1, <1>2, <3>2 DEF RunInv, Keeps, Expected, Kept, Report, TypeOK
    <3> QED
      BY <3>1, <3>2
  <2> QED
    BY <1>1, <2>1, <2>2 DEF Keeps, Expected, Report
<1> QED
  BY <1>3, <1>4, <1>5, <1>6 DEF Goal, RunInv

\* A run that is over has nothing to keep.
LEMMA IdleInv ==
  ASSUME TypeOK, NEW r \in Runners, Forget(r), UNCHANGED missed PROVE RunInv(r)'
BY ForgetFacts DEF RunInv, Blank, Answered, Turns, Newer, Keeps, Expected

LEMMA SaveStep ==
  ASSUME IInv, NEW r \in Runners, Save(r) PROVE Goal(r)
<1> USE DEF IInv
<1>1. Forget(r)
  BY DEF Save
<1>2. stored' \in SUBSET Ids
  BY DEF Save, NewInventory, WithStatus, TypeOK
<1>3. /\ since' \in [Runners -> SUBSET Ids]
      /\ \A q \in Runners \ {r} : pc[q] # "idle" => since'[q] = since[q] \cup (stored' \ stored)
  BY <1>2 DEF Save, News, Active, TypeOK
<1>4. TypeOK'
  BY <1>1, <1>2, <1>3, ForgetFacts DEF Save, TypeOK, Answers, Statuses
<1>5. \A q \in Runners \ {r} : SameRun(q) /\ Informed(q)
  BY <1>1, <1>3, ForgetFacts DEF Save, Informed
<1> QED
  BY <1>1, <1>4, <1>5, IdleInv DEF Save, Goal

LEMMA DiesStep ==
  ASSUME IInv, NEW r \in Runners, Dies(r) PROVE Goal(r)
<1> USE DEF IInv
<1>1. Forget(r)
  BY DEF Dies
<1>2. TypeOK'
  BY <1>1, ForgetFacts DEF Dies, TypeOK, Answers, Statuses
<1>3. \A q \in Runners \ {r} : SameRun(q) /\ Informed(q)
  BY <1>1, ForgetFacts DEF Dies, Informed
<1> QED
  BY <1>1, <1>2, <1>3, IdleInv DEF Dies, Goal

LEMMA NextInv == IInv /\ [Next]_vars => IInv'
<1> SUFFICES ASSUME IInv, [Next]_vars PROVE IInv'
  OBVIOUS
<1>1. ASSUME NEW r \in Runners, Goal(r) PROVE IInv'
  BY <1>1, OthersKeepInv DEF Goal, IInv
<1>2. CASE UNCHANGED vars
  BY <1>2 DEF vars, runVars, IInv, TypeOK, RunInv, Blank, Answered, Turns, Newer, Keeps, Expected, Kept
<1>3. CASE Next
  <2>1. PICK r \in Runners :
          \/ Load(r) \/ Loaded(r) \/ TaskEnds(r) \/ Save(r) \/ Dies(r)
          \/ \E id \in Ids : Step(r, id)
    BY <1>3 DEF Next
  <2>2. Goal(r)
    BY <2>1, LoadStep, LoadedStep, TaskEndsStep, SaveStep, DiesStep, LoadObjectStep,
       FilterKeepsOutStep, ApplyStep, ApplyFailsStep, ApplyUnsupportedStep, PruneStep DEF Step
  <2> QED
    BY <1>1, <2>2
<1> QED
  BY <1>2, <1>3

-----------------------------------------------------------------------------
(* The theorems.                                                            *)

\* The state of every process keeps its type, and tracks only what it loaded
\* (applier.go:200-209).
THEOREM SharedTypeCorrect == Spec => []TypeOK
<1>1. IInv => TypeOK
  BY DEF IInv
<1> QED
  BY <1>1, InitInv, NextInv, PTL DEF Spec

\* The steps that write the ConfigMap are saves ...
LEMMA OnlySavesStore ==
  ASSUME [Next]_vars, stored' # stored
  PROVE  \E q \in Runners : Save(q)
<1>1. ASSUME NEW q \in Runners, Load(q) \/ Loaded(q) \/ TaskEnds(q) \/ Dies(q)
      PROVE  FALSE
  BY <1>1 DEF Load, Loaded, TaskEnds, Dies
<1>2. ASSUME NEW q \in Runners, NEW id \in Ids, Step(q, id)
      PROVE  FALSE
  <2>1. LoadObject(q, id) => FALSE
    BY DEF LoadObject
  <2>2. ASSUME NEW status, Report(q, id, status) PROVE FALSE
    BY <2>2 DEF Report
  <2>3. ApplyUnsupported(q, id) => FALSE
    BY DEF ApplyUnsupported
  <2> QED
    BY <1>2, <2>1, <2>2, <2>3
       DEF Step, FilterKeepsOut, Apply, ApplyFails, Prune, PruneNotFound, PruneFails
<1>3. ~ UNCHANGED vars
  BY DEF vars
<1> QED
  BY <1>1, <1>2, <1>3 DEF Next

\* ... and one that ends a run is its own.
LEMMA OnlySaves ==
  ASSUME IInv, [Next]_vars, NEW r \in Runners, pc[r] = "save", pc'[r] = "idle",
         stored' # stored
  PROVE  Save(r)
<1>1. PICK q \in Runners : Save(q)
  BY OnlySavesStore
<1>2. r # q => pc'[r] = pc[r]
  BY <1>1, ForgetFacts DEF Save, SameRun, IInv
<1> QED
  BY <1>1, <1>2

\* Whatever any number of other runs do, what a save drops of the tracked
\* objects that exist is news to the run that saves (configmap.go:75), or one
\* of its own two exceptions: what it wrote, untracked, without hearing of it
\* (apply.go:165-178), and what its task left after a 415 (apply.go:112-114).
THEOREM SaveForgetsOnlyNews == Spec => ForgetsOnlyNews
<1>1. ASSUME IInv, [Next]_vars, NEW r \in Runners, pc[r] = "save", pc'[r] = "idle",
             stored' # stored
      PROVE  (stored \cap live) \ stored' \subseteq since[r] \cup missed[r]
  <2>1. stored' = NewInventory(r) /\ stored \subseteq Ids
    BY <1>1, OnlySaves DEF Save, IInv, TypeOK
  <2>2. ASSUME NEW id \in stored \cap live, id \notin since[r] \cup missed[r]
        PROVE  id \in NewInventory(r)
    BY <1>1, <2>1, <2>2 DEF IInv, RunInv, Newer, Keeps, Expected, Kept, NewInventory, WithStatus
  <2> QED
    BY <2>1, <2>2
<1>2. IInv /\ [Next]_vars =>
        [\A r \in Runners : pc[r] = "save" /\ pc'[r] = "idle" /\ stored' # stored =>
           (stored \cap live) \ stored' \subseteq since[r] \cup missed[r]]_vars
  BY <1>1
<1> QED
  BY <1>2, InitInv, NextInv, PTL DEF Spec, ForgetsOnlyNews

\* A tracked object that a filter keeps out is never dropped, although others
\* may have deleted or forgotten it (object_cache.go:58-64, manager.go:130-133).
THEOREM SkippedIsKept == Spec => SkippedStaysTracked
<1>1. ASSUME IInv, [Next]_vars, NEW r \in Runners, pc[r] = "save", pc'[r] = "idle",
             stored' # stored
      PROVE  loaded[r] \cap WithStatus(r, {"skipped"}) \subseteq stored'
  <2>1. stored' = NewInventory(r)
    BY <1>1, OnlySaves DEF Save
  <2>2. loaded[r] \cap WithStatus(r, {"skipped"}) \subseteq starting[r]
    BY <1>1 DEF IInv, RunInv, Answered, WithStatus
  <2> QED
    BY <2>1, <2>2 DEF NewInventory, WithStatus
<1>2. IInv /\ [Next]_vars =>
        [\A r \in Runners : pc[r] = "save" /\ pc'[r] = "idle" /\ stored' # stored =>
           loaded[r] \cap WithStatus(r, {"skipped"}) \subseteq stored']_vars
  BY <1>1
<1> QED
  BY <1>2, InitInv, NextInv, PTL DEF Spec, SkippedStaysTracked
-----------------------------------------------------------------------------
(* Runs of one input.                                                       *)

\* A run applies its input and prunes nothing of it.
OwnTasks(r) ==
  /\ pc[r] = "apply" => todo[r] \subseteq input[r]
  /\ pc[r] = "prune" => todo[r] \cap input[r] = {}

\* What it applies without asking a filter will be tracked.
WillTrack(r) ==
  \A x \in input[r] \ Guarded :
    /\ pc[r] = "apply" => x \in todo[r] \/ statuses[r][x] = "applyOk"
    /\ pc[r] \in {"prune", "save"} => statuses[r][x] = "applyOk"

\* The rest of what exists was tracked before the runs began, none of them has
\* forgotten it, and this one will delete it or track it again.
StillTracked(r) ==
  \A x \in (live \ input[r]) \ Guarded :
    /\ x \in stored \cap loaded[r]
    /\ pc[r] = "get" => cache[r][x] # "notFound"
    /\ pc[r] = "apply" => x \in starting[r]
    /\ pc[r] = "prune" => x \in todo[r] \/ statuses[r][x] = "deleteFailed"
    /\ pc[r] = "save" => statuses[r][x] = "deleteFailed"

CalmRun(r) == OwnTasks(r) /\ WillTrack(r) /\ StillTracked(r)

CalmInv ==
  calm => /\ \A q, r \in Active : input[q] = input[r]
          /\ Active = {} => live \ stored \subseteq Guarded
          /\ \A r \in Active : CalmRun(r)

LEMMA CalmInit == Init => CalmInv
  BY DEF Init, CalmInv, Active

\* A task of r writes nothing but its input, so the other runs find all as it was.
LEMMA TaskCalm ==
  ASSUME IInv, CalmInv, calm, calm', NEW r \in Runners, Goal(r),
         pc[r] # "idle", pc'[r] # "idle", UNCHANGED <<input, stored>>,
         live' \subseteq live \cup input[r],
         CalmRun(r) => CalmRun(r)'
  PROVE  CalmInv'
<1>1. Active' = Active /\ r \in Active
  BY DEF Active, Goal, SameRun
<1>2. CalmRun(r)'
  BY <1>1 DEF CalmInv
<1>3. ASSUME NEW q \in Active, q # r PROVE CalmRun(q)'
  <2>1. SameRun(q) /\ CalmRun(q) /\ input[q] = input[r]
    BY <1>1, <1>3 DEF CalmInv, Goal, Active
  <2>2. OwnTasks(q)' /\ WillTrack(q)'
    BY <2>1 DEF CalmRun, OwnTasks, WillTrack, SameRun
  <2>3. StillTracked(q)'
    BY <2>1 DEF CalmRun, StillTracked, SameRun
  <2> QED
    BY <2>2, <2>3 DEF CalmRun
<1> QED
  BY <1>1, <1>2, <1>3 DEF CalmInv

LEMMA LoadObjectCalm ==
  ASSUME IInv, CalmInv, NEW r \in Runners, NEW id \in Ids, LoadObject(r, id)
  PROVE  CalmInv'
<1>1. /\ pc[r] = "get" /\ UNCHANGED <<live, stored, pc, input, loaded, calm>>
      /\ Gets(r, id)
  BY DEF LoadObject
<1>2. /\ cache'[r][id] = Answer(r, id)
      /\ \A x \in Ids \ {id} : cache'[r][x] = cache[r][x]
  BY <1>1, GetsFacts DEF IInv
<1>3. id \in live => Answer(r, id) = "found"
  BY DEF LoadObject, Answer
<1>4. CalmRun(r) => CalmRun(r)'
  BY <1>1, <1>2, <1>3 DEF CalmRun, OwnTasks, WillTrack, StillTracked, IInv, TypeOK
<1> QED
  BY <1>1, <1>4, LoadObjectStep, TaskCalm DEF CalmInv

LEMMA LoadedCalm ==
  ASSUME IInv, CalmInv, NEW r \in Runners, Loaded(r)
  PROVE  CalmInv'
<1>1. /\ pc[r] = "get" /\ pc'[r] = "apply" /\ todo'[r] = input[r] /\ starting'[r] = Found(r)
      /\ UNCHANGED <<live, stored, input, loaded, cache, statuses, calm>>
  BY DEF Loaded, IInv, TypeOK
<1>2. \A x \in live \cap loaded[r] : cache[r][x] # "notFound" => x \in Found(r)
  BY DEF Loaded, Found, IInv, TypeOK
<1>3. CalmRun(r) => CalmRun(r)'
  BY <1>1, <1>2 DEF CalmRun, OwnTasks, WillTrack, StillTracked
<1> QED
  BY <1>1, <1>3, LoadedStep, TaskCalm DEF CalmInv

LEMMA TaskEndsCalm ==
  ASSUME IInv, CalmInv, NEW r \in Runners, TaskEnds(r)
  PROVE  CalmInv'
<1>1. /\ todo[r] = {} /\ UNCHANGED <<live, stored, input, loaded, starting, statuses, calm>>
      /\ \/ pc[r] = "apply" /\ pc'[r] = "prune" /\ todo'[r] = starting[r] \ input[r]
         \/ pc[r] = "prune" /\ pc'[r] = "save"
  BY DEF TaskEnds, IInv, TypeOK
<1>2. CalmRun(r) => CalmRun(r)'
  BY <1>1 DEF CalmRun, OwnTasks, WillTrack, StillTracked
<1> QED
  BY <1>1, <1>2, TaskEndsStep, TaskCalm DEF CalmInv

LEMMA ApplyTaskCalm ==
  ASSUME IInv, CalmInv, NEW r \in Runners, NEW id \in Ids, FilterKeepsOut(r, id) \/ Apply(r, id)
  PROVE  CalmInv'
<1>1. PICK status \in {"skipped", "applyOk"} :
        /\ Report(r, id, status) /\ (status = "skipped" => id \in Guarded)
        /\ pc[r] = "apply" /\ id \in todo[r]
        /\ UNCHANGED calm /\ live' \subseteq live \cup {id}
  BY DEF FilterKeepsOut, Apply, NextToApply
<1>2. /\ todo'[r] = todo[r] \ {id} /\ statuses'[r][id] = status
      /\ \A x \in Ids \ {id} : statuses'[r][x] = statuses[r][x]
      /\ UNCHANGED <<stored, pc, input, loaded, starting>>
  BY <1>1, ReportFacts DEF IInv, Statuses, Report
<1>3. input[r] \subseteq Ids
  BY DEF IInv, TypeOK
<1>4. CASE ~calm
  BY <1>1, <1>4 DEF CalmInv
<1>5. CASE calm
  <2>1. CalmRun(r)
    BY <1>1, <1>5 DEF CalmInv, Active
  <2>2. id \in input[r]
    BY <1>1, <2>1 DEF CalmRun, OwnTasks
  <2>3. OwnTasks(r)'
    BY <1>1, <1>2, <2>1 DEF CalmRun, OwnTasks
  <2>4. WillTrack(r)'
    BY <1>1, <1>2, <1>3, <2>1 DEF CalmRun, WillTrack
  <2>5. StillTracked(r)'
    BY <1>1, <1>2, <2>1, <2>2 DEF CalmRun, StillTracked
  <2> QED
    BY <1>1, <1>2, <1>5, <2>2, <2>3, <2>4, <2>5, FilterKeepsOutStep, ApplyStep, TaskCalm DEF CalmRun
<1> QED
  BY <1>4, <1>5

LEMMA PruneTaskCalm ==
  ASSUME IInv, CalmInv, NEW r \in Runners, NEW id \in Ids,
         Prune(r, id) \/ PruneNotFound(r, id) \/ PruneFails(r, id)
  PROVE  CalmInv'
<1>1. PICK status \in {"deleteOk", "none", "deleteFailed"} :
        /\ Report(r, id, status) /\ (status # "deleteFailed" => id \notin live')
        /\ live' \subseteq live /\ UNCHANGED calm
        /\ pc[r] = "prune" /\ id \in todo[r]
  BY DEF Prune, PruneNotFound, PruneFails, NextToPrune
<1>2. /\ todo'[r] = todo[r] \ {id} /\ statuses'[r][id] = status
      /\ \A x \in Ids \ {id} : statuses'[r][x] = statuses[r][x]
      /\ UNCHANGED <<stored, pc, input, loaded, starting>>
  BY <1>1, ReportFacts DEF IInv, Statuses, Report
<1>3. input[r] \subseteq Ids /\ live \subseteq Ids
  BY DEF IInv, TypeOK
<1>4. CalmRun(r) => CalmRun(r)'
  <2> SUFFICES ASSUME CalmRun(r) PROVE CalmRun(r)'
    OBVIOUS
  <2>1. id \notin input[r]
    BY <1>1 DEF CalmRun, OwnTasks
  <2>2. OwnTasks(r)' /\ WillTrack(r)'
    BY <1>1, <1>2, <1>3, <2>1 DEF CalmRun, OwnTasks, WillTrack
  <2>3. StillTracked(r)'
    BY <1>1, <1>2, <1>3 DEF CalmRun, StillTracked
  <2> QED
    BY <2>2, <2>3 DEF CalmRun
<1> QED
  BY <1>1, <1>2, <1>4, PruneStep, TaskCalm DEF CalmInv

\* A run that joins has the input of the others, and loads what they have kept.
LEMMA LoadCalm ==
  ASSUME IInv, CalmInv, NEW r \in Runners, Load(r)
  PROVE  CalmInv'
<1> SUFFICES ASSUME calm' PROVE CalmInv'
  BY DEF CalmInv
<1>1. PICK I \in Inputs : input' = [input EXCEPT ![r] = I]
                         /\ calm' = (calm /\ \A q \in Active : input[q] = I)
  BY DEF Load
<1>2. /\ pc[r] = "idle" /\ pc'[r] = "get" /\ loaded'[r] = stored /\ input'[r] = I
      /\ UNCHANGED <<live, stored>> /\ \A q \in Runners \ {r} : SameRun(q)
      /\ \A id \in Ids : cache'[r][id] = "unknown"
      /\ live \subseteq Ids
  <2>1. /\ pc[r] = "idle" /\ pc'[r] = "get" /\ loaded'[r] = stored /\ live \subseteq Ids
        /\ UNCHANGED <<live, stored, cache>>
    BY DEF Load, IInv, TypeOK
  <2>2. input'[r] = I
    BY <1>1 DEF IInv, TypeOK
  <2>3. \A q \in Runners \ {r} : SameRun(q)
    BY LoadStep DEF Goal
  <2>4. \A id \in Ids : cache'[r][id] = "unknown"
    BY <2>1 DEF IInv, RunInv, Blank
  <2> QED
    BY <2>1, <2>2, <2>3, <2>4
<1>3. calm /\ \A q \in Active : input[q] = I
  BY <1>1
<1>4. Active' = Active \cup {r} /\ r \notin Active /\ Active \subseteq Runners
  BY <1>2 DEF Active, SameRun
<1>5. \A q \in Active' : input'[q] = I
  BY <1>2, <1>3, <1>4 DEF SameRun
<1>6. (live \ I) \ Guarded \subseteq stored
  <2>1. CASE Active = {}
    BY <1>3, <2>1 DEF CalmInv
  <2>2. CASE Active # {}
    <3>1. PICK q \in Active : TRUE
      BY <2>2
    <3> QED
      BY <1>3, <3>1 DEF CalmInv, CalmRun, StillTracked
  <2> QED
    BY <2>1, <2>2
<1>7. CalmRun(r)'
  BY <1>2, <1>6 DEF CalmRun, OwnTasks, WillTrack, StillTracked
<1>8. ASSUME NEW q \in Active PROVE CalmRun(q)'
  <2>1. SameRun(q) /\ CalmRun(q)
    BY <1>2, <1>3, <1>4 DEF CalmInv
  <2> QED
    BY <1>2, <2>1 DEF CalmRun, OwnTasks, WillTrack, StillTracked, SameRun
<1> QED
  BY <1>4, <1>5, <1>7, <1>8 DEF CalmInv

\* A save drops only what is gone, and what a filter may keep out.
LEMMA SaveCalm ==
  ASSUME IInv, CalmInv, NEW r \in Runners, Save(r)
  PROVE  CalmInv'
<1> SUFFICES ASSUME calm' PROVE CalmInv'
  BY DEF CalmInv
<1>1. /\ pc[r] = "save" /\ pc'[r] = "idle" /\ stored' = NewInventory(r)
      /\ UNCHANGED <<live, calm>> /\ \A q \in Runners \ {r} : SameRun(q)
      /\ live \subseteq Ids
  BY SaveStep, ForgetFacts DEF Save, IInv, TypeOK, Goal
<1>2. calm /\ r \in Active /\ Active' = Active \ {r} /\ Active \subseteq Runners
  BY <1>1 DEF Active, SameRun
<1>3. live \ Guarded \subseteq stored'
  <2> SUFFICES ASSUME NEW x \in live \ Guarded PROVE x \in NewInventory(r)
    BY <1>1
  <2>1. statuses[r][x] \in {"applyOk", "deleteFailed"}
    BY <1>1, <1>2 DEF CalmInv, CalmRun, WillTrack, StillTracked
  <2> QED
    BY <1>1, <2>1 DEF NewInventory, WithStatus
<1>4. ASSUME NEW q \in Active' PROVE CalmRun(q)'
  <2>1. SameRun(q) /\ CalmRun(q)
    BY <1>1, <1>2, <1>4 DEF CalmInv
  <2> QED
    BY <1>1, <1>3, <2>1 DEF CalmRun, OwnTasks, WillTrack, StillTracked, SameRun
<1>5. \A q, p \in Active' : input'[q] = input'[p]
  BY <1>1, <1>2 DEF CalmInv, SameRun
<1> QED
  BY <1>1, <1>3, <1>4, <1>5 DEF CalmInv

LEMMA CalmStep == IInv /\ CalmInv /\ [Next]_vars => CalmInv'
<1> SUFFICES ASSUME IInv, CalmInv, [Next]_vars PROVE CalmInv'
  OBVIOUS
<1>1. CASE UNCHANGED vars
  BY <1>1 DEF vars, runVars, CalmInv, CalmRun, OwnTasks, WillTrack, StillTracked, Active
<1>2. ASSUME NEW r \in Runners, Dies(r) \/ \E id \in Ids : ApplyFails(r, id) \/ ApplyUnsupported(r, id)
      PROVE  CalmInv'
  BY <1>2 DEF Dies, ApplyFails, ApplyUnsupported, CalmInv
<1> QED
  BY <1>1, <1>2, LoadCalm, LoadedCalm, TaskEndsCalm, SaveCalm, LoadObjectCalm, ApplyTaskCalm,
     PruneTaskCalm
  DEF Next, Step

\* One deployment started twice, or any number of times at once, loses nothing:
\* whatever runs of one input do to each other's inventory, what exists is
\* tracked once they are all over (manager.go:118-136, configmap.go:75).
THEOREM OneInputLosesNothing == Spec => []SameInputTracked
<1>1. CalmInv => SameInputTracked
  BY DEF CalmInv, SameInputTracked
<1> QED
  BY <1>1, InitInv, NextInv, CalmInit, CalmStep, PTL DEF Spec
=============================================================================
