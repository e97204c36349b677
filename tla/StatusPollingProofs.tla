------------------------ MODULE StatusPollingProofs ------------------------
(***************************************************************************)
(* A wait ends for the reasons it promises and no other, and only the      *)
(* report of a kind that is not served can meet the closed channel: for    *)
(* any number of objects, kinds and changes.                               *)
(***************************************************************************)
EXTENDS StatusPolling, TLAPS

\* The goroutines of one resource: the handler runs under its informer, which
\* runs between AddChannel and the end of the forwarder.
GoroutineInv ==
  \A r \in Resources :
    /\ handler[r] # "idle" => reflector[r] # "off"
    /\ reflector[r] # "off" =>
         starter[r] = "ended" /\ forwarder[r] \in {"receiving", "sending"}
    /\ starter[r] \in {"unmapped", "addingError", "sending", "stopping"} => r \in notServed

\* Once the closer has counted, the context is done and no informer sends any
\* more; what a forwarder holds is the report of a kind that is not served.
ClosingInv ==
  /\ closer # "polling" => done
  /\ closer \in {"closing", "closed"} =>
       \A r \in Resources :
         /\ handler[r] # "sending" /\ reflector[r] # "sending"
         /\ forwarder[r] = "sending" => r \in notServed /\ carried[r] = ErrorEvent

\* An event says that its object is Current only if it was; a wait that reads
\* has something to wait for.
WatchInv ==
  /\ \A o \in Objects : status[o] = "current" => o \in been
  /\ \A r \in Resources :
       /\ reporting[r].status = "successful" => reporting[r].obj \in been
       /\ carried[r].status = "successful" => carried[r].obj \in been
  /\ wait = "reading" => watch # {}

IInv == TypeOK /\ GoroutineInv /\ ClosingInv /\ WatchInv /\ EventsNeverPanic

-----------------------------------------------------------------------------
LEMMA ErrorEventType == ErrorEvent \in Events /\ ErrorEvent.status # "successful"
  BY DEF Events, ErrorEvent, Event

LEMMA EventForType ==
  ASSUME NEW o \in Objects, status[o] \in Statuses
  PROVE  /\ EventFor(o) \in Events
         /\ EventFor(o).status = "successful" => status[o] = "current" /\ EventFor(o).obj = o
<1>1. CASE status[o] = "current"
  BY <1>1 DEF EventFor, Events, Event
<1>2. CASE status[o] \in {"pending", "deleted"}
  BY <1>2 DEF EventFor, Events, Event
<1>3. CASE status[o] = "failed"
  BY <1>3 DEF EventFor, Events, Event
<1>4. CASE status[o] = "unreadable"
  <2>1. EventFor(o) = ErrorEvent
    BY <1>4 DEF EventFor
  <2> QED
    BY <2>1, ErrorEventType
<1> QED
  BY <1>1, <1>2, <1>3, <1>4 DEF Statuses

LEMMA InitIInv == Init => IInv
<1> SUFFICES ASSUME Init PROVE IInv
  OBVIOUS
<1>1. TypeOK
  <2>1. status \in [Objects -> Statuses] /\ told \in [Objects -> Statuses]
    BY DEF Init, Statuses
  <2>2. been \subseteq Objects /\ changes \in 0..MaxChanges
    BY PollingAssumption DEF Init
  <2>3. reporting \in [Resources -> Events] /\ carried \in [Resources -> Events]
    BY ErrorEventType DEF Init
  <2> QED
    BY <2>1, <2>2, <2>3 DEF Init, TypeOK
<1>2. WatchInv
  BY PollingAssumption, ErrorEventType DEF Init, WatchInv
<1>3. GoroutineInv /\ ClosingInv /\ EventsNeverPanic
  BY DEF Init, GoroutineInv, ClosingInv, EventsNeverPanic
<1> QED
  BY <1>1, <1>2, <1>3 DEF IInv

-----------------------------------------------------------------------------
(* The steps of each goroutine.                                             *)

LEMMA StartingStep ==
  ASSUME IInv, ~panicked, NEW r \in Resources, Starting(r)
  PROVE  IInv'
<1> USE DEF clusterVars, informerVars
<1>1. CASE StarterMaps(r)
  BY <1>1 DEF StarterMaps, IInv, TypeOK, GoroutineInv, ClosingInv, WatchInv, EventsNeverPanic
<1>2. CASE StarterChecks(r)
  BY <1>2 DEF StarterChecks, IInv, TypeOK, GoroutineInv, ClosingInv, WatchInv, EventsNeverPanic
<1>3. CASE StarterAdds(r)
  BY <1>3 DEF StarterAdds, IInv, TypeOK, GoroutineInv, ClosingInv, WatchInv, EventsNeverPanic
<1>4. CASE StarterSends(r)
  BY <1>4, ErrorEventType
  DEF StarterSends, Receives, IInv, TypeOK, GoroutineInv, ClosingInv, WatchInv, EventsNeverPanic
<1>5. CASE StarterStops(r)
  BY <1>5 DEF StarterStops, IInv, TypeOK, GoroutineInv, ClosingInv, WatchInv, EventsNeverPanic
<1> QED
  BY <1>1, <1>2, <1>3, <1>4, <1>5 DEF Starting

LEMMA HandlingStep ==
  ASSUME IInv, ~panicked, NEW r \in Resources, Handling(r)
  PROVE  IInv'
<1> USE DEF clusterVars, informerVars
<1>1. CASE HandlerSends(r)
  BY <1>1
  DEF HandlerSends, Receives, IInv, TypeOK, GoroutineInv, ClosingInv, WatchInv, EventsNeverPanic
<1>2. CASE HandlerStops(r)
  BY <1>2 DEF HandlerStops, IInv, TypeOK, GoroutineInv, ClosingInv, WatchInv, EventsNeverPanic
<1>3. ASSUME NEW o \in Objects, ResourceOf[o] = r, Notifies(o) PROVE IInv'
  <2>1. /\ EventFor(o) \in Events
        /\ EventFor(o).status = "successful" => EventFor(o).obj \in been
    BY EventForType DEF IInv, TypeOK, WatchInv
  <2>2. closer \notin {"closing", "closed"}
    BY <1>3 DEF Notifies, IInv, ClosingInv
  <2> HIDE DEF EventFor
  <2> QED
    BY <1>3, <2>1, <2>2
    DEF Notifies, IInv, TypeOK, GoroutineInv, ClosingInv, WatchInv, EventsNeverPanic
<1> QED
  BY <1>1, <1>2, <1>3 DEF Handling

LEMMA ReflectingStep ==
  ASSUME IInv, ~panicked, NEW r \in Resources, Reflecting(r) \/ WatchForbidden(r)
  PROVE  IInv'
<1> USE DEF clusterVars
<1>1. CASE ReflectorSends(r)
  BY <1>1, ErrorEventType
  DEF ReflectorSends, Receives, IInv, TypeOK, GoroutineInv, ClosingInv, WatchInv, EventsNeverPanic
<1>2. CASE ReflectorStops(r)
  BY <1>2 DEF ReflectorStops, IInv, TypeOK, GoroutineInv, ClosingInv, WatchInv, EventsNeverPanic
<1>3. CASE InformerEnds(r)
  BY <1>3 DEF InformerEnds, IInv, TypeOK, GoroutineInv, ClosingInv, WatchInv, EventsNeverPanic
<1>4. CASE WatchForbidden(r)
  BY <1>4 DEF WatchForbidden, IInv, TypeOK, GoroutineInv, ClosingInv, WatchInv, EventsNeverPanic
<1> QED
  BY <1>1, <1>2, <1>3, <1>4 DEF Reflecting

LEMMA ForwardingStep ==
  ASSUME IInv, ~panicked, NEW r \in Resources, Forwarding(r)
  PROVE  IInv'
<1> USE DEF clusterVars, informerVars
<1>1. CASE ForwarderEnds(r)
  BY <1>1
  DEF ForwarderEnds, ChannelClosed, IInv, TypeOK, GoroutineInv, ClosingInv, WatchInv, EventsNeverPanic
<1>2. CASE ForwarderPanics(r)
  BY <1>2 DEF ForwarderPanics, IInv, TypeOK, GoroutineInv, ClosingInv, WatchInv, EventsNeverPanic
<1>3. CASE WaitReads(r)
  BY <1>3 DEF WaitReads, IInv, TypeOK, GoroutineInv, ClosingInv, WatchInv, EventsNeverPanic
<1> QED
  BY <1>1, <1>2, <1>3 DEF Forwarding

LEMMA ClosingStep ==
  ASSUME IInv, ~panicked, Closing \/ ContextDone \/ (\E o \in Objects : Change(o))
  PROVE  IInv'
<1> USE DEF clusterVars, informerVars
<1>1. CASE CloserSeesDone
  BY <1>1 DEF CloserSeesDone, IInv, TypeOK, GoroutineInv, ClosingInv, WatchInv, EventsNeverPanic
<1>2. CASE CloserCounts
  BY <1>2
  DEF CloserCounts, CounterIsZero, IInv, TypeOK, GoroutineInv, ClosingInv, WatchInv, EventsNeverPanic
<1>3. CASE CloserCloses
  BY <1>3 DEF CloserCloses, IInv, TypeOK, GoroutineInv, ClosingInv, WatchInv, EventsNeverPanic
<1>4. CASE WaitSeesClosed
  BY <1>4 DEF WaitSeesClosed, IInv, TypeOK, GoroutineInv, ClosingInv, WatchInv, EventsNeverPanic
<1>5. CASE ContextDone
  BY <1>5 DEF ContextDone, IInv, TypeOK, GoroutineInv, ClosingInv, WatchInv, EventsNeverPanic
<1>6. ASSUME NEW o \in Objects, Change(o) PROVE IInv'
  BY <1>6, PollingAssumption
  DEF Change, Statuses, IInv, TypeOK, GoroutineInv, ClosingInv, WatchInv, EventsNeverPanic
<1> QED
  BY <1>1, <1>2, <1>3, <1>4, <1>5, <1>6 DEF Closing

LEMMA IInvStep == IInv /\ [Next]_vars => IInv'
<1>1. IInv /\ UNCHANGED vars => IInv'
  BY DEF vars, clusterVars, informerVars, IInv, TypeOK, GoroutineInv, ClosingInv, WatchInv,
     EventsNeverPanic
<1>2. IInv /\ Next => IInv'
  BY StartingStep, HandlingStep, ReflectingStep, ForwardingStep, ClosingStep DEF Next
<1> QED
  BY <1>1, <1>2

LEMMA Invariance == Spec => []IInv
  BY InitIInv, IInvStep, PTL DEF Spec

\* The goroutines keep their types: an event that is passed on is one the
\* checks produce, and the wait watches objects it was given.
THEOREM PollingTypeCorrect == Spec => []TypeOK
<1>1. IInv => TypeOK
  BY DEF IInv
<1> QED
  BY <1>1, Invariance, PTL

\* A send on the closed channel, which panics, is always the report of a kind
\* that is not served: the event handlers read the context again before they
\* send (informerMultiplexer.go:172).
THEOREM OnlyReportsPanic == Spec => []EventsNeverPanic
<1>1. IInv => EventsNeverPanic
  BY DEF IInv
<1> QED
  BY <1>1, Invariance, PTL

-----------------------------------------------------------------------------
(* The refinement of WaitPromise: its steps, not its fairness.              *)

Current == {o \in Objects : status[o] = "current"}

\* What the promise speaks of is what the reading of the channel changes.
LEMMA SamePromise ==
  ASSUME UNCHANGED <<status, been, done, wait, watch, panicked>>
  PROVE  UNCHANGED Promise!vars
BY DEF Promise!vars, Phase

LEMMA InitRefines == Init => Promise!Init
BY PollingAssumption DEF Init, Promise!Init, Phase

\* Whoever cancels the context, it is one step of the promise.
LEMMA StopRefines ==
  ASSUME done' = TRUE, done \in BOOLEAN, UNCHANGED <<status, been, wait, watch, panicked>>
  PROVE  [Promise!Next]_(Promise!vars)
<1>1. CASE done
  BY <1>1, SamePromise
<1>2. CASE ~done
  BY <1>2 DEF Promise!Next, Promise!Stop, Phase
<1> QED
  BY <1>1, <1>2

\* The event of an object that is Current, or was, is what the wait reacts to.
LEMMA ReadRefines ==
  ASSUME IInv, ~panicked, NEW r \in Resources, WaitReads(r)
  PROVE  [Promise!Next]_(Promise!vars)
<1> USE DEF clusterVars
<1> DEFINE o == carried[r].obj
<1>1. /\ wait = "reading" /\ Phase = "waiting" /\ watch \subseteq Objects /\ watch # {}
      /\ UNCHANGED <<status, been, panicked>>
  BY DEF WaitReads, Phase, IInv, TypeOK, WatchInv
<1>2. CASE carried[r].status = "successful" /\ o \in watch
  <2>1. o \in Objects /\ o \in watch \cap been
    BY <1>1, <1>2 DEF IInv, WatchInv
  <2>2. watch' = watch \ {o}
    BY <1>2 DEF WaitReads
  <2>3. CASE watch = {o}
    <3>1. watch' = {} /\ wait' = "left" /\ done' = TRUE /\ Phase' = "reconciled"
      BY <1>1, <2>2, <2>3 DEF WaitReads, Phase
    <3>2. Promise!See(o)
      BY <1>1, <2>1, <2>2, <2>3, <3>1 DEF Promise!See
    <3> QED
      BY <2>1, <3>2 DEF Promise!Next
  <2>4. CASE watch # {o}
    <3>1. watch' # {} /\ UNCHANGED <<wait, done>> /\ Phase' = "waiting"
      <4>1. watch' # {}
        BY <2>1, <2>2, <2>4
      <4> QED
        BY <1>1, <4>1 DEF WaitReads, Phase
    <3>2. Promise!See(o)
      BY <1>1, <2>1, <2>2, <2>4, <3>1 DEF Promise!See
    <3> QED
      BY <2>1, <3>2 DEF Promise!Next
  <2> QED
    BY <2>3, <2>4
<1>3. CASE ~(carried[r].status = "successful" /\ o \in watch)
  <2>1. watch' = watch
    BY <1>3 DEF WaitReads
  <2>2. UNCHANGED <<wait, done>>
    BY <1>1, <2>1 DEF WaitReads
  <2> QED
    BY <1>1, <2>1, <2>2, SamePromise
<1> QED
  BY <1>2, <1>3

LEMMA StepRefines == IInv /\ [Next]_vars => [Promise!Next]_(Promise!vars)
<1> SUFFICES ASSUME IInv, [Next]_vars PROVE [Promise!Next]_(Promise!vars)
  OBVIOUS
<1> USE DEF clusterVars, informerVars
<1>1. CASE UNCHANGED vars
  BY <1>1, SamePromise DEF vars
<1>2. done \in BOOLEAN
  BY DEF IInv, TypeOK
<1>3. ASSUME NEW r \in Resources, Starting(r) PROVE [Promise!Next]_(Promise!vars)
  <2>1. CASE StarterStops(r)
    BY <1>2, <2>1, StopRefines DEF StarterStops
  <2>2. CASE StarterMaps(r) \/ StarterChecks(r) \/ StarterAdds(r) \/ StarterSends(r)
    BY <2>2, SamePromise DEF StarterMaps, StarterChecks, StarterAdds, StarterSends
  <2> QED
    BY <1>3, <2>1, <2>2 DEF Starting
<1>4. ASSUME NEW r \in Resources, Handling(r) PROVE [Promise!Next]_(Promise!vars)
  <2>1. CASE HandlerStops(r)
    BY <1>2, <2>1, StopRefines DEF HandlerStops
  <2>2. CASE HandlerSends(r) \/ \E o \in Objects : Notifies(o)
    BY <2>2, SamePromise DEF HandlerSends, Notifies
  <2> QED
    BY <1>4, <2>1, <2>2 DEF Handling
<1>5. ASSUME NEW r \in Resources, Reflecting(r) \/ WatchForbidden(r)
      PROVE  [Promise!Next]_(Promise!vars)
  <2>1. CASE ReflectorStops(r)
    BY <1>2, <2>1, StopRefines DEF ReflectorStops
  <2>2. CASE ReflectorSends(r) \/ InformerEnds(r) \/ WatchForbidden(r)
    BY <2>2, SamePromise DEF ReflectorSends, InformerEnds, WatchForbidden
  <2> QED
    BY <1>5, <2>1, <2>2 DEF Reflecting
<1>6. ASSUME ~panicked, NEW r \in Resources, Forwarding(r)
      PROVE  [Promise!Next]_(Promise!vars)
  <2>1. CASE ForwarderEnds(r)
    BY <2>1, SamePromise DEF ForwarderEnds
  <2>2. CASE ForwarderPanics(r)
    <3>1. done /\ Phase # "panicked" /\ Phase' = "panicked"
      BY <1>6, <2>2 DEF ForwarderPanics, Phase, IInv, ClosingInv
    <3> QED
      BY <2>2, <3>1 DEF ForwarderPanics, Promise!Next, Promise!Panic
  <2>3. CASE WaitReads(r)
    BY <1>6, <2>3, ReadRefines
  <2> QED
    BY <1>6, <2>1, <2>2, <2>3 DEF Forwarding
<1>7. ASSUME ~panicked, Closing PROVE [Promise!Next]_(Promise!vars)
  <2>1. CASE CloserSeesDone \/ CloserCounts \/ CloserCloses
    BY <2>1, SamePromise DEF CloserSeesDone, CloserCounts, CloserCloses
  <2>2. CASE WaitSeesClosed
    <3>1. done /\ done' /\ Phase = "waiting" /\ Phase' = "cut"
      BY <1>7, <2>2 DEF WaitSeesClosed, Phase, IInv, ClosingInv, WatchInv
    <3> QED
      BY <1>2, <2>2, <3>1 DEF WaitSeesClosed, Promise!Next, Promise!Cut
  <2> QED
    BY <1>7, <2>1, <2>2 DEF Closing
<1>8. ASSUME NEW o \in Objects, Change(o) PROVE [Promise!Next]_(Promise!vars)
  <2>1. been' = been \cup Current'
    <3>1. PICK s : status' = [status EXCEPT ![o] = s]
                   /\ been' = IF s = "current" THEN been \cup {o} ELSE been
      BY <1>8 DEF Change
    <3> QED
      BY <3>1 DEF Current, IInv, TypeOK, WatchInv
  <2>2. UNCHANGED <<done, watch, Phase>>
    BY <1>8 DEF Change, Phase
  <2>3. Promise!Change
    BY <2>1, <2>2 DEF Promise!Change, Current
  <2> QED
    BY <2>3 DEF Promise!Next
<1>9. CASE ContextDone
  BY <1>2, <1>9, StopRefines DEF ContextDone
<1> QED
  BY <1>1, <1>3, <1>4, <1>5, <1>6, <1>7, <1>8, <1>9 DEF Next

\* Every step of the goroutines is a step of the promise or changes nothing of
\* it: a wait ends when every object was Current, or when its context is done,
\* and nothing panics before the context is done.
THEOREM WaitKeepsItsPromise == Spec => Promise!Init /\ [][Promise!Next]_(Promise!vars)
  BY InitRefines, StepRefines, Invariance, PTL DEF Spec
=============================================================================
