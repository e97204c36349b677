--------------------------- MODULE StatusPolling ---------------------------
(***************************************************************************)
(* One wait, goroutine by goroutine: WaitTask.Run reads the channel of the *)
(* default status poller, whose informerMultiplexer starts one informer    *)
(* for each kind and namespace, whose events a forwarding goroutine of the *)
(* channel multiplexer copies into the one channel, which its closer       *)
(* closes (pkg/poller, pkg/runner/task/wait.go).  Channels are unbuffered: *)
(* a send and the receive it meets are one step.                           *)
(*                                                                         *)
(* im.context is all the goroutines look at, so one variable stands for    *)
(* it: its parent ends it, WaitTask and the multiplexer cancel it.         *)
(***************************************************************************)
EXTENDS Naturals

CONSTANTS
  Objects,     \* what the wait was asked to watch
  Resources,   \* the informers it takes: a kind and a namespace each
  ResourceOf,  \* the resource of an object
  Unserved,    \* sets of resources whose kind the RESTMapper may not know
  NoObject,    \* the zero ObjectMetadata of an error event
  MaxChanges   \* bound: changes of status in the cluster

\* A wait with nothing to watch starts no poller (wait.go:60-63).
ASSUME PollingAssumption ==
  /\ Objects # {}
  /\ ResourceOf \in [Objects -> Resources]
  /\ \A r \in Resources : \E o \in Objects : ResourceOf[o] = r
  /\ Unserved \subseteq SUBSET Resources
  /\ NoObject \notin Objects
  /\ MaxChanges \in Nat

VARIABLES
  status,     \* of each object in the cluster
  been,       \* ghost: the objects that were Current at some time
  changes,    \* how often a status has changed
  notServed,  \* resources whose kind the RESTMapper does not know
  done,       \* whether im.context is done
  starter,    \* where the goroutine of startInformer is
  told,       \* the status the event handler was last called with
  handler,    \* where the event handler of an informer is
  reporting,  \* the event it is sending
  reflector,  \* where the informer that calls the handler is
  forwarder,  \* where the goroutine of AddChannel is
  carried,    \* the event it has received
  closer,     \* where the goroutine of newMultiplexer is
  wait,       \* "reading" the channel, or "left"
  watch,      \* WaitTask.objectsToWatch
  panicked    \* whether an event was sent on the closed channel

clusterVars  == <<status, been, changes, notServed>>
informerVars == <<told, handler, reporting, reflector>>
vars == <<clusterVars, done, starter, informerVars, forwarder, carried, closer,
          wait, watch, panicked>>

Event(o, s) == [obj |-> o, status |-> s]
ErrorEvent == Event(NoObject, "error")

\* Mutant: the status of a deleted object is passed on as it is.
EventForWithoutDeletion(o) ==
  CASE status[o] = "current" -> Event(o, "successful")
    [] status[o] \in {"pending", "deleted", "failed"} -> Event(o, status[o])
    [] status[o] = "unreadable" -> ErrorEvent

\* statusCheck and eventFromResult: the deletion of an object is a pending
\* event, and an object a checker cannot read is an error.
EventFor(o) ==
  CASE status[o] = "current" -> Event(o, "successful")
    [] status[o] \in {"pending", "deleted"} -> Event(o, "pending")
    [] status[o] = "failed" -> Event(o, "failed")
    [] status[o] = "unreadable" -> ErrorEvent

-----------------------------------------------------------------------------
(* The cluster and the caller's context.                                    *)

Change(o) ==
  /\ changes < MaxChanges
  /\ changes' = changes + 1
  /\ \E s \in {"current", "pending", "failed", "deleted", "unreadable"} \ {status[o]} :
       /\ status' = [status EXCEPT ![o] = s]
       /\ been' = IF s = "current" THEN been \cup {o} ELSE been
  /\ UNCHANGED <<notServed, done, starter, informerVars, forwarder, carried,
                 closer, wait, watch, panicked>>

ContextDone ==
  /\ ~done /\ done' = TRUE
  /\ UNCHANGED <<clusterVars, starter, informerVars, forwarder, carried, closer,
                 wait, watch, panicked>>

-----------------------------------------------------------------------------
(* informerMultiplexer.startInformer, under informersMapLock.               *)

LockFree == \A r \in Resources : starter[r] \in {"waiting", "ended"}

StarterMaps(r) ==
  /\ starter[r] = "waiting" /\ LockFree
  /\ starter' = [starter EXCEPT ![r] = IF r \in notServed THEN "unmapped" ELSE "mapped"]
  /\ UNCHANGED <<clusterVars, done, informerVars, forwarder, carried, closer,
                 wait, watch, panicked>>

\* AddChannel reads the context...
StarterChecks(r) ==
  /\ starter[r] \in {"mapped", "unmapped"}
  /\ starter' = [starter EXCEPT ![r] = IF done THEN "ended"
                                       ELSE IF @ = "mapped" THEN "adding"
                                       ELSE "addingError"]
  /\ UNCHANGED <<clusterVars, done, informerVars, forwarder, carried, closer,
                 wait, watch, panicked>>

\* ... and counts the channel afterwards, and starts its goroutine.
StarterAdds(r) ==
  /\ starter[r] \in {"adding", "addingError"}
  /\ forwarder' = [forwarder EXCEPT ![r] = "receiving"]
  /\ IF starter[r] = "adding"
       THEN /\ starter' = [starter EXCEPT ![r] = "ended"]
            /\ reflector' = [reflector EXCEPT ![r] = "running"]
       ELSE /\ starter' = [starter EXCEPT ![r] = "sending"]
            /\ UNCHANGED reflector
  /\ UNCHANGED <<clusterVars, done, told, handler, reporting, carried, closer,
                 wait, watch, panicked>>

\* The unbuffered channel of resource r takes an event.
Receives(r, e) ==
  /\ forwarder[r] = "receiving"
  /\ forwarder' = [forwarder EXCEPT ![r] = "sending"]
  /\ carried' = [carried EXCEPT ![r] = e]

StarterSends(r) ==
  /\ starter[r] = "sending"
  /\ Receives(r, ErrorEvent)
  /\ starter' = [starter EXCEPT ![r] = "stopping"]
  /\ UNCHANGED <<clusterVars, done, informerVars, closer, wait, watch, panicked>>

\* handleInformerError stops the multiplexer; then errorCh is closed.
StarterStops(r) ==
  /\ starter[r] = "stopping"
  /\ done' = TRUE
  /\ starter' = [starter EXCEPT ![r] = "ended"]
  /\ UNCHANGED <<clusterVars, informerVars, forwarder, carried, closer, wait,
                 watch, panicked>>

-----------------------------------------------------------------------------
(* The informer of a resource: its event handler, and its reflector.        *)

\* Mutant: the handler does not read the context again.
NotifiesWhenDone(o) ==
  LET r == ResourceOf[o] IN
  /\ reflector[r] # "off" /\ handler[r] = "idle"
  /\ status[o] # told[o]
  /\ told' = [told EXCEPT ![o] = status[o]]
  /\ reporting' = [reporting EXCEPT ![r] = EventFor(o)]
  /\ handler' = [handler EXCEPT ![r] = "sending"]
  /\ UNCHANGED <<clusterVars, done, starter, reflector, forwarder, carried,
                 closer, wait, watch, panicked>>

\* The handler is called with a status it was not told yet; once the context
\* is done it returns at once.
Notifies(o) ==
  LET r == ResourceOf[o] IN
  /\ reflector[r] # "off" /\ handler[r] = "idle" /\ ~done
  /\ status[o] # told[o]
  /\ told' = [told EXCEPT ![o] = status[o]]
  /\ reporting' = [reporting EXCEPT ![r] = EventFor(o)]
  /\ handler' = [handler EXCEPT ![r] = "sending"]
  /\ UNCHANGED <<clusterVars, done, starter, reflector, forwarder, carried,
                 closer, wait, watch, panicked>>

HandlerSends(r) ==
  /\ handler[r] = "sending"
  /\ Receives(r, reporting[r])
  /\ handler' = [handler EXCEPT ![r] = IF reporting[r] = ErrorEvent
                                       THEN "stopping" ELSE "idle"]
  /\ UNCHANGED <<clusterVars, done, starter, told, reporting, reflector, closer,
                 wait, watch, panicked>>

HandlerStops(r) ==
  /\ handler[r] = "stopping"
  /\ done' = TRUE
  /\ handler' = [handler EXCEPT ![r] = "idle"]
  /\ UNCHANGED <<clusterVars, starter, told, reporting, reflector, forwarder,
                 carried, closer, wait, watch, panicked>>

\* A list or a watch is Forbidden: the watch error handler reports it.
WatchForbidden(r) ==
  /\ reflector[r] = "running" /\ ~done
  /\ reflector' = [reflector EXCEPT ![r] = "sending"]
  /\ UNCHANGED <<clusterVars, done, starter, told, handler, reporting, forwarder,
                 carried, closer, wait, watch, panicked>>

ReflectorSends(r) ==
  /\ reflector[r] = "sending"
  /\ Receives(r, ErrorEvent)
  /\ reflector' = [reflector EXCEPT ![r] = "stopping"]
  /\ UNCHANGED <<clusterVars, done, starter, told, handler, reporting, closer,
                 wait, watch, panicked>>

ReflectorStops(r) ==
  /\ reflector[r] = "stopping"
  /\ done' = TRUE
  /\ reflector' = [reflector EXCEPT ![r] = "running"]
  /\ UNCHANGED <<clusterVars, starter, told, handler, reporting, forwarder,
                 carried, closer, wait, watch, panicked>>

\* informer.Run returns when both are through, and its channel is closed.
InformerEnds(r) ==
  /\ reflector[r] = "running" /\ handler[r] = "idle" /\ done
  /\ reflector' = [reflector EXCEPT ![r] = "off"]
  /\ UNCHANGED <<clusterVars, done, starter, told, handler, reporting, forwarder,
                 carried, closer, wait, watch, panicked>>

-----------------------------------------------------------------------------
(* The channel multiplexer.                                                 *)

\* The channel of r is closed: by its starter or when its informer has ended.
ChannelClosed(r) == starter[r] = "ended" /\ reflector[r] = "off"

ForwarderEnds(r) ==
  /\ forwarder[r] = "receiving" /\ ChannelClosed(r)
  /\ forwarder' = [forwarder EXCEPT ![r] = "ended"]
  /\ UNCHANGED <<clusterVars, done, starter, informerVars, carried, closer, wait,
                 watch, panicked>>

ForwarderPanics(r) ==
  /\ forwarder[r] = "sending" /\ closer = "closed"
  /\ panicked' = TRUE
  /\ UNCHANGED <<clusterVars, done, starter, informerVars, forwarder, carried,
                 closer, wait, watch>>

CloserSeesDone ==
  /\ closer = "polling" /\ done
  /\ closer' = "counting"
  /\ UNCHANGED <<clusterVars, done, starter, informerVars, forwarder, carried,
                 wait, watch, panicked>>

\* Mutant: the counter starts at the number of resources.
CounterOfAllIsZero == \A r \in Resources : forwarder[r] = "ended"

\* atomicCounter: the goroutines of AddChannel that have not returned.
CounterIsZero == \A r \in Resources : forwarder[r] \in {"none", "ended"}

CloserCounts ==
  /\ closer = "counting" /\ CounterIsZero
  /\ closer' = "closing"
  /\ UNCHANGED <<clusterVars, done, starter, informerVars, forwarder, carried,
                 wait, watch, panicked>>

CloserCloses ==
  /\ closer = "closing"
  /\ closer' = "closed"
  /\ UNCHANGED <<clusterVars, done, starter, informerVars, forwarder, carried,
                 wait, watch, panicked>>

-----------------------------------------------------------------------------
(* WaitTask.Run.                                                            *)

\* Mutant: any event of an object counts as its reconciliation.
WaitReadsAnyStatus(r) ==
  LET e == carried[r] IN
  /\ wait = "reading" /\ forwarder[r] = "sending" /\ closer # "closed"
  /\ forwarder' = [forwarder EXCEPT ![r] = "receiving"]
  /\ watch' = watch \ {e.obj}
  /\ IF watch' = {} THEN wait' = "left" /\ done' = TRUE ELSE UNCHANGED <<wait, done>>
  /\ UNCHANGED <<clusterVars, starter, informerVars, carried, closer, panicked>>

\* An event for an object no longer watched is dropped, and so is an error; the
\* wait cancels its context and leaves after the last object.
WaitReads(r) ==
  LET e == carried[r] IN
  /\ wait = "reading" /\ forwarder[r] = "sending" /\ closer # "closed"
  /\ forwarder' = [forwarder EXCEPT ![r] = "receiving"]
  /\ watch' = IF e.status = "successful" THEN watch \ {e.obj} ELSE watch
  /\ IF watch' = {} THEN wait' = "left" /\ done' = TRUE ELSE UNCHANGED <<wait, done>>
  /\ UNCHANGED <<clusterVars, starter, informerVars, carried, closer, panicked>>

WaitSeesClosed ==
  /\ wait = "reading" /\ closer = "closed"
  /\ wait' = "left" /\ done' = TRUE
  /\ UNCHANGED <<clusterVars, starter, informerVars, forwarder, carried, closer,
                 watch, panicked>>

-----------------------------------------------------------------------------
Init ==
  /\ status \in [Objects -> {"pending", "current", "deleted"}]
  /\ been = {o \in Objects : status[o] = "current"} /\ changes = 0
  /\ notServed \in Unserved
  /\ done = FALSE
  /\ starter = [r \in Resources |-> "waiting"]
  /\ told = [o \in Objects |-> "deleted"]
  /\ handler = [r \in Resources |-> "idle"]
  /\ reporting = [r \in Resources |-> ErrorEvent]
  /\ reflector = [r \in Resources |-> "off"]
  /\ forwarder = [r \in Resources |-> "none"]
  /\ carried = [r \in Resources |-> ErrorEvent]
  /\ closer = "polling"
  /\ wait = "reading" /\ watch = Objects
  /\ panicked = FALSE

\* The steps of the program, which the scheduler owes to each goroutine.
Starting(r)   == StarterMaps(r) \/ StarterChecks(r) \/ StarterAdds(r)
                   \/ StarterSends(r) \/ StarterStops(r)
Handling(r)   == HandlerSends(r) \/ HandlerStops(r)
                   \/ \E o \in Objects : ResourceOf[o] = r /\ Notifies(o)
Reflecting(r) == ReflectorSends(r) \/ ReflectorStops(r) \/ InformerEnds(r)
Forwarding(r) == ForwarderEnds(r) \/ ForwarderPanics(r) \/ WaitReads(r)
Closing       == CloserSeesDone \/ CloserCounts \/ CloserCloses \/ WaitSeesClosed

Next ==
  /\ ~panicked
  /\ \/ \E r \in Resources : Starting(r) \/ Handling(r) \/ Reflecting(r)
                               \/ Forwarding(r) \/ WatchForbidden(r)
     \/ Closing
     \/ \E o \in Objects : Change(o)
     \/ ContextDone

Running(A) == ~panicked /\ A

Fairness ==
  /\ \A r \in Resources :
       /\ WF_vars(Running(Starting(r)))
       /\ WF_vars(Running(Handling(r)))
       /\ WF_vars(Running(Reflecting(r)))
       /\ WF_vars(Running(Forwarding(r)))
  /\ WF_vars(Running(Closing))

Spec == Init /\ [][Next]_vars /\ Fairness

-----------------------------------------------------------------------------
(* Properties.                                                              *)

Events == [obj : Objects, status : {"successful", "pending", "failed"}] \cup {ErrorEvent}

Statuses == {"current", "pending", "failed", "deleted", "unreadable"}

TypeOK ==
  /\ status \in [Objects -> Statuses] /\ told \in [Objects -> Statuses]
  /\ been \subseteq Objects /\ changes \in 0..MaxChanges
  /\ notServed \in Unserved
  /\ done \in BOOLEAN /\ panicked \in BOOLEAN
  /\ starter \in [Resources -> {"waiting", "mapped", "unmapped", "adding",
                               "addingError", "sending", "stopping", "ended"}]
  /\ handler \in [Resources -> {"idle", "sending", "stopping"}]
  /\ reflector \in [Resources -> {"off", "running", "sending", "stopping"}]
  /\ forwarder \in [Resources -> {"none", "receiving", "sending", "ended"}]
  /\ reporting \in [Resources -> Events] /\ carried \in [Resources -> Events]
  /\ closer \in {"polling", "counting", "closing", "closed"}
  /\ wait \in {"reading", "left"} /\ watch \subseteq Objects

\* Only the report that a kind is not served can meet the closed channel: the
\* handlers read the context again before they send, so that no ordinary event
\* of an informer that was added too late does (informerMultiplexer.go:172).
EventsNeverPanic ==
  panicked => \E r \in notServed : forwarder[r] = "sending" /\ carried[r] = ErrorEvent

\* How far the wait is, for the run that started it.
Phase ==
  IF panicked THEN "panicked"
  ELSE IF wait = "reading" THEN "waiting"
  ELSE IF watch = {} THEN "reconciled" ELSE "cut"

Promise == INSTANCE WaitPromise
  WITH current <- {o \in Objects : status[o] = "current"}, phase <- Phase

\* The wait does what it promises to the run (WaitPromise): it ends when every
\* object was Current once, or when its context is done, for no other reason,
\* and it does end then, whatever the goroutines are blocked on.
KeepsPromise == Promise!Spec

-----------------------------------------------------------------------------
(* What the comments say, and the code does not do.                         *)

\* "the channel will remain open until all currently started informer will send
\* their last message" (informerMultiplexer.go:90-91): it is closed after that.
ClosedAfterStop == done ~> closer = "closed" \/ panicked
=============================================================================
