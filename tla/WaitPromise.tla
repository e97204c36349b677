---------------------------- MODULE WaitPromise ----------------------------
(***************************************************************************)
(* What a wait promises to the run that started it (WaitTask.Run in        *)
(* pkg/runner/task/wait.go over the poller.StatusPoller interface).  The   *)
(* wait is over as soon as every object was Current once, whatever became  *)
(* of it since, or once the context it polls under is done; it never ends  *)
(* for another reason, and nothing panics before the context is done.      *)
(***************************************************************************)
CONSTANT Objects

VARIABLES
  current,  \* what the controllers report as Current
  been,     \* what was Current at some time of the wait
  done,     \* whether the context of the poller is done
  watch,    \* what the wait has yet to see
  phase     \* "waiting", "reconciled", "cut" or "panicked"

vars == <<current, been, done, watch, phase>>

Init ==
  /\ current \in SUBSET Objects
  /\ been = current
  /\ done = FALSE
  /\ watch = Objects
  /\ phase = "waiting"

Change ==
  /\ current' \in SUBSET Objects
  /\ been' = been \cup current'
  /\ UNCHANGED <<done, watch, phase>>

Stop == ~done /\ done' = TRUE /\ UNCHANGED <<current, been, watch, phase>>

See(o) ==
  /\ phase = "waiting" /\ o \in watch \cap been
  /\ watch' = watch \ {o}
  /\ IF watch = {o} THEN phase' = "reconciled" /\ done' = TRUE
                    ELSE UNCHANGED <<phase, done>>
  /\ UNCHANGED <<current, been>>

SeeCurrent(o) == o \in current /\ See(o)

Cut ==
  /\ phase = "waiting" /\ done
  /\ phase' = "cut"
  /\ UNCHANGED <<current, been, done, watch>>

Panic ==
  /\ phase # "panicked" /\ done
  /\ phase' = "panicked"
  /\ UNCHANGED <<current, been, done, watch>>

Next == Change \/ Stop \/ (\E o \in Objects : See(o)) \/ Cut \/ Panic

\* A wait whose context is done ends, and an object that stays Current is seen.
Fairness ==
  /\ WF_vars(Cut)
  /\ \A o \in Objects : WF_vars(SeeCurrent(o))

Spec == Init /\ [][Next]_vars /\ Fairness
=============================================================================
