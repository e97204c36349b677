------------------------- MODULE SSAMigrationProofs -------------------------
(***************************************************************************)
(* The migration of managed fields takes nothing from managers it does not *)
(* migrate, and a call that reports nothing leaves the object as the       *)
(* manifest has it, for any fields, managers and number of attempts,       *)
(* whatever the others write between its requests.                         *)
(***************************************************************************)
EXTENDS SSAMigration, TLAPS

\* What a patch is computed from is what the server has, as long as nobody
\* wrote: the resource version is the whole of the protection.  A dry run
\* computes it from an object that was never stored.
SeenIsTrue == pc = "migrate" /\ fresh /\ ~dryRun => seen = owners

IInv == TypeOK /\ SeenIsTrue

LEMMA AfterApplyType ==
  ASSUME NEW o \in [Managers -> SUBSET AllFields], NEW changed, config \subseteq AllFields
  PROVE  AfterApply(o, changed) \in [Managers -> SUBSET AllFields]
  BY DEF AfterApply

LEMMA UpgradedType ==
  ASSUME NEW o \in [Managers -> SUBSET AllFields], names \subseteq Updaters
  PROVE  Upgraded(o) \in [Managers -> SUBSET AllFields]
<1>1. Applied \in Managers /\ Legacy(o) \subseteq Managers
  BY DEF Managers, Legacy
<1>2. o[Applied] \cup UNION {o[n] : n \in Legacy(o)} \subseteq AllFields
  BY <1>1
<1> QED
  BY <1>2 DEF Upgraded

LEMMA StoreApplyType ==
  ASSUME TypeOK, config \subseteq AllFields, NEW changed, StoreApply(changed)
  PROVE  present' \subseteq AllFields /\ owners' \in [Managers -> SUBSET AllFields]
  BY AfterApplyType DEF StoreApply, TypeOK

LEMMA InitInv == Init => IInv
<1> SUFFICES ASSUME Init PROVE IInv
  OBVIOUS
<1>1. owners \in [Managers -> SUBSET AllFields]
  <2>1. PICK S \in SUBSET Updaters :
          owners = [m \in Managers |-> IF m \in S THEN WritesOf[m] ELSE {}]
    BY DEF Init
  <2>2. \A m \in Updaters : WritesOf[m] \subseteq AllFields
    BY SSAMigrationAssumption
  <2> QED
    BY <2>1, <2>2
<1>2. present \subseteq AllFields
  BY <1>1 DEF Init
<1>3. NobodyOwns \in [Managers -> SUBSET AllFields]
  BY DEF NobodyOwns
<1>4. config \in Configs \cup {{}} /\ tries \in 0..MaxPatchRetry
  BY SSAMigrationAssumption DEF Init
<1>5. /\ pc = "idle" /\ dryRun = FALSE /\ names = {} /\ seen = NobodyOwns /\ fresh = FALSE
      /\ answer = "none" /\ warned = FALSE /\ touched = {} /\ dryMigrated = FALSE /\ quiet = FALSE
  BY DEF Init
<1> QED
  BY <1>1, <1>2, <1>3, <1>4, <1>5 DEF IInv, TypeOK, SeenIsTrue

LEMMA NextInv == IInv /\ [Next]_vars => IInv'
<1> SUFFICES ASSUME IInv, [Next]_vars PROVE IInv'
  OBVIOUS
<1> USE DEF IInv
<1>0. config \subseteq AllFields /\ MaxPatchRetry \in Nat
  BY SSAMigrationAssumption DEF TypeOK, AllFields
<1>1. CASE ApplyLands
  <2>1. PICK changed \in SUBSET config :
          /\ IF dryRun THEN UNCHANGED serverVars ELSE StoreApply(changed)
          /\ seen' = AfterApply(owners, changed)
          /\ names' = ManagerNames(AfterApply(owners, changed))
    BY <1>1 DEF ApplyLands
  <2>2. seen' \in [Managers -> SUBSET AllFields]
    BY <1>0, <2>1, AfterApplyType DEF TypeOK
  <2>3. present' \subseteq AllFields /\ owners' \in [Managers -> SUBSET AllFields]
    BY <1>0, <2>1, StoreApplyType DEF TypeOK, serverVars
  <2>4. names' \subseteq Updaters
    BY <2>1, SSAMigrationAssumption DEF ManagerNames
  <2>5. ~dryRun => seen' = owners'
    BY <2>1 DEF StoreApply
  <2> QED
    BY <1>1, <2>2, <2>3, <2>4, <2>5 DEF ApplyLands, TypeOK, SeenIsTrue, callVars
<1>2. CASE ApplyFails
  <2>1. present' \subseteq AllFields /\ owners' \in [Managers -> SUBSET AllFields]
    BY <1>0, <1>2, StoreApplyType DEF ApplyFails, TypeOK, serverVars
  <2> QED
    BY <1>2, <2>1 DEF ApplyFails, Return, TypeOK, SeenIsTrue, callVars, infoVars
<1>3. CASE NothingToMigrate \/ TriesExhausted
  BY <1>3 DEF NothingToMigrate, TriesExhausted, Return, TypeOK, SeenIsTrue,
              serverVars, callVars, infoVars
<1>4. CASE MigrationLands
  <2>1. Upgraded(seen) \in [Managers -> SUBSET AllFields]
    BY UpgradedType DEF TypeOK
  <2> QED
    BY <1>4, <2>1 DEF MigrationLands, StoreUpgrade, TypeOK, SeenIsTrue, callVars
<1>5. CASE MigrationConflicts
  BY <1>0, <1>5 DEF MigrationConflicts, TriesLeft, TypeOK, SeenIsTrue, serverVars, callVars
<1>6. CASE MigrationFails
  <2>1. Upgraded(seen) \in [Managers -> SUBSET AllFields]
    BY UpgradedType DEF TypeOK
  <2> QED
    BY <1>6, <2>1 DEF MigrationFails, StoreUpgrade, Return, TypeOK, SeenIsTrue,
                      serverVars, callVars, infoVars
<1>7. CASE Refetches \/ RefetchFails
  BY <1>7 DEF Refetches, RefetchFails, Return, TypeOK, SeenIsTrue,
              serverVars, callVars, infoVars
<1>8. CASE Reapplies \/ ReapplyFails
  <2>1. present' \subseteq AllFields /\ owners' \in [Managers -> SUBSET AllFields]
    BY <1>0, <1>8, StoreApplyType DEF Reapplies, ReapplyFails, TypeOK, serverVars
  <2> QED
    BY <1>8, <2>1 DEF Reapplies, ReapplyFails, Return, TypeOK, SeenIsTrue,
                      serverVars, callVars, infoVars
<1>9. ASSUME NEW dry \in BOOLEAN, Call(dry) PROVE IInv'
  <2>1. NobodyOwns \in [Managers -> SUBSET AllFields]
    BY DEF NobodyOwns
  <2>2. tries' \in 0..MaxPatchRetry
    BY <1>0, <1>9 DEF Call
  <2>3. config' \in Configs \cup {{}} /\ dryRun' \in BOOLEAN
    BY <1>9 DEF Call
  <2> QED
    BY <1>9, <2>1, <2>2, <2>3 DEF Call, TypeOK, SeenIsTrue, serverVars
<1>10. ASSUME NEW m \in Updaters, NEW f \in AllFields, Update(m, f) PROVE IInv'
  <2>1. owners' \in [Managers -> SUBSET AllFields]
    BY <1>10 DEF Update, TypeOK
  <2> QED
    BY <1>10, <2>1 DEF Update, TypeOK, SeenIsTrue, callVars
<1>11. CASE Delete
  <2>1. NobodyOwns \in [Managers -> SUBSET AllFields]
    BY DEF NobodyOwns
  <2> QED
    BY <1>11, <2>1 DEF Delete, TypeOK, SeenIsTrue, callVars
<1>12. CASE QuietDown
  BY <1>12 DEF QuietDown, TypeOK, SeenIsTrue, serverVars, callVars, infoVars
<1>13. CASE UNCHANGED vars
  BY <1>13 DEF vars, TypeOK, SeenIsTrue, serverVars, callVars, infoVars
<1> QED
  BY <1>1, <1>2, <1>3, <1>4, <1>5, <1>6, <1>7, <1>8, <1>9, <1>10, <1>11, <1>12, <1>13
     DEF Next, CallStep, Migrate

\* The variables of the migration keep their types, and its attempts their
\* bound (apply.go:249-298).
THEOREM MigrationTypeCorrect == Spec => []TypeOK
<1>1. IInv => TypeOK
  BY DEF IInv
<1> QED
  BY <1>1, InitInv, NextInv, PTL DEF Spec

\* The fields of the managers that are migrated, and of nobody else, pass to
\* the entry of the applies.
LEMMA UpgradeMerges ==
  ASSUME NEW o \in [Managers -> SUBSET AllFields], names \subseteq Updaters
  PROVE  /\ \A m \in Updaters \ names : Upgraded(o)[m] = o[m]
         /\ Upgraded(o)[Applied] = o[Applied] \cup UNION {o[m] : m \in names}
<1>1. Applied \in Managers /\ Updaters \subseteq Managers /\ Applied \notin Updaters
  BY SSAMigrationAssumption DEF Managers
<1>2. UNION {o[n] : n \in Legacy(o)} = UNION {o[m] : m \in names}
  BY DEF Legacy
<1> QED
  BY <1>1, <1>2 DEF Upgraded

\* A step of the migration that changes the managed fields changes them so,
\* from the state of the server and no older one (apply.go:249-292).
LEMMA StepTakesNothing ==
  ASSUME IInv, [Next]_vars, pc = "migrate", pc' # pc, ~dryRun, owners' # owners
  PROVE  /\ \A m \in Updaters \ names : owners'[m] = owners[m]
         /\ owners'[Applied] = owners[Applied] \cup UNION {owners[m] : m \in names}
<1>1. MigrationLands \/ (MigrationFails /\ SameVersion /\ StoreUpgrade)
  BY DEF Next, CallStep, Migrate, ApplyLands, ApplyFails, NothingToMigrate, MigrationConflicts,
         MigrationFails, Refetches, RefetchFails, TriesExhausted, Reapplies, ReapplyFails,
         Call, Update, Delete, QuietDown, vars, serverVars
<1>2. owners' = Upgraded(owners)
  BY <1>1 DEF MigrationLands, StoreUpgrade, SameVersion, IInv, SeenIsTrue
<1> QED
  BY <1>2, UpgradeMerges DEF IInv, TypeOK

\* What other managers wrote while the migration was under way is never
\* overwritten, in any number of attempts (apply.go:249-292).
THEOREM MigrationIsSafe == Spec => MigrationTakesNothing
<1>1. IInv /\ [Next]_vars =>
        [pc = "migrate" /\ pc' # pc /\ ~dryRun /\ owners' # owners =>
           /\ \A m \in Updaters \ names : owners'[m] = owners[m]
           /\ owners'[Applied] = owners[Applied] \cup UNION {owners[m] : m \in names}]_vars
  BY StepTakesNothing
<1> QED
  BY <1>1, InitInv, NextInv, PTL DEF Spec, MigrationTakesNothing
-----------------------------------------------------------------------------
(* What a call leaves.                                                      *)

Owned(o) == UNION {o[m] : m \in Managers}

\* The fields of the object are the ones somebody owns.  The managed fields a
\* dry run stores are not those of the object.
Held == ~dryMigrated => present = Owned(owners)

\* From the first apply of a call on, what the manifest sets is there, but for
\* what others wrote since.
Standing == ~dryRun /\ pc \in {"migrate", "get", "reapply"} => config \ touched \subseteq present

\* What the managers to migrate own is known to the migration, or others wrote
\* it since the first apply; once migrated, they own nothing else.
Known ==
  ~dryRun =>
    /\ pc \in {"migrate", "get"} => owners[Applied] \subseteq config
    /\ pc = "migrate" => \A m \in names : owners[m] \subseteq seen[m] \cup touched
    /\ pc = "reapply" => \A m \in names : owners[m] \subseteq touched

CallInv == Held /\ Standing /\ Known

LEMMA SelfIsNoUpdater == Applied \in Managers /\ Updaters \subseteq Managers /\ Applied \notin Updaters
  BY SSAMigrationAssumption DEF Managers

LEMMA ManagerIs ==
  ASSUME NEW m \in Managers
  PROVE  m = Applied \/ m \in Updaters
  BY DEF Managers

\* An apply takes from the object what it takes from its owners.
LEMMA ApplyKeepsHeld ==
  ASSUME TypeOK, NEW changed \in SUBSET config, StoreApply(changed), present = Owned(owners)
  PROVE  present' = Owned(owners')
<1> DEFINE o == AfterApply(owners, changed)
<1>1. /\ o[Applied] = config
      /\ \A m \in Updaters : o[m] = owners[m] \ changed
  BY SelfIsNoUpdater DEF AfterApply
<1>2. owners' = o /\ present' = (present \ Dropped(owners)) \cup config
  BY DEF StoreApply
<1> HIDE DEF o
<1>3. ASSUME NEW f \in present' PROVE f \in Owned(o)
  <2>1. CASE f \in config
    BY <1>1, <2>1, SelfIsNoUpdater DEF Owned
  <2>2. CASE f \notin config
    <3>1. f \in present /\ f \notin Dropped(owners)
      BY <1>2, <1>3, <2>2
    <3>2. PICK m \in Managers : f \in owners[m]
      BY <3>1 DEF Owned
    <3>3. PICK n \in Updaters : f \in owners[n]
      BY <2>2, <3>1, <3>2, ManagerIs DEF Dropped
    <3>4. f \in o[n]
      BY <1>1, <2>2, <3>3
    <3> QED
      BY <3>4, SelfIsNoUpdater DEF Owned
  <2> QED
    BY <2>1, <2>2
<1>4. ASSUME NEW f \in Owned(o) PROVE f \in present'
  <2>1. PICK m \in Managers : f \in o[m]
    BY <1>4 DEF Owned
  <2>2. CASE m = Applied
    BY <1>1, <1>2, <2>1, <2>2
  <2>3. CASE m \in Updaters
    <3>1. f \in owners[m]
      BY <1>1, <2>1, <2>3
    <3>2. f \in present /\ f \notin Dropped(owners)
      BY <2>3, <3>1, SelfIsNoUpdater DEF Owned, Dropped
    <3> QED
      BY <1>2, <3>2
  <2> QED
    BY <2>1, <2>2, <2>3, ManagerIs
<1> QED
  BY <1>2, <1>3, <1>4

\* A migration passes fields on, and loses none.
LEMMA UpgradeKeepsOwned ==
  ASSUME TypeOK, NEW o \in [Managers -> SUBSET AllFields]
  PROVE  /\ Owned(Upgraded(o)) = Owned(o)
         /\ \A m \in names : Upgraded(o)[m] = {}
<1> DEFINE u == Upgraded(o)
<1>1. /\ \A m \in Updaters \ names : u[m] = o[m]
      /\ u[Applied] = o[Applied] \cup UNION {o[m] : m \in names}
  BY UpgradeMerges DEF TypeOK
<1>2. \A m \in names : u[m] = {}
  BY SelfIsNoUpdater DEF Upgraded, TypeOK
<1>3. names \subseteq Updaters
  BY DEF TypeOK
<1> HIDE DEF u
<1>4. ASSUME NEW f \in Owned(u) PROVE f \in Owned(o)
  <2>1. PICK m \in Managers : f \in u[m]
    BY <1>4 DEF Owned
  <2>2. CASE m = Applied
    <3>1. PICK n \in Managers : f \in o[n]
      BY <1>1, <1>3, <2>1, <2>2, SelfIsNoUpdater
    <3> QED
      BY <3>1 DEF Owned
  <2>3. CASE m \in Updaters
    BY <1>1, <1>2, <2>1, <2>3 DEF Owned
  <2> QED
    BY <2>2, <2>3, ManagerIs
<1>5. ASSUME NEW f \in Owned(o) PROVE f \in Owned(u)
  <2>1. PICK m \in Managers : f \in o[m]
    BY <1>5 DEF Owned
  <2>2. PICK n \in Managers : f \in u[n]
    BY <1>1, <2>1, ManagerIs, SelfIsNoUpdater
  <2> QED
    BY <2>2 DEF Owned
<1> QED
  BY <1>2, <1>4, <1>5 DEF u

\* The requests of a call keep the object and its owners together.
LEMMA RequestsKeepHeld ==
  ASSUME IInv, Held, CallStep
  PROVE  Held'
<1>1. ASSUME NEW changed \in SUBSET config, StoreApply(changed), dryMigrated' = dryMigrated
      PROVE  Held'
  BY <1>1, ApplyKeepsHeld DEF Held, IInv
<1>2. CASE UNCHANGED <<serverVars, dryMigrated>>
  BY <1>2 DEF Held, serverVars
<1>3. ASSUME pc = "migrate", SameVersion, StoreUpgrade PROVE Held'
  <2>1. SUFFICES ASSUME ~dryMigrated, ~dryRun PROVE present' = Owned(owners')
    BY <1>3 DEF StoreUpgrade, Held
  <2>2. owners' = Upgraded(owners) /\ present' = present /\ present = Owned(owners)
    BY <1>3, <2>1 DEF SameVersion, StoreUpgrade, IInv, SeenIsTrue, Held
  <2> QED
    BY <2>2, UpgradeKeepsOwned DEF IInv, TypeOK
<1>4. CASE ApplyLands \/ ApplyFails \/ Reapplies \/ ReapplyFails
  BY <1>1, <1>2, <1>4 DEF ApplyLands, ApplyFails, Reapplies, ReapplyFails, serverVars
<1>5. CASE MigrationLands \/ MigrationFails
  BY <1>2, <1>3, <1>5 DEF MigrationLands, MigrationFails, serverVars
<1> QED
  BY <1>2, <1>4, <1>5
     DEF CallStep, Migrate, NothingToMigrate, MigrationConflicts, Refetches, RefetchFails,
         TriesExhausted, serverVars

\* An update passes a field to who wrote it.
LEMMA UpdateKeepsHeld ==
  ASSUME IInv, Held, NEW m \in Updaters, NEW f \in AllFields, Update(m, f)
  PROVE  Held'
<1> SUFFICES ASSUME ~dryMigrated PROVE present' = Owned(owners')
  BY DEF Held, Update
<1>1. /\ present = Owned(owners) /\ present' = present \cup {f}
      /\ owners' = [n \in Managers |-> IF n = m THEN owners[n] \cup {f} ELSE owners[n] \ {f}]
  BY DEF Held, Update
<1>2. m \in Managers
  BY SelfIsNoUpdater
<1>3. ASSUME NEW g \in present' PROVE g \in Owned(owners')
  <2>1. PICK n \in Managers : g \in owners'[n]
    <3>1. CASE g = f
      BY <1>1, <1>2, <3>1
    <3>2. CASE g # f
      <4>1. PICK n \in Managers : g \in owners[n]
        BY <1>1, <1>3, <3>2 DEF Owned
      <4> QED
        BY <1>1, <3>2, <4>1
    <3> QED
      BY <3>1, <3>2
  <2> QED
    BY <2>1 DEF Owned
<1>4. ASSUME NEW g \in Owned(owners') PROVE g \in present'
  <2>1. PICK n \in Managers : g \in owners'[n]
    BY <1>4 DEF Owned
  <2>2. g \in owners[n] \/ g = f
    BY <1>1, <2>1
  <2> QED
    BY <1>1, <2>1, <2>2 DEF Owned
<1> QED
  BY <1>3, <1>4

LEMMA NobodyOwnsNothing == Owned(NobodyOwns) = {}
  BY DEF Owned, NobodyOwns

LEMMA HeldStep == IInv /\ Held /\ [Next]_vars => Held'
<1> SUFFICES ASSUME IInv, Held, [Next]_vars PROVE Held'
  OBVIOUS
<1>1. CASE Delete
  BY <1>1, NobodyOwnsNothing DEF Delete, Held
<1>2. CASE UNCHANGED <<serverVars, dryMigrated>>
  BY <1>2 DEF Held, serverVars
<1> QED
  BY <1>1, <1>2, RequestsKeepHeld, UpdateKeepsHeld DEF Next, Call, QuietDown, vars

\* The requests of a call keep what it knows of the managers to migrate.
LEMMA RequestsKeepKnown ==
  ASSUME IInv, Standing, Known, CallStep
  PROVE  Standing' /\ Known'
<1>1. CASE ApplyLands
  <2>1. SUFFICES ASSUME ~dryRun PROVE Standing' /\ Known'
    BY <1>1 DEF ApplyLands, Standing, Known, callVars
  <2>2. PICK changed \in SUBSET config :
          StoreApply(changed) /\ seen' = AfterApply(owners, changed)
    BY <1>1, <2>1 DEF ApplyLands
  <2>3. owners'[Applied] = config /\ seen' = owners' /\ config \subseteq present'
    BY <2>2, SelfIsNoUpdater DEF StoreApply, AfterApply
  <2> QED
    BY <1>1, <2>3 DEF ApplyLands, Standing, Known, callVars
<1>2. CASE MigrationLands
  <2>1. SUFFICES ASSUME ~dryRun PROVE Standing' /\ Known'
    BY <1>2 DEF MigrationLands, Standing, Known, callVars
  <2>2. \A m \in names : owners'[m] = {}
    BY <1>2, UpgradeKeepsOwned DEF MigrationLands, StoreUpgrade, IInv, TypeOK
  <2>3. config' \ touched' \subseteq present'
    BY <1>2, <2>1 DEF MigrationLands, StoreUpgrade, Standing, callVars
  <2> QED
    BY <1>2, <2>2, <2>3 DEF MigrationLands, Standing, Known, callVars
<1>3. CASE MigrationConflicts
  BY <1>3 DEF MigrationConflicts, Standing, Known, serverVars, callVars
<1>4. CASE Refetches
  BY <1>4 DEF Refetches, Standing, Known, serverVars, callVars
<1>5. CASE pc' = "idle"
  BY <1>5 DEF Standing, Known
<1> QED
  BY <1>1, <1>2, <1>3, <1>4, <1>5
     DEF CallStep, Migrate, ApplyFails, NothingToMigrate, MigrationFails, RefetchFails,
         TriesExhausted, Reapplies, ReapplyFails, Return

LEMMA OthersKeepKnown ==
  ASSUME IInv, Standing, Known, NEW m \in Updaters, NEW f \in AllFields, Update(m, f)
  PROVE  Standing' /\ Known'
<1>1. /\ present' = present \cup {f} /\ touched' = touched \cup {f}
      /\ owners' = [n \in Managers |-> IF n = m THEN owners[n] \cup {f} ELSE owners[n] \ {f}]
      /\ UNCHANGED <<pc, config, dryRun, names, seen>>
  BY DEF Update, callVars
<1>2. owners'[Applied] \subseteq owners[Applied]
  BY <1>1, SelfIsNoUpdater
<1>3. \A n \in names : owners'[n] \subseteq owners[n] \cup {f}
  BY <1>1, SelfIsNoUpdater DEF IInv, TypeOK
<1>4. Standing'
  BY <1>1 DEF Standing
<1>5. Known'
  <2> SUFFICES ASSUME ~dryRun PROVE Known'
    BY <1>1 DEF Known
  <2>1. pc \in {"migrate", "get"} => owners'[Applied] \subseteq config
    BY <1>2 DEF Known
  <2>2. pc = "migrate" => \A n \in names : owners'[n] \subseteq seen[n] \cup touched'
    BY <1>1, <1>3 DEF Known
  <2>3. pc = "reapply" => \A n \in names : owners'[n] \subseteq touched'
    BY <1>1, <1>3 DEF Known
  <2> QED
    BY <1>1, <2>1, <2>2, <2>3 DEF Known
<1> QED
  BY <1>4, <1>5

LEMMA KnownStep == IInv /\ Standing /\ Known /\ [Next]_vars => Standing' /\ Known'
<1> SUFFICES ASSUME IInv, Standing, Known, [Next]_vars PROVE Standing' /\ Known'
  OBVIOUS
<1>1. CASE Delete
  <2>1. \A m \in Managers : owners'[m] = {}
    BY <1>1 DEF Delete, NobodyOwns
  <2>2. config \subseteq AllFields
    BY SSAMigrationAssumption DEF IInv, TypeOK, AllFields
  <2>3. \A m \in names : owners'[m] = {}
    BY <2>1, SelfIsNoUpdater DEF IInv, TypeOK
  <2>4. owners'[Applied] = {}
    BY <2>1, SelfIsNoUpdater
  <2> QED
    BY <1>1, <2>2, <2>3, <2>4 DEF Delete, Standing, Known, callVars
<1>2. CASE UNCHANGED <<serverVars, pc, callVars, infoVars, touched>>
  BY <1>2 DEF Standing, Known, serverVars, callVars, infoVars
<1>3. ASSUME NEW dry \in BOOLEAN, Call(dry) PROVE Standing' /\ Known'
  BY <1>3 DEF Call, Standing, Known
<1> QED
  BY <1>1, <1>2, <1>3, RequestsKeepKnown, OthersKeepKnown DEF Next, QuietDown, vars

LEMMA CallInit == Init => CallInv
  BY DEF Init, CallInv, Held, Owned, Standing, Known

LEMMA CallInvStep == IInv /\ CallInv /\ [Next]_vars => CallInv'
  BY HeldStep, KnownStep DEF CallInv

\* What nobody but the managers to migrate and the applies may own is in the
\* manifest, or was written by others.
LEMMA OwnedByOthers ==
  ASSUME NEW o, NEW f \in Owned(o), NEW known, NEW left, f \notin known, f \notin left,
         o[Applied] \subseteq known, \A m \in names : o[m] \subseteq left
  PROVE  \E m \in Updaters \ names : f \in o[m]
<1>1. PICK m \in Managers : f \in o[m]
  BY DEF Owned
<1> QED
  BY <1>1, ManagerIs

LEMMA EndStands ==
  ASSUME IInv, CallInv, CallInv', [Next]_vars, pc # "idle", pc' = "idle",
         answer' = "successful", ~warned', ~dryRun, ~dryMigrated, tries < MaxPatchRetry
  PROVE  /\ config \ touched \subseteq present'
         /\ \A f \in present' \ (config \cup touched) :
              \E m \in Updaters \ names : f \in owners'[m]
<1>1. NothingToMigrate \/ Reapplies
  BY DEF Next, CallStep, Migrate, ApplyLands, ApplyFails, MigrationLands, MigrationConflicts,
         MigrationFails, Refetches, RefetchFails, TriesExhausted, TriesLeft, ReapplyFails,
         Return, Call, Update, Delete, QuietDown, vars
<1>2. CASE NothingToMigrate
  <2>1. /\ pc = "migrate" /\ Legacy(seen) = {}
        /\ present' = present /\ owners' = owners
    BY <1>2 DEF NothingToMigrate, serverVars
  <2>2. config \ touched \subseteq present /\ present = Owned(owners)
        /\ owners[Applied] \subseteq config
        /\ \A m \in names : owners[m] \subseteq seen[m] \cup touched
    BY <2>1 DEF CallInv, Held, Standing, Known
  <2>3. \A m \in names : owners[m] \subseteq touched
    BY <2>1, <2>2 DEF Legacy
  <2> QED
    BY <2>1, <2>2, <2>3, OwnedByOthers
<1>3. CASE Reapplies
  <2>1. PICK changed \in SUBSET config : StoreApply(changed)
    BY <1>3 DEF Reapplies
  <2>2. /\ config \subseteq present' /\ owners'[Applied] = config
        /\ \A m \in Updaters : owners'[m] \subseteq owners[m]
    BY <2>1, SelfIsNoUpdater DEF StoreApply, AfterApply
  <2>3. \A m \in names : owners'[m] \subseteq touched
    BY <1>3, <2>2 DEF Reapplies, CallInv, Known, IInv, TypeOK
  <2>4. present' = Owned(owners')
    BY <2>1, ApplyKeepsHeld DEF CallInv, Held, IInv
  <2> QED
    BY <2>2, <2>3, <2>4, OwnedByOthers
<1> QED
  BY <1>1, <1>2, <1>3

\* Whatever others write between the requests of a call, and however often its
\* patch meets a conflict: a call that reports nothing leaves what the manifest
\* sets, and no field the managers it migrates had from an older manifest
\* (apply.go:184-200).
THEOREM ManifestIsApplied == Spec => ManifestStands
<1>1. IInv /\ CallInv /\ CallInv' /\ [Next]_vars =>
        [pc # "idle" /\ pc' = "idle" /\ answer' = "successful" /\ ~warned'
           /\ ~dryRun /\ ~dryMigrated /\ tries < MaxPatchRetry =>
             /\ config \ touched \subseteq present'
             /\ \A f \in present' \ (config \cup touched) :
                  \E m \in Updaters \ names : f \in owners'[m]]_vars
  BY EndStands
<1> QED
  BY <1>1, InitInv, NextInv, CallInit, CallInvStep, PTL DEF Spec, ManifestStands
=============================================================================
