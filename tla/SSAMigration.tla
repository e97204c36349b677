---------------------------- MODULE SSAMigration ----------------------------
(***************************************************************************)
(* applyObject and migrateToSSAIfNecessary (pkg/runner/task/apply.go): one *)
(* object, applied again and again by one field manager, next to managers  *)
(* that update it with other requests.  The object is the set of its       *)
(* fields and who owns them; a resource version is abstracted to whether   *)
(* the one of info.Object is still the one of the server.                  *)
(***************************************************************************)
EXTENDS Naturals, FiniteSets

CONSTANTS
  Fields,        \* the fields a manifest may set
  LastApplied,   \* the annotation of kubectl's client-side apply, a field too
  Configs,       \* the manifests: sets of Fields
  Updaters,      \* managers that own fields by updates ...
  Self,          \* ... one of them the field manager of jpl, from older tools
  WritesOf,      \* the fields each of them writes
  Applied,       \* the entry of the field manager of jpl for its applies
  MaxPatchRetry  \* maxPatchRetry

AllFields == Fields \cup {LastApplied}
Managers  == Updaters \cup {Applied}

ASSUME SSAMigrationAssumption ==
  /\ LastApplied \notin Fields
  /\ Configs \subseteq SUBSET Fields
  /\ Self \in Updaters /\ Applied \notin Updaters
  /\ WritesOf \in [Updaters -> SUBSET AllFields]
  /\ MaxPatchRetry \in Nat

VARIABLES
  present,   \* the fields of the object; it does not exist without any
  owners,    \* metadata.managedFields: the fields each manager owns
  pc,        \* "idle", or the request applyObject sends next
  config,    \* the fields of the manifest
  dryRun,    \* ApplyTask.DryRun
  names,     \* managerNames
  seen,      \* the managed fields of info.Object
  fresh,     \* whether its resourceVersion is the one of the server
  tries,     \* migration patches answered with a conflict
  answer,    \* the status of the last call
  warned,    \* whether it printed a warning of the migration
  \* ghosts
  touched,   \* fields others wrote since the first patch of the call
  dryMigrated, \* whether a dry run has written managed fields
  quiet      \* nobody else writes the object any more, no request fails

serverVars == <<present, owners>>
infoVars   == <<names, seen, fresh, tries>>
callVars   == <<config, dryRun>>
vars == <<serverVars, pc, callVars, infoVars, answer, warned, touched,
          dryMigrated, quiet>>

NobodyOwns == [m \in Managers |-> {}]

-----------------------------------------------------------------------------
(* The server: external, modelled from the requests the code makes.         *)

\* What a forced server-side apply makes of the managed fields o: the other
\* managers lose the fields whose value it changed.
AfterApply(o, changed) ==
  [m \in Managers |-> IF m = Applied THEN config ELSE o[m] \ changed]

\* It removes the fields the manager applied before and nobody else owns.
Dropped(o) == {f \in o[Applied] \ config : \A m \in Updaters : f \notin o[m]}

StoreApply(changed) ==
  /\ owners' = AfterApply(owners, changed)
  /\ present' = (present \ Dropped(owners)) \cup config

\* Somebody else writes a field with an update, and alone owns it then.
Update(m, f) ==
  /\ ~quiet /\ f \in WritesOf[m]
  /\ present' = present \cup {f}
  /\ owners' = [n \in Managers |-> IF n = m THEN owners[n] \cup {f} ELSE owners[n] \ {f}]
  /\ fresh' = FALSE
  /\ touched' = touched \cup {f}
  /\ UNCHANGED <<pc, callVars, names, seen, tries, answer, warned, dryMigrated, quiet>>

Delete ==
  /\ ~quiet /\ present # {}
  /\ present' = {} /\ owners' = NobodyOwns
  /\ fresh' = FALSE
  /\ touched' = AllFields
  /\ UNCHANGED <<pc, callVars, names, seen, tries, answer, warned, dryMigrated, quiet>>

QuietDown ==
  /\ quiet' = TRUE
  /\ UNCHANGED <<serverVars, pc, callVars, infoVars, answer, warned, touched, dryMigrated>>

-----------------------------------------------------------------------------
(* applyObject                                                              *)

Call(dry) ==
  /\ pc = "idle"
  /\ pc' = "apply"
  /\ config' \in Configs
  /\ dryRun' = dry
  /\ names' = {} /\ seen' = NobodyOwns /\ fresh' = FALSE /\ tries' = 0
  /\ answer' = "none" /\ warned' = FALSE /\ touched' = {}
  /\ UNCHANGED <<serverVars, dryMigrated, quiet>>

Return(status, warning) ==
  /\ pc' = "idle"
  /\ answer' = status
  /\ warned' = warning

\* Mutant: only the field manager of the run is migrated.
OnlyOwnName(o) == {Self}

\* csaupgrade.FindFieldsOwners, and the field manager itself.
ManagerNames(o) == {Self} \cup {m \in Updaters : LastApplied \in o[m]}

\* The reply of a dry run shows what would be, under the version there is.
ApplyLands ==
  /\ pc = "apply"
  /\ \E changed \in SUBSET config :
       /\ IF dryRun THEN UNCHANGED serverVars ELSE StoreApply(changed)
       /\ seen' = AfterApply(owners, changed)
       /\ names' = ManagerNames(AfterApply(owners, changed))
  /\ fresh' = TRUE
  /\ touched' = {}
  /\ pc' = "migrate"
  /\ UNCHANGED <<callVars, tries, answer, warned, dryMigrated, quiet>>

\* The request fails; or it was served, and the reply is lost.
ApplyFails ==
  /\ pc = "apply" /\ ~quiet
  /\ \/ UNCHANGED serverVars
     \/ ~dryRun /\ \E changed \in SUBSET config : StoreApply(changed)
  /\ Return("failed", FALSE)
  /\ UNCHANGED <<callVars, infoVars, touched, dryMigrated, quiet>>

-----------------------------------------------------------------------------
(* migrateToSSAIfNecessary                                                  *)

\* Mutant: one attempt too many.
TriesLeftAndOne == tries <= MaxPatchRetry

TriesLeft == tries < MaxPatchRetry

Legacy(o) == {m \in names : o[m] # {}}

\* csaupgrade.UpgradeManagedFieldsPatch: the legacy entries are merged into
\* the one of the applies.  There is nothing to do without legacy entries.
Upgraded(o) ==
  [m \in Managers |-> CASE m = Applied  -> o[m] \cup UNION {o[n] : n \in Legacy(o)}
                        [] m \in names  -> {}
                        [] OTHER        -> o[m]]

NothingToMigrate ==
  /\ pc = "migrate" /\ TriesLeft /\ Legacy(seen) = {}
  /\ Return("successful", FALSE)
  /\ UNCHANGED <<serverVars, callVars, infoVars, touched, dryMigrated, quiet>>

\* Mutant: the patch is sent without the resource version.
PatchAccepted == present # {}

\* The patch names the resource version of info.Object.
SameVersion == fresh /\ present # {}

\* The JSON patch replaces the managed fields by the ones computed from
\* info.Object.  It has no DryRun option.
StoreUpgrade ==
  /\ owners' = Upgraded(seen)
  /\ UNCHANGED present
  /\ dryMigrated' = (dryMigrated \/ dryRun)

MigrationLands ==
  /\ pc = "migrate" /\ TriesLeft /\ Legacy(seen) # {} /\ SameVersion
  /\ StoreUpgrade
  /\ seen' = Upgraded(seen) /\ fresh' = TRUE
  /\ pc' = "reapply"
  /\ UNCHANGED <<callVars, names, tries, answer, warned, touched, quiet>>

\* Mutant: a conflict does not count.
ConflictsForFree ==
  /\ pc = "migrate" /\ TriesLeft /\ Legacy(seen) # {}
  /\ ~fresh /\ present # {}
  /\ pc' = "get"
  /\ tries' = tries
  /\ UNCHANGED <<serverVars, callVars, names, seen, fresh, answer, warned,
                 touched, dryMigrated, quiet>>

MigrationConflicts ==
  /\ pc = "migrate" /\ TriesLeft /\ Legacy(seen) # {}
  /\ ~fresh /\ present # {}
  /\ pc' = "get"
  /\ tries' = tries + 1
  /\ UNCHANGED <<serverVars, callVars, names, seen, fresh, answer, warned,
                 touched, dryMigrated, quiet>>

\* No object, another error, or a lost reply: a warning, and the apply that
\* came before stays successful.
MigrationFails ==
  /\ pc = "migrate" /\ TriesLeft /\ Legacy(seen) # {}
  /\ \/ (present = {} \/ ~quiet) /\ UNCHANGED <<serverVars, dryMigrated>>
     \/ ~quiet /\ SameVersion /\ StoreUpgrade
  /\ Return("successful", TRUE)
  /\ UNCHANGED <<callVars, infoVars, touched, quiet>>

\* info.Get
Refetches ==
  /\ pc = "get" /\ present # {}
  /\ seen' = owners /\ fresh' = TRUE
  /\ pc' = "migrate"
  /\ UNCHANGED <<serverVars, callVars, names, tries, answer, warned, touched,
                 dryMigrated, quiet>>

RefetchFails ==
  /\ pc = "get" /\ (present = {} \/ ~quiet)
  /\ Return("successful", TRUE)
  /\ UNCHANGED <<serverVars, callVars, infoVars, touched, dryMigrated, quiet>>

\* The last conflict was followed by a Get that went well, and err is its
\* error: nil (apply.go:286-297).
TriesExhausted ==
  /\ pc = "migrate" /\ ~TriesLeft
  /\ Return("successful", FALSE)
  /\ UNCHANGED <<serverVars, callVars, infoVars, touched, dryMigrated, quiet>>

-----------------------------------------------------------------------------
(* The second apply of applyObject, after a migration.                      *)

\* Mutant: the manifest is not applied again.
NoReapply ==
  /\ pc = "reapply"
  /\ Return("successful", FALSE)
  /\ UNCHANGED <<serverVars, callVars, infoVars, touched, dryMigrated, quiet>>

Reapplies ==
  /\ pc = "reapply"
  /\ \/ dryRun /\ UNCHANGED <<serverVars, fresh>>
     \/ /\ ~dryRun /\ fresh' = FALSE
        /\ \E changed \in SUBSET config : StoreApply(changed)
  /\ Return("successful", FALSE)
  /\ UNCHANGED <<callVars, names, seen, tries, touched, dryMigrated, quiet>>

ReapplyFails ==
  /\ pc = "reapply" /\ ~quiet
  /\ \/ UNCHANGED serverVars
     \/ ~dryRun /\ \E changed \in SUBSET config : StoreApply(changed)
  /\ Return("successful", TRUE)
  /\ UNCHANGED <<callVars, infoVars, touched, dryMigrated, quiet>>

-----------------------------------------------------------------------------
Init ==
  /\ owners \in {[m \in Managers |-> IF m \in S THEN WritesOf[m] ELSE {}] :
                   S \in {T \in SUBSET Updaters : Cardinality(T) <= 1}}
  /\ present = UNION {owners[m] : m \in Managers}
  /\ pc = "idle" /\ config = {} /\ dryRun = FALSE
  /\ names = {} /\ seen = NobodyOwns /\ fresh = FALSE /\ tries = 0
  /\ answer = "none" /\ warned = FALSE /\ touched = {}
  /\ dryMigrated = FALSE /\ quiet = FALSE

Migrate ==
  \/ NothingToMigrate \/ MigrationLands \/ MigrationConflicts \/ MigrationFails
  \/ Refetches \/ RefetchFails \/ TriesExhausted

CallStep == ApplyLands \/ ApplyFails \/ Migrate \/ Reapplies \/ ReapplyFails

Next ==
  \/ CallStep
  \/ \E dry \in BOOLEAN : Call(dry)
  \/ \E m \in Updaters, f \in AllFields : Update(m, f)
  \/ Delete
  \/ QuietDown

\* Every request is answered, and the object is applied for good again.
Fairness == WF_vars(CallStep) /\ SF_vars(Call(FALSE))

Spec == Init /\ [][Next]_vars /\ Fairness

-----------------------------------------------------------------------------
(* Properties.                                                              *)

TypeOK ==
  /\ present \subseteq AllFields /\ touched \subseteq AllFields
  /\ owners \in [Managers -> SUBSET AllFields] /\ seen \in [Managers -> SUBSET AllFields]
  /\ pc \in {"idle", "apply", "migrate", "get", "reapply"}
  /\ config \in Configs \cup {{}} /\ dryRun \in BOOLEAN
  /\ names \subseteq Updaters /\ fresh \in BOOLEAN
  /\ tries \in 0..MaxPatchRetry
  /\ answer \in {"none", "successful", "failed"} /\ warned \in BOOLEAN
  /\ dryMigrated \in BOOLEAN /\ quiet \in BOOLEAN

\* A migration, however many conflicts it met, takes nothing from a manager it
\* does not migrate, and no field of the ones it migrates is left to nobody:
\* what others wrote since info.Object was read is never overwritten
\* (apply.go:249-292).  A dry run is another matter.
MigrationTakesNothing ==
  [][pc = "migrate" /\ pc' # pc /\ ~dryRun /\ owners' # owners =>
       /\ \A m \in Updaters \ names : owners'[m] = owners[m]
       /\ owners'[Applied] = owners[Applied] \cup UNION {owners[m] : m \in names}]_vars

\* A call that ends well without a warning, and did not give up, leaves the
\* object as the manifest has it, for all that others did not write since: the
\* fields it sets are there, and a field only older tools of jpl or kubectl's
\* client-side apply owned is gone with them (apply.go:184-200).
ManifestStands ==
  [][pc # "idle" /\ pc' = "idle" /\ answer' = "successful" /\ ~warned'
     /\ ~dryRun /\ ~dryMigrated /\ tries < MaxPatchRetry =>
       /\ config \ touched \subseteq present'
       /\ \A f \in present' \ (config \cup touched) :
            \E m \in Updaters \ names : f \in owners'[m]]_vars

\* A call ends, however often the others change the object under its patches.
CallEnds == pc # "idle" ~> pc = "idle"

\* "This is non-fatal and will be retried next time you apply": once the
\* others leave the object alone, applying it again migrates what is left.
WarningIsRetried ==
  quiet ~> owners[Self] = {} /\ \A m \in Updaters : LastApplied \notin owners[m]

-----------------------------------------------------------------------------
(* What comments and tests say, and the code does not do.                   *)

\* "there was a conflict and max retries was hit.  Return the last error
\* witnessed (which will be a conflict)" (apply.go:294-296): a call that ran
\* out of attempts warns of it.
ExhaustionIsReported ==
  pc = "idle" /\ answer = "successful" /\ tries = MaxPatchRetry => warned

\* Every request of a dry run asks for dryRun=All (apply_test.go:407-409): it
\* changes nothing on the server.
DryRunWritesNothing ==
  [][pc # "idle" /\ pc' # pc /\ dryRun => UNCHANGED serverVars]_vars
=============================================================================
