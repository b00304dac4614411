---------------------------- MODULE Environments ----------------------------
(***************************************************************************)
(* EnvironmentService (packages/environments): deletion of an environment  *)
(* with its secrets, and recovery of both.  None of its SELECTs locks a    *)
(* row; only the UPDATE statements do.                                     *)
(***************************************************************************)
EXTENDS Secrets

BeginEnvDelete(t) ==
  \E e \in Envs, c \in BOOLEAN :
    Call(t, "envGet", [Blank EXCEPT !.op = "envDelete", !.env = e, !.confirm = c])

BeginEnvRestore(t) ==
  \E e \in Envs :
    Call(t, "envGet", [Blank EXCEPT !.op = "envRestore", !.env = e])

\* delete finds a live environment; restore a deleted one, within its recovery
\* window, and remembers which deletion it undoes.
EnvGet(t) ==
  LET row == EnvView(t, tx[t].env) IN
  /\ pc[t] = "envGet"
  /\ IF tx[t].op = "envDelete" THEN row.delAt = 0 ELSE row.delAt # 0
  /\ tx' = [tx EXCEPT ![t].target = row.delAt]
  /\ Goto(t, IF tx[t].op = "envDelete" THEN "envCount" ELSE "envMark")
  /\ UNCHANGED <<tables, locks, ops, readVars>>

\* The two counts delete reads in one statement, and what it requires of them.
MayDelete(t) ==
  /\ Cardinality({e \in Envs : EnvLive(t, e)}) > 1
  /\ tx[t].confirm \/ \A k \in Keys : ~Live(View(t, <<tx[t].env, k>>))

EnvCount(t) ==
  /\ pc[t] = "envCount"
  /\ MayDelete(t)
  /\ Goto(t, "envMark")
  /\ UNCHANGED <<tables, locks, tx, ops, readVars>>

\* The row still satisfies the WHERE clause of UPDATE environments; a deletion
\* has target 0, a restore the deletion it read.
Marks(t, row) == row.delAt = tx[t].target

\* UPDATE environments.  It waits for a locked row, then tests the row again;
\* the code does not look at the number of rows it updated.
EnvMark(t) ==
  LET e == tx[t].env IN
  /\ pc[t] = "envMark"
  /\ \/ /\ Marks(t, EnvView(t, e))
        /\ CanLockEnv(t, e)
        /\ envLock' = [envLock EXCEPT ![e] = t]
        /\ newestEnv' = [newestEnv EXCEPT ![e].delAt = IF tx[t].op = "envDelete" THEN tx[t].n ELSE 0]
     \/ /\ ~Marks(t, EnvView(t, e))
        /\ UNCHANGED <<envLock, newestEnv>>
  /\ Goto(t, "cascadeSnap")
  /\ UNCHANGED <<committed, newest, newestVersions, newestDeks, rowLock, orgLock, tx, ops, readVars>>

\* Mutant: restore takes every deleted row.
CascadesAnyDeleted(t, row) == IF tx[t].op = "envDelete" THEN Live(row) ELSE row.present /\ row.delAt # 0

\* The WHERE clause of UPDATE secrets.
Cascades(t, row) ==
  IF tx[t].op = "envDelete" THEN Live(row) ELSE row.present /\ row.byEnv = tx[t].target

\* UPDATE secrets takes its snapshot ...
CascadeSnap(t) ==
  LET match == {s \in {tx[t].env} \X Keys : Cascades(t, View(t, s))} IN
  /\ pc[t] = "cascadeSnap"
  /\ tx' = [tx EXCEPT ![t].queue = match]
  /\ Goto(t, IF match = {} THEN "cascadeEnd" ELSE "cascade")
  /\ UNCHANGED <<tables, locks, ops, readVars>>

\* Mutant: deleted_by_environment_at is not cleared by a restore.
CascadeKeepsStamp(t) ==
  \E s \in tx[t].queue :
    LET stamp == IF tx[t].op = "envDelete" THEN tx[t].n ELSE 0
        hit   == Cascades(t, View(t, s)) IN
    /\ pc[t] = "cascade"
    /\ CanLockRow(t, s)
    /\ rowLock' = [rowLock EXCEPT ![s] = t]
    /\ newest' = IF hit THEN [newest EXCEPT ![s] = [newest[s] EXCEPT !.delAt = stamp, !.byEnv = IF stamp = 0 THEN newest[s].byEnv ELSE stamp]] ELSE newest
    /\ tx' = [tx EXCEPT ![t] = [tx[t] EXCEPT !.queue = tx[t].queue \ {s},
                                 !.count = IF hit THEN tx[t].count + 1 ELSE tx[t].count]]
    /\ Goto(t, IF tx[t].queue = {s} THEN "cascadeEnd" ELSE "cascade")
    /\ UNCHANGED <<committed, newestVersions, newestEnv, newestDeks, envLock, orgLock, ops, readVars>>

\* ... updates the matching rows, each tested again once it is locked ...
Cascade(t) ==
  \E s \in tx[t].queue :
    LET stamp == IF tx[t].op = "envDelete" THEN tx[t].n ELSE 0
        hit   == Cascades(t, View(t, s)) IN
    /\ pc[t] = "cascade"
    /\ CanLockRow(t, s)
    /\ rowLock' = [rowLock EXCEPT ![s] = t]
    /\ newest' = IF hit THEN [newest EXCEPT ![s] = [newest[s] EXCEPT !.delAt = stamp, !.byEnv = stamp]] ELSE newest
    /\ tx' = [tx EXCEPT ![t] = [tx[t] EXCEPT !.queue = tx[t].queue \ {s},
                                 !.count = IF hit THEN tx[t].count + 1 ELSE tx[t].count]]
    /\ Goto(t, IF tx[t].queue = {s} THEN "cascadeEnd" ELSE "cascade")
    /\ UNCHANGED <<committed, newestVersions, newestEnv, newestDeks, envLock, orgLock, ops, readVars>>

\* Mutant: the cascade does not fire the trigger.
CascadeEndSilent(t) ==
  /\ pc[t] = "cascadeEnd"
  /\ Goto(t, IF tx[t].op = "envDelete" THEN "commit" ELSE "envReload")
  /\ UNCHANGED <<tables, locks, tx, ops, readVars>>

\* ... and fires the row triggers when the statement ends, one bump for each row.
CascadeEnd(t) ==
  LET e == tx[t].env IN
  /\ pc[t] = "cascadeEnd"
  /\ \/ /\ tx[t].count # 0
        /\ CanLockEnv(t, e)
        /\ envLock' = [envLock EXCEPT ![e] = t]
        /\ newestEnv' = [newestEnv EXCEPT ![e].ver = @ + tx[t].count]
     \/ /\ tx[t].count = 0
        /\ UNCHANGED <<envLock, newestEnv>>
  /\ Goto(t, IF tx[t].op = "envDelete" THEN "commit" ELSE "envReload")
  /\ UNCHANGED <<committed, newest, newestVersions, newestDeks, rowLock, orgLock, tx, ops, readVars>>

\* restore returns the environment, which must be live by now.
EnvReload(t) ==
  /\ pc[t] = "envReload"
  /\ EnvLive(t, tx[t].env)
  /\ Goto(t, "commit")
  /\ UNCHANGED <<tables, locks, tx, ops, readVars>>

-----------------------------------------------------------------------------
\* NOT_FOUND, LAST_ENVIRONMENT, SECRETS_REQUIRE_CONFIRMATION, RECOVERY_EXPIRED:
\* the recovery window may have closed whenever restore looks at it.
EnvRefused(t) ==
  \/ pc[t] = "envGet"    /\ (tx[t].op = "envRestore" \/ EnvView(t, tx[t].env).delAt # 0)
  \/ pc[t] = "envCount"  /\ ~MayDelete(t)
  \/ pc[t] = "envReload" /\ ~EnvLive(t, tx[t].env)

\* The owners of the locks the next statement needs.
EnvBlockers(t) ==
  CASE pc[t] = "envMark" /\ Marks(t, EnvView(t, tx[t].env)) -> {envLock[tx[t].env]}
    [] pc[t] = "cascade"                                     -> {rowLock[s] : s \in tx[t].queue}
    [] pc[t] = "cascadeEnd" /\ tx[t].count # 0               -> {envLock[tx[t].env]}
    [] OTHER                                                  -> {}
=============================================================================
