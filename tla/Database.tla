------------------------------ MODULE Database ------------------------------
(***************************************************************************)
(* The PostgreSQL state of one project of one organization, as the        *)
(* transactions of the service packages see it.                            *)
(*                                                                         *)
(* Every transaction runs at READ COMMITTED through withOrg of the tenancy *)
(* package: one snapshot per statement, row locks held to the end, ROLLBACK*)
(* on any error.  Each table has a committed copy and a newest copy: the   *)
(* newest tuple of a row differs from the committed one only while some    *)
(* transaction holds the row's lock, and that transaction is its author.   *)
(* A statement of transaction t reads its own newest tuples and the        *)
(* committed tuples of everyone else.                                      *)
(***************************************************************************)
EXTENDS Naturals, Sequences, FiniteSets

CONSTANTS
  Envs,     \* environments of the project, named by the order of their ids
  Keys,     \* secret keys, named by their sort order
  Txns,     \* concurrent tenant transactions (connections of the pool)
  NoTxn,    \* owner of a lock nobody holds
  Seeded,   \* the secrets that exist, at version 1, before the first step
  MaxOps    \* bound: transactions started in a behaviour

Slots == Envs \X Keys

ASSUME EnvsAssumption == Envs # {} /\ Envs \subseteq Nat /\ IsFiniteSet(Envs)
ASSUME KeysAssumption == Keys # {} /\ Keys \subseteq Nat /\ IsFiniteSet(Keys)
ASSUME NoTxnAssumption == NoTxn \notin Txns
ASSUME SeededAssumption == Seeded \subseteq Slots
ASSUME MaxOpsAssumption == MaxOps \in Nat

VARIABLES
  secrets,    \* secrets, committed
  newest,     \* secrets, newest tuple
  versions,   \* secret_versions of each secret, committed
  newestVersions, \* secret_versions with the rows not yet committed
  envs,       \* environments, committed
  newestEnv,  \* environments, newest tuple
  deks,       \* org_encryption_keys, committed: status, in key-version order
  newestDeks, \* org_encryption_keys, newest tuples
  rowLock,    \* owner of each secrets row lock
  envLock,    \* owner of each environments row lock
  orgLock,    \* owner of pg_advisory_xact_lock(hash(orgId))
  pc,         \* the statement each transaction executes next
  tx,         \* arguments and local variables of each transaction
  ops         \* transactions started so far: names values and timestamps

committed == <<secrets, versions, envs, deks>>
tables == <<secrets, newest, versions, newestVersions, envs, newestEnv, deks, newestDeks>>
locks  == <<rowLock, envLock, orgLock>>
dbVars == <<secrets, newest, versions, newestVersions, envs, newestEnv, deks, newestDeks,
            rowLock, envLock, orgLock, pc, tx, ops>>

-----------------------------------------------------------------------------
(* Rows.  A timestamp column is the number of the operation that wrote it, 0 for NULL. *)

\* A row of secret_versions, which is never updated, is a record of val, the
\* plaintext; dek, the key version; aad, the authenticated context it was sealed
\* under; and exp, the expectedVersion its writer stated (0 for none).

\* A row of secrets.  byEnv is deleted_by_environment_at.
SecretRow == [present : BOOLEAN, cur : Nat, delAt : Nat, byEnv : Nat]

\* A row of environments: deleted_at and config_version.
EnvRow == [delAt : Nat, ver : Nat]

\* deleted_at IS NULL of a row that exists.
Live(r) == r.present /\ r.delAt = 0

\* The state of a secrets row before any INSERT for its (environment, key).
Absent == [present |-> FALSE, cur |-> 0, delAt |-> 0, byEnv |-> 0]

\* A secrets row at version 1, as a first create leaves it, and that version.
Fresh == [present |-> TRUE, cur |-> 1, delAt |-> 0, byEnv |-> 0]
FirstVersion(s) == [val |-> 0, dek |-> 1, aad |-> <<s, 1>>, exp |-> 0]

-----------------------------------------------------------------------------
(* Locks and visibility. *)

View(t, s)    == IF rowLock[s] = t THEN newest[s] ELSE secrets[s]
History(t, s) == IF rowLock[s] = t THEN newestVersions[s] ELSE versions[s]
EnvView(t, e) == IF envLock[e] = t THEN newestEnv[e] ELSE envs[e]
CanLockRow(t, s) == rowLock[s] \in {NoTxn, t}
CanLockEnv(t, e) == envLock[e] \in {NoTxn, t}
CanLockOrg(t)    == orgLock \in {NoTxn, t}

\* #environment: the addressed environment is live in the statement's snapshot.
EnvLive(t, e) == EnvView(t, e).delAt = 0

\* Mutant: the trigger compares current_version only.
BumpsOnVersion(old, new) == old.cur # new.cur

\* When the trigger on secrets bumps: current_version or deleted_at changed.
Bumps(old, new) == old.cur # new.cur \/ old.delAt # new.delAt

\* UPDATE of one secrets row the transaction has locked, with the trigger's
\* UPDATE environments, which takes the environment's row lock.
UpdateRow(t, s, new) ==
  /\ newest' = [newest EXCEPT ![s] = new]
  /\ IF Bumps(newest[s], new)
     THEN /\ CanLockEnv(t, s[1])
          /\ envLock' = [envLock EXCEPT ![s[1]] = t]
          /\ newestEnv' = [newestEnv EXCEPT ![s[1]].ver = @ + 1]
     ELSE UNCHANGED <<envLock, newestEnv>>

-----------------------------------------------------------------------------
(* Transactions. *)

AnyEnv  == CHOOSE e \in Envs : TRUE
AnySlot == CHOOSE s \in Slots : TRUE

\* The locals of a transaction that runs nothing.
Blank == [op |-> "none", n |-> 0, env |-> AnyEnv, src |-> AnyEnv, keys |-> {}, expect |-> 0, target |-> 0,
          strategy |-> "none", confirm |-> FALSE, todo |-> {}, queue |-> {}, all |-> {},
          item |-> AnySlot, seen |-> [s \in Slots |-> 0], count |-> 0]

Goto(t, label) == pc' = [pc EXCEPT ![t] = label]

\* BEGIN, with the arguments of one service call.
Start(t, label, args) ==
  /\ pc[t] = "idle"
  /\ ops < MaxOps
  /\ ops' = ops + 1
  /\ tx' = [tx EXCEPT ![t] = [args EXCEPT !.n = ops + 1]]
  /\ Goto(t, label)
  /\ UNCHANGED <<tables, locks>>

\* Mutant: a session-level advisory lock, which outlives the transaction.
ReleaseRowsOnly(t) ==
  /\ rowLock' = [s \in Slots |-> IF rowLock[s] = t THEN NoTxn ELSE rowLock[s]]
  /\ envLock' = [e \in Envs |-> IF envLock[e] = t THEN NoTxn ELSE envLock[e]]
  /\ tx' = [tx EXCEPT ![t] = Blank]
  /\ Goto(t, "idle")
  /\ UNCHANGED <<orgLock, ops>>

\* End of a transaction: every lock it owns is released.
Release(t) ==
  /\ rowLock' = [s \in Slots |-> IF rowLock[s] = t THEN NoTxn ELSE rowLock[s]]
  /\ envLock' = [e \in Envs |-> IF envLock[e] = t THEN NoTxn ELSE envLock[e]]
  /\ orgLock' = IF orgLock = t THEN NoTxn ELSE orgLock
  /\ tx' = [tx EXCEPT ![t] = Blank]
  /\ Goto(t, "idle")
  /\ UNCHANGED ops

\* COMMIT: the newest tuples of t become the committed ones.
Commit(t) ==
  /\ pc[t] = "commit"
  /\ secrets' = [s \in Slots |-> IF rowLock[s] = t THEN newest[s] ELSE secrets[s]]
  /\ versions' = [s \in Slots |-> IF rowLock[s] = t THEN newestVersions[s] ELSE versions[s]]
  /\ envs' = [e \in Envs |-> IF envLock[e] = t THEN newestEnv[e] ELSE envs[e]]
  /\ deks' = IF orgLock = t THEN newestDeks ELSE deks
  /\ UNCHANGED <<newest, newestVersions, newestEnv, newestDeks>>
  /\ Release(t)

\* ROLLBACK: the newest tuples of t are dropped.
Rollback(t) ==
  /\ pc[t] # "idle"
  /\ newest' = [s \in Slots |-> IF rowLock[s] = t THEN secrets[s] ELSE newest[s]]
  /\ newestVersions' = [s \in Slots |-> IF rowLock[s] = t THEN versions[s] ELSE newestVersions[s]]
  /\ newestEnv' = [e \in Envs |-> IF envLock[e] = t THEN envs[e] ELSE newestEnv[e]]
  /\ newestDeks' = IF orgLock = t THEN deks ELSE newestDeks
  /\ UNCHANGED committed
  /\ Release(t)

DbInit ==
  /\ secrets = [s \in Slots |-> IF s \in Seeded THEN Fresh ELSE Absent]
  /\ newest = secrets
  /\ versions = [s \in Slots |-> [v \in IF s \in Seeded THEN {1} ELSE {} |-> FirstVersion(s)]]
  /\ newestVersions = versions
  /\ envs = [e \in Envs |-> [delAt |-> 0, ver |-> Cardinality({s \in Seeded : s[1] = e})]]
  /\ newestEnv = envs
  /\ deks = IF Seeded = {} THEN <<>> ELSE <<"active">>
  /\ newestDeks = deks
  /\ rowLock = [s \in Slots |-> NoTxn]
  /\ envLock = [e \in Envs |-> NoTxn]
  /\ orgLock = NoTxn
  /\ pc = [t \in Txns |-> "idle"]
  /\ tx = [t \in Txns |-> Blank]
  /\ ops = 0
=============================================================================
