---------------------------- MODULE SecretSystem ----------------------------
(***************************************************************************)
(* The tenant transactions of the secrets, environments and crypto         *)
(* packages running against one database, with the consumers that poll the *)
(* runtime configuration: the composition, and what it promises.           *)
(***************************************************************************)
EXTENDS Environments

CONSTANTS
  Ops,    \* the operations callers use in this instance
  Polled  \* the environments with a consumer that polls them

ASSUME OpsAssumption ==
  Ops \subseteq {"update", "notes", "rollback", "delete", "create", "bulk", "import", "promote",
                 "rotate", "envDelete", "envRestore"}
ASSUME PolledAssumption == Polled \subseteq Envs

vars == <<dbVars, readVars>>

-----------------------------------------------------------------------------
(* Steps. *)

\* A caller starts an operation on a free connection.
Begin(t) ==
  \/ "update" \in Ops /\ BeginUpdate(t)
  \/ "notes" \in Ops /\ BeginUpdateNotes(t)
  \/ "rollback" \in Ops /\ BeginRollback(t)
  \/ "delete" \in Ops /\ BeginDelete(t)
  \/ "create" \in Ops /\ BeginCreate(t)
  \/ "bulk" \in Ops /\ BeginBulkSet(t)
  \/ "import" \in Ops /\ BeginImport(t)
  \/ "promote" \in Ops /\ BeginPromote(t)
  \/ "rotate" \in Ops /\ BeginRotate(t) /\ UNCHANGED readVars
  \/ "envDelete" \in Ops /\ BeginEnvDelete(t)
  \/ "envRestore" \in Ops /\ BeginEnvRestore(t)

\* The next statement of a running transaction succeeds.
Statement(t) ==
  \/ MetadataRow(t) \/ Check(t) \/ WriteMetadata(t) \/ SoftDelete(t)
  \/ Encrypt(t) \/ WriteVersion(t)
  \/ CreateEnvironment(t) \/ Recover(t) \/ Undelete(t) \/ Insert(t)
  \/ Environment(t) \/ Select(t) \/ LockRow(t) \/ PromotionPreview(t) \/ NextItem(t) \/ BulkRow(t)
  \/ Rotate(t) /\ UNCHANGED readVars
  \/ EnvGet(t) \/ EnvCount(t) \/ EnvMark(t) \/ CascadeSnap(t) \/ Cascade(t) \/ CascadeEnd(t) \/ EnvReload(t)
  \/ Commit(t) /\ UNCHANGED readVars

\* An error anywhere in the work of withOrg undoes the transaction.
Abort(t) == Rollback(t) /\ UNCHANGED readVars

\* The statement throws a service error.
Reject(t) == (SecretRefused(t) \/ EnvRefused(t)) /\ Abort(t)

\* u waits for a lock that w owns.
WaitsFor(u, w) == u # w /\ w \in SecretBlockers(u) \cup EnvBlockers(u)

\* PostgreSQL breaks a cycle of waiting transactions by aborting one of them.
Victim(t) ==
  /\ \E S \in SUBSET Txns :
       /\ t \in S
       /\ \A u \in S : (\E w \in S : WaitsFor(u, w)) /\ (\E w \in S : WaitsFor(w, u))
  /\ Abort(t)

\* Permission denied, connection lost, API process killed: the transaction is undone.
Crash(t) == Abort(t)

Next ==
  \/ \E t \in Txns : Begin(t) \/ Statement(t) \/ Reject(t) \/ Victim(t) \/ Crash(t)
  \/ \E e \in Polled : RuntimeScope(e) \/ NotModified(e) \/ RuntimeRows(e) \/ RuntimeError(e)

Init == DbInit /\ ReadInit

Spec == Init /\ [][Next]_vars

\* A driver keeps executing its open transaction, and the deadlock detector runs.
FairSpec == Spec /\ \A t \in Txns : WF_vars(Statement(t) \/ Reject(t) \/ Victim(t))

-----------------------------------------------------------------------------
(* Types. *)

Labels == {"idle", "row", "check", "notes", "remove", "encrypt", "write", "createEnv", "recover", "undelete",
           "insert", "environment", "select", "lockRows", "preview", "item", "itemRow", "rotate", "envGet",
           "envCount", "envMark", "cascadeSnap", "cascade", "cascadeEnd", "envReload", "commit"}

Operations == Ops \cup {"none"}

Locals ==
  [op : Operations, n : Nat, env : Envs, src : Envs, keys : SUBSET Keys, expect : Nat, target : Nat,
   strategy : {"none", "skip", "overwrite", "merge"}, confirm : BOOLEAN, todo : SUBSET Slots,
   queue : SUBSET Slots, all : SUBSET Slots, item : Slots, seen : [Slots -> Nat], count : Nat]

Owners == Txns \cup {NoTxn}

\* Version rows by number.  The plaintext has no type of its own: rollback and
\* promote copy it from the row they read.
IsHistory(h) ==
  /\ DOMAIN h \subseteq Nat
  /\ \A v \in DOMAIN h : h[v].dek \in Nat /\ h[v].aad \in Slots \X Nat /\ h[v].exp \in Nat

RowsOK == secrets \in [Slots -> SecretRow] /\ newest \in [Slots -> SecretRow]

HistoriesOK ==
  /\ DOMAIN versions = Slots /\ DOMAIN newestVersions = Slots
  /\ \A s \in Slots : IsHistory(versions[s]) /\ IsHistory(newestVersions[s])

EnvsOK == envs \in [Envs -> EnvRow] /\ newestEnv \in [Envs -> EnvRow]

KeysOK == deks \in Seq(KeyStatus) /\ newestDeks \in Seq(KeyStatus)

LocksOK == rowLock \in [Slots -> Owners] /\ envLock \in [Envs -> Owners] /\ orgLock \in Owners

LocalsOK == pc \in [Txns -> Labels] /\ tx \in [Txns -> Locals] /\ ops \in Nat

ReadersOK ==
  /\ poll \in [Envs -> [pc : {"idle", "rows"}, ver : Nat]]
  /\ DOMAIN cache = Envs
  /\ \A e \in Envs : cache[e].has \in BOOLEAN /\ cache[e].ver \in Nat

\* Every variable has its type.
TypeOK == RowsOK /\ HistoriesOK /\ EnvsOK /\ KeysOK /\ LocksOK /\ LocalsOK /\ ReadersOK

-----------------------------------------------------------------------------
(* Safety. *)

\* A 304 is truthful: when the version a consumer keeps equals the environment's
\* config_version, what it keeps is what a full fetch would return
\* (runtimeConfig, and the trigger that bumps config_version).
EtagSound ==
  \A e \in Envs : cache[e].has /\ cache[e].ver = envs[e].ver => cache[e].body = Body(e)

\* Committed versions have no gap: the row's current_version is the newest of
\* versions 1, 2, ... (#writeVersion computes it from an earlier SELECT).
HistoryContiguous ==
  \A s \in Slots : secrets[s].present => secrets[s].cur # 0 /\ DOMAIN versions[s] = 1 .. secrets[s].cur

\* No lost update: a version written under If-Match follows the version the
\* caller named (update and rollback with expectedVersion).
NoLostUpdate ==
  \A s \in Slots : \A v \in DOMAIN versions[s] : versions[s][v].exp \in {0, v - 1}

\* Every committed version decrypts: its key version is committed with it and its
\* authenticated context names this secret and version (encrypt, rotate, promote).
Decryptable ==
  \A s \in Slots : \A v \in DOMAIN versions[s] : Opens(versions[s][v], deks, s, v)

\* The organization has at most one active data key, and one as soon as it has
\* any (#activate).
OneActiveKey == deks # <<>> => Cardinality(Active(deks)) = 1

\* A bulk write that is about to commit has written every key it was given
\* (bulkSet).
BulkComplete ==
  \A t \in Txns : pc[t] = "commit" /\ tx[t].op = "bulk" =>
    \A s \in tx[t].all : Live(newest[s]) /\ newestVersions[s][newest[s].cur].val = tx[t].n

\* Transaction t is a promotion about to commit; key k has the same value at both ends.
Promoting(t) == pc[t] = "commit" /\ tx[t].op = "promote"
Copied(t, k) ==
  LET from == <<tx[t].src, k>> to == <<tx[t].env, k>> IN
  /\ Live(secrets[from])
  /\ Live(newest[to])
  /\ newestVersions[to][newest[to].cur].val = versions[from][secrets[from].cur].val

\* A promotion of selected keys copies each of them, at the value it has when the
\* promotion commits (promote: FOR UPDATE of source and target rows).
PromoteSelected == \A t \in Txns : Promoting(t) => \A k \in tx[t].keys : Copied(t, k)

\* An import leaves alone the secrets its strategy excludes, also those created
\* or changed while it ran (importBatch).
ImportKeeps ==
  \A t \in Txns : pc[t] = "commit" /\ tx[t].op = "import" => \A s \in Slots :
    /\ rowLock[s] = t
    /\ Live(secrets[s])
    /\ tx[t].strategy = "skip" \/ (tx[t].strategy = "merge" /\ s[2] \notin tx[t].keys)
    => newest[s] = secrets[s]

\* A deletion stamp left by an environment is the row's own deletion stamp, so
\* that a restore, which clears both, revives nothing deleted at another time.
CascadeStamped == \A s \in Slots : secrets[s].byEnv \in {0, secrets[s].delAt}

-----------------------------------------------------------------------------
(* Steps that may never happen. *)

\* Committed versions are never rewritten or dropped (secret_versions is only
\* inserted into), and an environment's config_version never decreases.
HistoryGrows ==
  [][/\ \A s \in Slots : \A v \in DOMAIN versions[s] :
          v \in DOMAIN versions'[s] /\ versions'[s][v] = versions[s][v]
     /\ \A e \in Envs : envs'[e].ver >= envs[e].ver]_vars

\* Rotation is a fence: what commits after a rotation is sealed under the key
\* that is active when it commits (advisory lock of #activate).
RotationFences ==
  [][\A s \in Slots : \A v \in DOMAIN versions'[s] \ DOMAIN versions[s] :
        versions'[s][v].dek \in Active(deks')]_vars

\* A secret its callers deleted becomes live again only with a new version, never
\* with its old value (create, restore of the environment).
NoSilentRevival ==
  [][\A s \in Slots : Recoverable(secrets[s]) /\ Live(secrets'[s]) => secrets'[s].cur > secrets[s].cur]_vars

-----------------------------------------------------------------------------
(* Liveness. *)

\* Every transaction ends: no wait for row, environment and advisory locks lasts
\* forever, whatever order the operations take them in.
EveryTransactionEnds == \A t \in Txns : pc[t] # "idle" ~> pc[t] = "idle"

-----------------------------------------------------------------------------
(* What the repository says of the program and the code does not do. *)

\* A promotion without a key list copies every secret of the source that is live
\* when it commits and was when it looked ("selected/all cross-environment copies").
PromoteAll ==
  \A t \in Txns : Promoting(t) /\ tx[t].keys = {} =>
    \A s \in tx[t].all : s[1] = tx[t].src /\ Live(secrets[s]) => Copied(t, s[2])

\* "A project must retain at least one active environment".
LastEnvironment == \E e \in Envs : envs[e].delAt = 0

\* A live environment holds no secret that is still deleted with an environment:
\* restore brings its cascade back.
CascadeRestored == \A s \in Slots : envs[s[1]].delAt = 0 => secrets[s].byEnv = 0
=============================================================================
