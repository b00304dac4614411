------------------------------ MODULE Secrets -------------------------------
(***************************************************************************)
(* SecretService (packages/secrets): writes of one secret, batch writes,   *)
(* promotion between environments and the runtime fetch with its ETag.     *)
(* One action per SQL statement that reads or writes shared rows; the      *)
(* label names the statement.  The value a call writes is the number of    *)
(* its transaction, so that no two calls write the same one.               *)
(***************************************************************************)
EXTENDS DataKeys

CONSTANT
  Targets \* the environments that batches write to

ASSUME TargetsAssumption == Targets \subseteq Envs

VARIABLES
  poll,   \* the runtime fetch in progress for each environment
  cache   \* the last 200 response a consumer of each environment keeps

readVars == <<poll, cache>>

\* (environment, key) order: ORDER BY s.environment_id, s.key.
Before(a, b) == a[1] < b[1] \/ (a[1] = b[1] /\ a[2] <= b[2])
IsLeast(s, S) == s \in S /\ \A r \in S : Before(s, r)

-----------------------------------------------------------------------------
(* Calls. *)

\* A service call begins its transaction.
Call(t, label, args) == Start(t, label, args) /\ UNCHANGED readVars

\* update with a value; expectedVersion is absent (0) or what the caller last read.
BeginUpdate(t) ==
  \E s \in Slots : \E x \in {0, secrets[s].cur} :
    /\ secrets[s].present
    /\ Call(t, "row", [Blank EXCEPT !.op = "update", !.item = s, !.todo = {s}, !.expect = x])

\* update without a value: notes and tags only.
BeginUpdateNotes(t) ==
  \E s \in Slots : \E x \in {0, secrets[s].cur} :
    /\ secrets[s].present
    /\ Call(t, "row", [Blank EXCEPT !.op = "notes", !.item = s, !.expect = x])

BeginRollback(t) ==
  \E s \in Slots : \E x \in {0, secrets[s].cur}, v \in DOMAIN versions[s] :
    /\ secrets[s].present
    /\ Call(t, "row", [Blank EXCEPT !.op = "rollback", !.item = s, !.todo = {s}, !.expect = x, !.target = v])

BeginDelete(t) ==
  \E s \in Slots :
    /\ secrets[s].present
    /\ Call(t, "row", [Blank EXCEPT !.op = "delete", !.item = s])

BeginCreate(t) ==
  \E s \in Slots : Call(t, "createEnv", [Blank EXCEPT !.op = "create", !.item = s, !.todo = {s}])

BeginBulkSet(t) ==
  \E e \in Targets : \E ks \in SUBSET Keys \ {{}} :
    Call(t, "environment", [Blank EXCEPT !.op = "bulk", !.env = e, !.todo = {e} \X ks, !.all = {e} \X ks])

\* keys holds the selected keys of the merge strategy.
BeginImport(t) ==
  \E e \in Targets : \E ks \in SUBSET Keys \ {{}} : \E strategy \in {"skip", "overwrite", "merge"} :
    \E sel \in IF strategy = "merge" THEN SUBSET ks \ {{}} ELSE {{}} :
      Call(t, "environment", [Blank EXCEPT !.op = "import", !.env = e, !.todo = {e} \X ks,
                                            !.strategy = strategy, !.keys = sel])

\* keys = {} stands for an absent key list: promote every secret of the source.
BeginPromote(t) ==
  \E e \in Targets : \E src \in Envs \ {e} : \E ks \in SUBSET Keys :
    Call(t, "environment", [Blank EXCEPT !.op = "promote", !.env = e, !.src = src, !.keys = ks])

-----------------------------------------------------------------------------
(* Writes of one secret. *)

\* #metadataRow(lock): SELECT ... deleted_at IS NULL FOR UPDATE.
MetadataRow(t) ==
  LET s == tx[t].item IN
  /\ pc[t] = "row"
  /\ Live(View(t, s))
  /\ CanLockRow(t, s)
  /\ rowLock' = [rowLock EXCEPT ![s] = t]
  /\ tx' = [tx EXCEPT ![t].seen[s] = View(t, s).cur]
  /\ Goto(t, "check")
  /\ UNCHANGED <<tables, envLock, orgLock, ops, readVars>>

\* Mutant: expectedVersion need only name a version that exists.
AllowedStale(t) ==
  LET s == tx[t].item IN
  /\ EnvLive(t, s[1])
  /\ tx[t].expect \in {0} \cup DOMAIN History(t, s)
  /\ tx[t].op = "rollback" =>
       /\ tx[t].target < tx[t].seen[s]
       /\ tx[t].target \in DOMAIN History(t, s)

\* The checks update, rollback and delete make on the locked row.
Allowed(t) ==
  LET s == tx[t].item IN
  /\ EnvLive(t, s[1])
  /\ tx[t].expect \in {0, tx[t].seen[s]}
  /\ tx[t].op = "rollback" =>
       /\ tx[t].target < tx[t].seen[s]
       /\ tx[t].target \in DOMAIN History(t, s)
       /\ Opens(History(t, s)[tx[t].target], KeyView(t), s, tx[t].target)

Check(t) ==
  /\ pc[t] = "check"
  /\ Allowed(t)
  /\ Goto(t, CASE tx[t].op = "delete" -> "remove"
               [] tx[t].op = "notes"  -> "notes"
               [] OTHER               -> "encrypt")
  /\ UNCHANGED <<tables, locks, tx, ops, readVars>>

\* #writeMetadata: no column the trigger watches is updated.
WriteMetadata(t) ==
  /\ pc[t] = "notes"
  /\ Live(newest[tx[t].item])
  /\ UpdateRow(t, tx[t].item, newest[tx[t].item])
  /\ Goto(t, "commit")
  /\ UNCHANGED <<committed, newestVersions, newestDeks, rowLock, orgLock, tx, ops, readVars>>

\* delete: soft deletion of the locked row.
SoftDelete(t) ==
  /\ pc[t] = "remove"
  /\ UpdateRow(t, tx[t].item, [newest[tx[t].item] EXCEPT !.delAt = tx[t].n])
  /\ Goto(t, "commit")
  /\ UNCHANGED <<committed, newestVersions, newestDeks, rowLock, orgLock, tx, ops, readVars>>

\* What #writeVersion seals: the caller's value, or the plaintext rollback and
\* promote decrypted from another version or another secret.
Plaintext(t) ==
  CASE tx[t].op = "rollback" -> History(t, tx[t].item)[tx[t].target].val
    [] tx[t].op = "promote"  -> LET s == <<tx[t].src, tx[t].item[2]>> IN History(t, s)[View(t, s).cur].val
    [] OTHER                 -> tx[t].n

\* Mutant: only the newest version is kept.
InsertVersionPruning(h, v, row) == [i \in {v} |-> row]

\* secret_versions gains the row of version v.
InsertVersion(h, v, row) == [i \in DOMAIN h \cup {v} |-> IF i = v THEN row ELSE h[i]]

\* Mutant: the active key is read without the advisory lock.
EncryptUnfenced(t) ==
  LET s  == tx[t].item
      v  == tx[t].seen[s] + 1
      ks == KeyView(t) IN
  /\ pc[t] = "encrypt"
  /\ v \notin DOMAIN newestVersions[s]
  /\ Active(ks) # {}
  /\ newestVersions' = [newestVersions EXCEPT ![s] =
                          InsertVersion(@, v, Seal(Plaintext(t), ActiveVersion(ks), s, v, tx[t].expect))]
  /\ Goto(t, "write")
  /\ UNCHANGED <<committed, newest, newestEnv, newestDeks, locks, tx, ops, readVars>>

\* #writeVersion, first half: ensureActive under the advisory lock, INSERT
\* secret_versions at one more than the version read with the row lock.
Encrypt(t) ==
  LET s  == tx[t].item
      v  == tx[t].seen[s] + 1
      ks == EnsureActive(newestDeks) IN
  /\ pc[t] = "encrypt"
  /\ CanLockOrg(t)
  /\ v \notin DOMAIN newestVersions[s]
  /\ orgLock' = t
  /\ newestDeks' = ks
  /\ newestVersions' = [newestVersions EXCEPT ![s] =
                          InsertVersion(@, v, Seal(Plaintext(t), ActiveVersion(ks), s, v, tx[t].expect))]
  /\ Goto(t, "write")
  /\ UNCHANGED <<committed, newest, newestEnv, rowLock, envLock, tx, ops, readVars>>

\* Mutants: rollback points current_version at its target; a batch stops after one item.
WriteVersionRepoints(t) ==
  LET s == tx[t].item
      rest == tx[t].todo \ {s} IN
  /\ pc[t] = "write"
  /\ Live(newest[s])
  /\ UpdateRow(t, s, [newest[s] EXCEPT !.cur = IF tx[t].op = "rollback" THEN tx[t].target ELSE tx[t].seen[s] + 1])
  /\ tx' = [tx EXCEPT ![t].todo = rest]
  /\ Goto(t, IF rest = {} THEN "commit" ELSE "item")
  /\ UNCHANGED <<committed, newestVersions, newestDeks, rowLock, orgLock, ops, readVars>>

WriteVersionOnce(t) ==
  LET s == tx[t].item IN
  /\ pc[t] = "write"
  /\ Live(newest[s])
  /\ UpdateRow(t, s, [newest[s] EXCEPT !.cur = tx[t].seen[s] + 1])
  /\ Goto(t, "commit")
  /\ UNCHANGED <<committed, newestVersions, newestDeks, rowLock, orgLock, tx, ops, readVars>>

\* #writeVersion, second half: UPDATE secrets SET current_version, with the
\* trigger; a batch goes on to its next item.
WriteVersion(t) ==
  LET s == tx[t].item
      rest == tx[t].todo \ {s} IN
  /\ pc[t] = "write"
  /\ Live(newest[s])
  /\ UpdateRow(t, s, [newest[s] EXCEPT !.cur = tx[t].seen[s] + 1])
  /\ tx' = [tx EXCEPT ![t].todo = rest]
  /\ Goto(t, IF rest = {} THEN "commit" ELSE "item")
  /\ UNCHANGED <<committed, newestVersions, newestDeks, rowLock, orgLock, ops, readVars>>

-----------------------------------------------------------------------------
(* #create. *)

CreateEnvironment(t) ==
  /\ pc[t] = "createEnv"
  /\ EnvLive(t, tx[t].item[1])
  /\ Goto(t, "recover")
  /\ UNCHANGED <<tables, locks, tx, ops, readVars>>

\* A row a caller deleted, as opposed to one deleted with its environment.
Recoverable(r) == r.present /\ r.delAt # 0 /\ r.byEnv = 0

\* SELECT the recoverable row FOR UPDATE.
Recover(t) ==
  LET s == tx[t].item IN
  /\ pc[t] = "recover"
  /\ \/ /\ Recoverable(View(t, s))
        /\ CanLockRow(t, s)
        /\ rowLock' = [rowLock EXCEPT ![s] = t]
        /\ tx' = [tx EXCEPT ![t].seen[s] = View(t, s).cur]
        /\ Goto(t, "undelete")
     \/ /\ ~Recoverable(View(t, s))
        /\ Goto(t, "insert")
        /\ UNCHANGED <<rowLock, tx>>
  /\ UNCHANGED <<tables, envLock, orgLock, ops, readVars>>

\* Mutant: the recovered row keeps its old value.
UndeleteOnly(t) ==
  /\ pc[t] = "undelete"
  /\ UpdateRow(t, tx[t].item, [newest[tx[t].item] EXCEPT !.delAt = 0])
  /\ Goto(t, "commit")
  /\ UNCHANGED <<committed, newestVersions, newestDeks, rowLock, orgLock, tx, ops, readVars>>

\* UPDATE secrets SET deleted_at = NULL, with the trigger's bump.
Undelete(t) ==
  /\ pc[t] = "undelete"
  /\ UpdateRow(t, tx[t].item, [newest[tx[t].item] EXCEPT !.delAt = 0])
  /\ Goto(t, "encrypt")
  /\ UNCHANGED <<committed, newestVersions, newestDeks, rowLock, orgLock, tx, ops, readVars>>

\* INSERT INTO secrets at current_version 0, which the trigger ignores.  The
\* unique index makes it wait for another inserter of the same key, and refuse
\* a key that already has a row.
Insert(t) ==
  LET s == tx[t].item IN
  /\ pc[t] = "insert"
  /\ ~View(t, s).present
  /\ CanLockRow(t, s)
  /\ rowLock' = [rowLock EXCEPT ![s] = t]
  /\ newest' = [newest EXCEPT ![s] = [Absent EXCEPT !.present = TRUE]]
  /\ tx' = [tx EXCEPT ![t].seen[s] = 0]
  /\ Goto(t, "encrypt")
  /\ UNCHANGED <<committed, newestVersions, newestEnv, newestDeks, envLock, orgLock, ops, readVars>>

-----------------------------------------------------------------------------
(* Batches. *)

\* #environment of bulkSet and importBatch; #authorizePromotion reads both ends.
Environment(t) ==
  /\ pc[t] = "environment"
  /\ EnvLive(t, tx[t].env)
  /\ tx[t].op = "promote" => EnvLive(t, tx[t].src)
  /\ Goto(t, IF tx[t].op = "bulk" THEN "item" ELSE "select")
  /\ UNCHANGED <<tables, locks, tx, ops, readVars>>

\* The rows a batch's locking SELECT ranges over.
Scope(t) ==
  IF tx[t].op = "import" THEN tx[t].todo
  ELSE {tx[t].src, tx[t].env} \X (IF tx[t].keys = {} THEN Keys ELSE tx[t].keys)

\* Where a batch goes when its rows are locked.
Selected(t) == IF tx[t].op = "import" THEN "item" ELSE "preview"

\* The locking SELECT of importBatch and promote takes its snapshot ...
Select(t) ==
  LET match == {s \in Scope(t) : Live(View(t, s))} IN
  /\ pc[t] = "select"
  /\ tx' = [tx EXCEPT ![t] = [tx[t] EXCEPT !.queue = match, !.all = match,
                               !.seen = [s \in Slots |-> IF s \in match THEN View(t, s).cur ELSE 0]]]
  /\ Goto(t, IF match = {} THEN Selected(t) ELSE "lockRows")
  /\ UNCHANGED <<tables, locks, ops, readVars>>

\* ... and locks the matching rows in order.  A row that changed since the
\* snapshot is tested again: importBatch takes it while it is live, promote only
\* if its new current_version still joins the secret_versions row of the snapshot.
LockRow(t) ==
  \E s \in tx[t].queue :
    LET again == Live(View(t, s)) /\ (tx[t].op = "promote" => View(t, s).cur = tx[t].seen[s]) IN
    /\ pc[t] = "lockRows"
    /\ IsLeast(s, tx[t].queue)
    /\ CanLockRow(t, s)
    /\ rowLock' = [rowLock EXCEPT ![s] = t]
    /\ tx' = [tx EXCEPT ![t] = [tx[t] EXCEPT !.queue = tx[t].queue \ {s}, !.seen[s] = IF again THEN View(t, s).cur ELSE 0]]
    /\ Goto(t, IF tx[t].queue = {s} THEN Selected(t) ELSE "lockRows")
    /\ UNCHANGED <<tables, envLock, orgLock, ops, readVars>>

\* The selected keys whose source row the SELECT returned.
Sources(t) == {k \in Keys : tx[t].seen[<<tx[t].src, k>>] # 0}

\* Mutant: selected keys without a source are left out.
PromotionPreviewLenient(t) ==
  /\ pc[t] = "preview"
  /\ tx' = [tx EXCEPT ![t].todo = {tx[t].env} \X Sources(t)]
  /\ Goto(t, IF Sources(t) = {} THEN "commit" ELSE "item")
  /\ UNCHANGED <<tables, locks, ops, readVars>>

\* #promotionPreview on the locked rows: a selected key without a source is an error.
PromotionPreview(t) ==
  /\ pc[t] = "preview"
  /\ tx[t].keys \subseteq Sources(t)
  /\ tx' = [tx EXCEPT ![t].todo = {tx[t].env} \X Sources(t)]
  /\ Goto(t, IF Sources(t) = {} THEN "commit" ELSE "item")
  /\ UNCHANGED <<tables, locks, ops, readVars>>

\* Mutant: the existing rows are not looked up under the skip strategy.
IncludedBlind(t, s) == tx[t].strategy # "merge" \/ s[2] \in tx[t].keys

\* The import strategies.
Included(t, s) ==
  \/ tx[t].op # "import"
  \/ tx[t].strategy = "overwrite"
  \/ tx[t].strategy = "skip" /\ tx[t].seen[s] = 0
  \/ tx[t].strategy = "merge" /\ s[2] \in tx[t].keys

\* The loop over the inputs: in the caller's order, or the source order of promote.
NextItem(t) ==
  \E s \in tx[t].todo :
    /\ pc[t] = "item"
    /\ tx[t].op = "promote" => IsLeast(s, tx[t].todo)
    /\ \/ /\ Included(t, s)
          /\ tx' = [tx EXCEPT ![t].item = s]
          /\ Goto(t, CASE tx[t].op = "bulk" -> "itemRow"
                       [] tx[t].op # "bulk" /\ tx[t].seen[s] # 0 -> "encrypt"
                       [] OTHER -> "createEnv")
       \/ /\ ~Included(t, s)
          /\ tx' = [tx EXCEPT ![t].todo = @ \ {s}]
          /\ Goto(t, IF tx[t].todo = {s} THEN "commit" ELSE "item")
    /\ UNCHANGED <<tables, locks, ops, readVars>>

\* bulkSet: SELECT the live row FOR UPDATE, else create.
BulkRow(t) ==
  LET s == tx[t].item IN
  /\ pc[t] = "itemRow"
  /\ \/ /\ Live(View(t, s))
        /\ CanLockRow(t, s)
        /\ rowLock' = [rowLock EXCEPT ![s] = t]
        /\ tx' = [tx EXCEPT ![t].seen[s] = View(t, s).cur]
        /\ Goto(t, "encrypt")
     \/ /\ ~Live(View(t, s))
        /\ Goto(t, "createEnv")
        /\ UNCHANGED <<rowLock, tx>>
  /\ UNCHANGED <<tables, envLock, orgLock, ops, readVars>>

-----------------------------------------------------------------------------
(* Errors and waits. *)

\* The statement throws: NOT_FOUND, VERSION_CONFLICT, INVALID_INPUT,
\* VERSION_NOT_FOUND, DECRYPTION_FAILED, KEY_EXISTS.
SecretRefused(t) ==
  \/ pc[t] = "row"         /\ ~Live(View(t, tx[t].item))
  \/ pc[t] = "check"       /\ ~Allowed(t)
  \/ pc[t] = "notes"       /\ ~Live(newest[tx[t].item])
  \/ pc[t] = "environment" /\ ~(EnvLive(t, tx[t].env) /\ (tx[t].op = "promote" => EnvLive(t, tx[t].src)))
  \/ pc[t] = "preview"     /\ ~(tx[t].keys \subseteq Sources(t))
  \/ pc[t] = "createEnv"   /\ ~EnvLive(t, tx[t].item[1])
  \/ pc[t] = "insert"      /\ View(t, tx[t].item).present
  \/ pc[t] = "encrypt"     /\ tx[t].seen[tx[t].item] + 1 \in DOMAIN newestVersions[tx[t].item]
  \/ pc[t] = "write"       /\ ~Live(newest[tx[t].item])

\* The owners of the locks the next statement needs.
SecretBlockers(t) ==
  LET s == tx[t].item IN
  CASE pc[t] \in {"row", "itemRow"} /\ Live(View(t, s))     -> {rowLock[s]}
    [] pc[t] = "recover" /\ Recoverable(View(t, s))         -> {rowLock[s]}
    [] pc[t] = "insert" /\ ~View(t, s).present              -> {rowLock[s]}
    [] pc[t] = "lockRows"                                   -> {rowLock[r] : r \in {r \in tx[t].queue : IsLeast(r, tx[t].queue)}}
    [] pc[t] \in {"encrypt", "rotate"}                      -> {orgLock}
    [] pc[t] \in {"remove", "undelete", "write"}            -> {envLock[s[1]]}
    [] OTHER                                                -> {}

-----------------------------------------------------------------------------
(* runtimeConfig. *)

\* What statement 2 selects and decrypts: the live secrets of environment e.
Body(e) == [k \in {k \in Keys : Live(secrets[<<e, k>>])} |->
             versions[<<e, k>>][secrets[<<e, k>>].cur].val]

\* Every row of statement 2 decrypts.
BodyOpens(e) ==
  \A k \in Keys : LET s == <<e, k>> v == secrets[s].cur IN
    Live(secrets[s]) => v \in DOMAIN versions[s] /\ Opens(versions[s][v], deks, s, v)

\* Statement 1 reads config_version; it does not match what the caller knows.
RuntimeScope(e) ==
  /\ poll[e].pc = "idle"
  /\ envs[e].delAt = 0
  /\ \E known \in {{}, {cache[e].ver}} :
       /\ known # {} => cache[e].has
       /\ envs[e].ver \notin known
  /\ poll' = [poll EXCEPT ![e] = [pc |-> "rows", ver |-> envs[e].ver]]
  /\ UNCHANGED <<dbVars, cache>>

\* Statement 1 matches the caller's ETag: 304, and the caller keeps its copy.
NotModified(e) ==
  /\ poll[e].pc = "idle"
  /\ envs[e].delAt = 0
  /\ cache[e].has
  /\ cache[e].ver = envs[e].ver
  /\ UNCHANGED <<dbVars, readVars>>

\* Statement 2 reads the rows; the response carries the version of statement 1.
RuntimeRows(e) ==
  /\ poll[e].pc = "rows"
  /\ BodyOpens(e)
  /\ cache' = [cache EXCEPT ![e] = [has |-> TRUE, ver |-> poll[e].ver, body |-> Body(e)]]
  /\ poll' = [poll EXCEPT ![e] = [pc |-> "idle", ver |-> 0]]
  /\ UNCHANGED dbVars

\* The fetch fails: the connection drops, or a row does not decrypt.
RuntimeError(e) ==
  /\ poll[e].pc = "rows"
  /\ poll' = [poll EXCEPT ![e] = [pc |-> "idle", ver |-> 0]]
  /\ UNCHANGED <<dbVars, cache>>

ReadInit ==
  /\ poll = [e \in Envs |-> [pc |-> "idle", ver |-> 0]]
  /\ cache = [e \in Envs |-> [has |-> FALSE, ver |-> 0, body |-> [k \in {} |-> 0]]]
=============================================================================
