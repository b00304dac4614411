--------------------------- MODULE SecretInvariant --------------------------
(***************************************************************************)
(* The inductive invariant behind the safety properties of SecretSystem:   *)
(* what holds of the tables between statements (Shared) and what a         *)
(* transaction may rely on at each of its statements (Local).              *)
(***************************************************************************)
EXTENDS SecretSystem

-----------------------------------------------------------------------------
(* Tables. *)

\* A row nobody has locked has no uncommitted tuple.
RowsGuarded ==
  \A s \in Slots : rowLock[s] = NoTxn => newest[s] = secrets[s] /\ newestVersions[s] = versions[s]

\* Nor has an environment, and uncommitted bumps only raise config_version.
EnvsGuarded ==
  \A e \in Envs : newestEnv[e].ver >= envs[e].ver /\ (envLock[e] = NoTxn => newestEnv[e] = envs[e])

\* Uncommitted version rows come on top of the committed ones.
VersionsKept ==
  \A s \in Slots : \A v \in DOMAIN versions[s] :
    v \in DOMAIN newestVersions[s] /\ newestVersions[s][v] = versions[s][v]

\* The versions of a secret are 1 .. current_version; a row without one does not exist.
Whole(row, h) == DOMAIN h = 1 .. row.cur /\ (row.present <=> row.cur # 0)
CommittedWhole == \A s \in Slots : Whole(secrets[s], versions[s])

\* Every version, committed or not, follows the version its writer expected.
Follows(h) == \A v \in DOMAIN h : h[v].exp \in {0, v - 1}
ExpectationsMet == \A s \in Slots : Follows(versions[s]) /\ Follows(newestVersions[s])

\* What readers hold is not from the future, and current if its version is.
ReadersBehind ==
  \A e \in Envs :
    /\ poll[e].pc = "rows" => poll[e].ver <= envs[e].ver
    /\ cache[e].has => cache[e].ver <= envs[e].ver

Shared == RowsGuarded /\ EnvsGuarded /\ VersionsKept /\ CommittedWhole /\ ExpectationsMet /\ ReadersBehind /\ EtagSound

-----------------------------------------------------------------------------
(* Transactions. *)

\* t holds the row and the version it noted is still the row's.
Mine(t, s) == rowLock[s] = t /\ newest[s].cur = tx[t].seen[s]

\* The labels between the start of a batch's loop, or of create, and COMMIT.
Looping == {"item", "itemRow", "createEnv", "recover", "undelete", "insert", "encrypt", "write"}

\* A statement that writes the current item has it locked.
ItemHeld(t) == pc[t] \in {"check", "notes", "remove", "undelete", "encrypt", "write"} => Mine(t, tx[t].item)

\* What the locking SELECT of a batch returned stays locked until it is written.
SeenHeld(t) ==
  \A s \in Slots :
    /\ tx[t].seen[s] # 0
    /\ \/ pc[t] = "lockRows" /\ s \notin tx[t].queue
       \/ pc[t] = "preview"
       \/ pc[t] \in Looping /\ s \in tx[t].todo
    => Mine(t, s)

\* A batch starts with nothing noted, a single write with nothing else to do.
Starts(t) ==
  /\ pc[t] = "environment" => \A s \in Slots : tx[t].seen[s] = 0
  /\ pc[t] \in {"row", "check"} => tx[t].todo \subseteq {tx[t].item}

\* Only a single write carries an expectedVersion, and Check compared it.
Expects(t) ==
  /\ pc[t] \in {"encrypt", "write"} =>
       \/ tx[t].expect = 0
       \/ tx[t].expect = tx[t].seen[tx[t].item] /\ tx[t].todo \subseteq {tx[t].item}
  /\ pc[t] \in (Looping \ {"encrypt", "write"}) \cup {"environment", "select", "lockRows", "preview"} =>
       tx[t].expect = 0

\* A cascade stays in its environment.
CascadeScoped(t) == pc[t] = "cascade" => tx[t].queue \subseteq {tx[t].env} \X Keys

\* The row differs from its committed tuple in nothing a reader sees.
Same(s) ==
  /\ newest[s].present = secrets[s].present
  /\ newest[s].cur = secrets[s].cur
  /\ newest[s].delAt = secrets[s].delAt

\* t has raised the environment's config_version, and will commit that.
Bumped(t, e) == envLock[e] = t /\ newestEnv[e].ver > envs[e].ver

\* t is between the statements of #writeVersion for s.
Writing(t, s) == pc[t] \in {"encrypt", "write"} /\ tx[t].item = s

\* The uncommitted version rows of a locked row.
OwnedWhole(t, s) ==
  /\ DOMAIN newestVersions[s] =
       1 .. (IF pc[t] = "write" /\ tx[t].item = s THEN newest[s].cur + 1 ELSE newest[s].cur)
  /\ (newest[s].present <=> newest[s].cur # 0) \/ (Writing(t, s) /\ newest[s].present)

\* A visible change is bumped, or its bump is still to come before COMMIT.
Dirty(t, s) ==
  \/ Same(s)
  \/ Bumped(t, s[1])
  \/ Writing(t, s)
  \/ pc[t] \in {"cascade", "cascadeEnd"} /\ tx[t].count # 0 /\ tx[t].env = s[1]

Local(t) ==
  /\ ItemHeld(t) /\ SeenHeld(t) /\ Starts(t) /\ Expects(t) /\ CascadeScoped(t)
  /\ \A s \in Slots : rowLock[s] = t => OwnedWhole(t, s) /\ Dirty(t, s)

\* The inductive invariant.
SystemInv == TypeOK /\ Shared /\ \A t \in Txns : Local(t)

-----------------------------------------------------------------------------
(* Data keys. *)

\* Only the last key version is active.
LastActive(ks) == \A v \in DOMAIN ks : ks[v] = "active" <=> v = Len(ks)

\* Uncommitted keys come on top of the committed ones, under the advisory lock.
KeysGuarded ==
  /\ LastActive(deks) /\ LastActive(newestDeks)
  /\ Len(deks) <= Len(newestDeks)
  /\ orgLock = NoTxn => newestDeks = deks

\* The version rows of s that are not committed yet.
Pending(s) == DOMAIN newestVersions[s] \ DOMAIN versions[s]

\* Their author holds the advisory lock, and sealed them under the active key.
PendingSealed ==
  \A s \in Slots : \A v \in Pending(s) :
    /\ orgLock = rowLock[s]
    /\ newestVersions[s][v].dek \in Active(newestDeks)
    /\ newestVersions[s][v].aad = <<s, v>>

\* A rotation has written no secret, nor has a transaction that has not begun.
RotatesAlone(t) == pc[t] \in {"idle", "rotate"} => \A s \in Slots : rowLock[s] # t

KeyInv == KeysGuarded /\ Decryptable /\ PendingSealed /\ \A t \in Txns : RotatesAlone(t)

-----------------------------------------------------------------------------
(* Deletion stamps and revival. *)

\* A stamp of an environment's deletion is the row's own deletion.
Stamped(r) == r.byEnv \in {0, r.delAt}

\* The row a statement deletes or recovers is in the state the locking SELECT saw.
ItemState(t) ==
  /\ pc[t] \in {"check", "remove"} => Live(newest[tx[t].item])
  /\ pc[t] = "undelete" => Recoverable(newest[tx[t].item])

\* A cascade finds each row of its queue as the others committed it, and a restore
\* undoes a deletion.
CascadeClean(t) ==
  /\ pc[t] \in {"envGet", "envCount", "envMark", "cascadeSnap"} => \A s \in Slots : rowLock[s] # t
  /\ pc[t] = "cascade" => \A s \in tx[t].queue : rowLock[s] # t
  /\ pc[t] = "envCount" => tx[t].op = "envDelete"
  /\ pc[t] \in {"envMark", "cascadeSnap", "cascade"} /\ tx[t].op # "envDelete" => tx[t].target # 0

\* A secret its callers deleted is live again only in the company of a new version.
Revived(t, s) ==
  /\ newest[s].cur >= secrets[s].cur
  /\ Recoverable(secrets[s]) /\ Live(newest[s]) => newest[s].cur > secrets[s].cur \/ Writing(t, s)

RowLocal(t) ==
  /\ ItemState(t) /\ CascadeClean(t)
  /\ \A s \in Slots : rowLock[s] = t => Revived(t, s)

RowInv ==
  /\ \A s \in Slots : Stamped(secrets[s]) /\ Stamped(newest[s])
  /\ \A t \in Txns : RowLocal(t)

-----------------------------------------------------------------------------
(* Batches. *)

\* Which statements a batch executes.
Collecting == {"environment", "select", "lockRows", "preview"}
Batching == Collecting \cup Looping \cup {"commit"}
BatchLabels(t) ==
  /\ tx[t].op \in {"bulk", "import", "promote"} => pc[t] \in Batching
  /\ tx[t].op = "bulk" => pc[t] \notin {"select", "lockRows", "preview"}
  /\ tx[t].op \in {"import", "promote"} => pc[t] # "itemRow"

\* The statements between the choice of an item and the end of its write.
OnItem == Looping \ {"item"}

\* The current item has still to be written; nothing is left at COMMIT.
BatchProgress(t) ==
  tx[t].op \in {"bulk", "promote"} =>
    /\ pc[t] \in OnItem => tx[t].item \in tx[t].todo
    /\ pc[t] = "commit" => tx[t].todo = {}

\* t has the value written for s as the current one of its locked row.
Wrote(t, s, value) ==
  rowLock[s] = t /\ Live(newest[s]) /\ newestVersions[s][newest[s].cur].val = value

\* The version row of the current item holds the value.
Sealing(t, value) ==
  pc[t] = "write" => newestVersions[tx[t].item][newest[tx[t].item].cur + 1].val = value

\* bulkSet: what has been taken off the list has been written.
BulkDone(t) ==
  tx[t].op = "bulk" =>
    /\ \A s \in tx[t].all \ tx[t].todo : Wrote(t, s, tx[t].n)
    /\ Sealing(t, tx[t].n)

\* A row t has locked but not written.
Untouched(s) == newest[s] = secrets[s] /\ newestVersions[s] = versions[s]

\* The current committed value of key k at the source of a promotion.
SourceValue(t, k) == versions[<<tx[t].src, k>>][secrets[<<tx[t].src, k>>].cur].val

\* promote: the sources stay locked and as they are, and what has been taken off
\* the list has been copied.
PromoteDone(t) ==
  tx[t].op = "promote" =>
    /\ tx[t].src # tx[t].env
    /\ \A s \in Slots : rowLock[s] = t /\ (pc[t] \in Collecting \/ s[1] = tx[t].src) => Untouched(s)
    /\ pc[t] \in {"lockRows", "preview", "commit"} \cup Looping => \A k \in Sources(t) :
         LET s == <<tx[t].src, k>> IN (pc[t] = "lockRows" /\ s \in tx[t].queue) \/ (rowLock[s] = t /\ Live(secrets[s]))
    /\ pc[t] \in Looping \cup {"commit"} =>
         /\ tx[t].keys \subseteq Sources(t)
         /\ tx[t].todo \subseteq {tx[t].env} \X Sources(t)
         /\ \A k \in Sources(t) : <<tx[t].env, k>> \notin tx[t].todo => Wrote(t, <<tx[t].env, k>>, SourceValue(t, k))
         /\ Sealing(t, SourceValue(t, tx[t].item[2]))

\* The strategy of an import leaves row s alone when it is live.
Excluded(t, s) == tx[t].strategy = "skip" \/ (tx[t].strategy = "merge" /\ s[2] \notin tx[t].keys)

\* importBatch: a live row it excludes is not written.
ImportDone(t) ==
  tx[t].op = "import" =>
    /\ \A s \in Slots : rowLock[s] = t /\ Live(secrets[s]) /\ Excluded(t, s) => newest[s] = secrets[s]
    /\ pc[t] \in OnItem /\ Excluded(t, tx[t].item) => tx[t].strategy = "skip"
    /\ pc[t] \in {"undelete", "encrypt", "write"} /\ tx[t].strategy = "skip" => ~Live(secrets[tx[t].item])

BatchLocal(t) == BatchLabels(t) /\ BatchProgress(t) /\ BulkDone(t) /\ PromoteDone(t) /\ ImportDone(t)

BatchInv == \A t \in Txns : BatchLocal(t)

-----------------------------------------------------------------------------
\* The inductive invariant of the store: what its tables and its transactions can
\* be between two statements (packages/secrets, environments, crypto).
StoreInv == SystemInv /\ KeyInv /\ RowInv /\ BatchInv
=============================================================================
