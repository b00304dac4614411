--------------------------- MODULE SecretRowProofs --------------------------
(***************************************************************************)
(* RowInv and BatchInv are inductive on top of SystemInv and KeyInv: what  *)
(* deletions leave in a row, how a deleted secret comes back, and what a   *)
(* batch has written when it commits.                                      *)
(***************************************************************************)
EXTENDS SecretKeyProofs

-----------------------------------------------------------------------------
(* What a step of one transaction leaves the others. *)

\* The rows another transaction holds, and what it knows about them, stay.
LEMMA OthersHeld ==
  ASSUME SystemInv, NEW t \in Txns, Respects(t), NEW u \in Txns, u # t
  PROVE  /\ pc'[u] = pc[u] /\ tx'[u] = tx[u]
         /\ \A s \in Slots : rowLock'[s] = u <=> rowLock[s] = u
         /\ \A s \in Slots : rowLock[s] = u =>
              /\ newest'[s] = newest[s] /\ newestVersions'[s] = newestVersions[s]
              /\ secrets'[s] = secrets[s] /\ versions'[s] = versions[s]
  BY NoTxnAssumption DEF Respects

\* So the row invariant of the others stays.
LEMMA OthersRows ==
  ASSUME SystemInv, NEW t \in Txns, Respects(t), NEW u \in Txns, u # t, RowLocal(u)
  PROVE  RowLocal(u)'
  <1>1. /\ pc'[u] = pc[u] /\ tx'[u] = tx[u]
        /\ \A s \in Slots : rowLock'[s] = u <=> rowLock[s] = u
        /\ \A s \in Slots : rowLock[s] = u => newest'[s] = newest[s] /\ secrets'[s] = secrets[s]
    BY OthersHeld
  <1>2. tx[u].item \in Slots /\ tx[u].queue \subseteq Slots /\ ItemHeld(u)
    BY DEF SystemInv, TypeOK, LocalsOK, Locals, Local
  <1>3. ItemState(u)'
    <2>1. pc[u] \in {"check", "remove", "undelete"} => newest'[tx[u].item] = newest[tx[u].item]
      BY <1>1, <1>2 DEF ItemHeld, Mine
    <2> QED BY <1>1, <2>1 DEF RowLocal, ItemState, Live, Recoverable
  <1>4. CascadeClean(u)'
    BY <1>1, <1>2 DEF RowLocal, CascadeClean
  <1>5. \A s \in Slots : rowLock'[s] = u => Revived(u, s)'
    BY <1>1 DEF RowLocal, Revived, Writing, Recoverable, Live
  <1> QED BY <1>3, <1>4, <1>5 DEF RowLocal

\* And what a batch of the others has done.
LEMMA OthersBatch ==
  ASSUME SystemInv, NEW t \in Txns, Respects(t), NEW u \in Txns, u # t, BatchLocal(u)
  PROVE  BatchLocal(u)'
  <1>1. /\ pc'[u] = pc[u] /\ tx'[u] = tx[u]
        /\ \A s \in Slots : rowLock'[s] = u <=> rowLock[s] = u
        /\ \A s \in Slots : rowLock[s] = u =>
             /\ newest'[s] = newest[s] /\ newestVersions'[s] = newestVersions[s]
             /\ secrets'[s] = secrets[s] /\ versions'[s] = versions[s]
    BY OthersHeld
  <1>2. tx[u].item \in Slots /\ tx[u].src \in Envs /\ tx[u].env \in Envs /\ tx[u].all \subseteq Slots /\ tx[u].keys \subseteq Keys
    BY DEF SystemInv, TypeOK, LocalsOK, Locals
  <1>3. pc[u] \in {"undelete", "encrypt", "write"} =>
          /\ newest'[tx[u].item] = newest[tx[u].item] /\ newestVersions'[tx[u].item] = newestVersions[tx[u].item]
          /\ secrets'[tx[u].item] = secrets[tx[u].item]
    BY <1>1, <1>2 DEF SystemInv, Local, ItemHeld, Mine
  <1>4. BatchLabels(u)' /\ BatchProgress(u)'
    BY <1>1 DEF BatchLocal, BatchLabels, BatchProgress
  <1>5. BulkDone(u)'
    BY <1>1, <1>2, <1>3 DEF BatchLocal, BulkDone, Wrote, Live, Sealing
  <1>6. ImportDone(u)'
    BY <1>1, <1>2, <1>3 DEF BatchLocal, ImportDone, Excluded, Live
  <1>7. PromoteDone(u)'
    <2> SUFFICES ASSUME tx[u].op = "promote" PROVE PromoteDone(u)'
      BY <1>1 DEF PromoteDone
    <2>1. PromoteDone(u) /\ Sources(u)' = Sources(u) /\ Sources(u) \subseteq Keys
      BY <1>1 DEF BatchLocal, Sources
    <2>2. \A k \in Keys : <<tx[u].src, k>> \in Slots /\ <<tx[u].env, k>> \in Slots
      BY <1>2 DEF Slots
    <2>3. \A s \in Slots : rowLock'[s] = u /\ (pc'[u] \in Collecting \/ s[1] = tx'[u].src) => Untouched(s)'
      BY <1>1, <2>1 DEF PromoteDone, Untouched
    <2>4. ASSUME NEW k \in Sources(u), rowLock[<<tx[u].src, k>>] = u
          PROVE  SourceValue(u, k)' = SourceValue(u, k) /\ (Live(secrets[<<tx[u].src, k>>])' <=> Live(secrets[<<tx[u].src, k>>]))
      <3>1. PICK s \in Slots : s = <<tx[u].src, k>>
        BY <2>1, <2>2
      <3>2. secrets'[s] = secrets[s] /\ versions'[s] = versions[s]
        BY <1>1, <2>4, <3>1
      <3> QED BY <1>1, <3>1, <3>2 DEF SourceValue, Live
    <2>5. CASE pc[u] \in {"lockRows", "preview"}
      BY <1>1, <2>1, <2>2, <2>3, <2>4, <2>5 DEF PromoteDone, Looping
    <2>6. CASE pc[u] \in Looping \cup {"commit"}
      <3>1. \A k \in Sources(u) : rowLock[<<tx[u].src, k>>] = u
        BY <2>1, <2>6 DEF PromoteDone, Looping
      <3>2. ASSUME NEW k \in Sources(u), Wrote(u, <<tx[u].env, k>>, SourceValue(u, k))
            PROVE  Wrote(u, <<tx[u].env, k>>, SourceValue(u, k))'
        <4>1. PICK s \in Slots : s = <<tx[u].env, k>>
          BY <2>1, <2>2
        <4>2. SourceValue(u, k)' = SourceValue(u, k)
          BY <2>4, <3>1
        <4> QED BY <1>1, <3>2, <4>1, <4>2 DEF Wrote, Live
      <3>3. Sealing(u, SourceValue(u, tx[u].item[2]))'
        <4>1. pc[u] = "write" => tx[u].item[2] \in Sources(u)
          BY <2>1, <2>6 DEF BatchLocal, BatchProgress, PromoteDone, OnItem, Looping
        <4> QED BY <1>1, <1>3, <2>1, <2>4, <2>6, <3>1, <4>1 DEF PromoteDone, Sealing
      <3> QED BY <1>1, <2>1, <2>2, <2>3, <2>4, <2>6, <3>1, <3>2, <3>3 DEF PromoteDone
    <2>7. CASE pc[u] \notin {"lockRows", "preview", "commit"} \cup Looping
      BY <1>1, <2>1, <2>3, <2>7 DEF PromoteDone
    <2> QED BY <2>5, <2>6, <2>7
  <1> QED BY <1>4, <1>5, <1>6, <1>7 DEF BatchLocal

-----------------------------------------------------------------------------
(* Rows: the steps of one transaction. *)

\* What has to be shown of a step of t.
RowsStep(t) == (\A s \in Slots : Stamped(secrets'[s]) /\ Stamped(newest'[s])) /\ RowLocal(t)'

\* Taking row locks, or none, revives nothing.
LEMMA LockRevives ==
  ASSUME SystemInv, RowInv, NEW t \in Txns, pc[t] \notin {"encrypt", "write"}, UNCHANGED <<secrets, newest>>,
         \A s \in Slots : rowLock'[s] = t => CanLockRow(t, s)
  PROVE  /\ \A s \in Slots : rowLock'[s] = t => Revived(t, s)'
         /\ \A s \in Slots : Stamped(secrets'[s]) /\ Stamped(newest'[s])
  <1>1. ASSUME NEW s \in Slots, rowLock'[s] = t PROVE Revived(t, s)'
    <2>1. CASE rowLock[s] = t
      BY <2>1 DEF RowInv, RowLocal, Revived, Writing, Recoverable, Live
    <2>2. CASE rowLock[s] = NoTxn
      <3>1. newest[s] = secrets[s] /\ secrets[s].cur \in Nat
        BY <2>2 DEF SystemInv, Shared, RowsGuarded, TypeOK, RowsOK, SecretRow
      <3> QED BY <3>1 DEF Revived, Recoverable, Live
    <2> QED BY <1>1, <2>1, <2>2 DEF CanLockRow
  <1> QED BY <1>1 DEF RowInv, Stamped

\* Statements that only read.
LEMMA RowsRead ==
  ASSUME SystemInv, RowInv, NEW t \in Txns,
         \/ Check(t) \/ CreateEnvironment(t) \/ Environment(t) \/ PromotionPreview(t) \/ NextItem(t) \/ Select(t)
         \/ EnvGet(t) \/ EnvCount(t) \/ CascadeSnap(t) \/ EnvReload(t)
  PROVE  RowsStep(t)
  <1>0. /\ pc \in [Txns -> Labels] /\ tx \in [Txns -> Locals] /\ tx[t] \in Locals
        /\ RowLocal(t) /\ envs \in [Envs -> EnvRow] /\ newestEnv \in [Envs -> EnvRow]
    BY DEF SystemInv, TypeOK, LocalsOK, EnvsOK, RowInv
  <1>1. UNCHANGED <<tables, locks>>
    BY DEF Check, CreateEnvironment, Environment, PromotionPreview, NextItem, Select, EnvGet, EnvCount, CascadeSnap, EnvReload
  <1>2. pc[t] \notin {"encrypt", "write"}
    BY DEF Check, CreateEnvironment, Environment, PromotionPreview, NextItem, Select, EnvGet, EnvCount, CascadeSnap, EnvReload
  <1>3. /\ \A s \in Slots : rowLock'[s] = t => Revived(t, s)'
        /\ \A s \in Slots : Stamped(secrets'[s]) /\ Stamped(newest'[s])
    BY <1>1, <1>2, LockRevives DEF tables, locks, CanLockRow
  <1>4. ItemState(t)' /\ CascadeClean(t)'
    <2> USE DEF ItemState, CascadeClean
    <2>a. newest' = newest /\ rowLock' = rowLock
      BY <1>1 DEF tables, locks
    <2>1. CASE Check(t)
      <3>1. pc[t] = "check" /\ pc'[t] \in {"remove", "notes", "encrypt"} /\ tx' = tx
        BY <1>0, <2>1 DEF Check, Goto
      <3> QED BY <1>0, <2>a, <3>1 DEF RowLocal
    <2>2. CASE CreateEnvironment(t) \/ Environment(t) \/ PromotionPreview(t) \/ NextItem(t) \/ Select(t) \/ EnvReload(t)
      <3>1. pc'[t] \in {"recover", "item", "select", "commit", "itemRow", "encrypt", "createEnv", "preview", "lockRows"}
        BY <1>0, <2>2 DEF CreateEnvironment, Environment, PromotionPreview, NextItem, Select, Selected, EnvReload, Goto
      <3> QED BY <3>1
    <2>3. CASE EnvGet(t)
      <3>1. /\ pc[t] = "envGet" /\ tx'[t].op = tx[t].op
            /\ pc'[t] = IF tx[t].op = "envDelete" THEN "envCount" ELSE "envMark"
            /\ tx[t].op # "envDelete" => tx'[t].target # 0
        BY <1>0, <2>3 DEF EnvGet, Goto, Locals
      <3> QED BY <1>0, <2>a, <3>1 DEF RowLocal
    <2>4. CASE EnvCount(t)
      <3>1. pc[t] = "envCount" /\ pc'[t] = "envMark" /\ tx' = tx
        BY <1>0, <2>4 DEF EnvCount, Goto
      <3> QED BY <1>0, <2>a, <3>1 DEF RowLocal
    <2>5. CASE CascadeSnap(t)
      <3>1. /\ pc[t] = "cascadeSnap" /\ pc'[t] \in {"cascadeEnd", "cascade"} /\ tx'[t].op = tx[t].op
            /\ tx'[t].target = tx[t].target /\ tx'[t].queue \subseteq {tx[t].env} \X Keys
        BY <1>0, <2>5 DEF CascadeSnap, Goto, Locals
      <3>2. tx'[t].queue \subseteq Slots
        BY <1>0, <3>1 DEF Locals, Slots
      <3> QED BY <1>0, <2>a, <3>1, <3>2 DEF RowLocal
    <2> QED BY <2>1, <2>2, <2>3, <2>4, <2>5
  <1> QED BY <1>3, <1>4 DEF RowsStep, RowLocal

\* Statements that lock a row: what the SELECT saw of it holds until it is written.
LEMMA RowsLock ==
  ASSUME SystemInv, RowInv, NEW t \in Txns, MetadataRow(t) \/ Recover(t) \/ LockRow(t) \/ BulkRow(t)
  PROVE  RowsStep(t)
  <1>0. /\ pc \in [Txns -> Labels] /\ tx \in [Txns -> Locals] /\ tx[t] \in Locals /\ tx[t].item \in Slots
        /\ tx[t].queue \subseteq Slots /\ rowLock \in [Slots -> Owners]
    BY DEF SystemInv, TypeOK, LocalsOK, LocksOK, Locals
  <1>1. UNCHANGED <<secrets, newest>> /\ pc[t] \notin {"encrypt", "write"}
    BY DEF MetadataRow, Recover, LockRow, BulkRow, tables
  <1>2. UNCHANGED rowLock \/ \E s \in Slots : CanLockRow(t, s) /\ rowLock' = [rowLock EXCEPT ![s] = t]
    BY <1>0 DEF MetadataRow, Recover, LockRow, BulkRow
  <1>3. /\ \A s \in Slots : rowLock'[s] = t => Revived(t, s)'
        /\ \A s \in Slots : Stamped(secrets'[s]) /\ Stamped(newest'[s])
    <2>1. \A s \in Slots : rowLock'[s] = t => CanLockRow(t, s)
      BY <1>0, <1>2 DEF CanLockRow
    <2> QED BY <1>1, <2>1, LockRevives
  <1>4. \A s \in Slots : CanLockRow(t, s) => newest[s] = View(t, s)
    BY DEF CanLockRow, View, SystemInv, Shared, RowsGuarded
  <1>5. ItemState(t)'
    <2>1. CASE MetadataRow(t)
      <3>1. pc'[t] = "check" /\ tx'[t].item = tx[t].item /\ Live(View(t, tx[t].item)) /\ CanLockRow(t, tx[t].item)
        BY <1>0, <2>1 DEF MetadataRow, Goto, Locals
      <3> QED BY <1>0, <1>1, <1>4, <3>1 DEF ItemState
    <2>2. CASE Recover(t)
      <3>1. CASE ~Recoverable(View(t, tx[t].item))
        BY <1>0, <2>2, <3>1 DEF Recover, ItemState, Goto
      <3>2. CASE Recoverable(View(t, tx[t].item))
        <4>1. pc'[t] = "undelete" /\ tx'[t].item = tx[t].item /\ CanLockRow(t, tx[t].item)
          BY <1>0, <2>2, <3>2 DEF Recover, Goto, Locals
        <4> QED BY <1>0, <1>1, <1>4, <3>2, <4>1 DEF ItemState
      <3> QED BY <3>1, <3>2
    <2>3. CASE LockRow(t) \/ BulkRow(t)
      BY <1>0, <2>3 DEF LockRow, BulkRow, Selected, Goto, ItemState
    <2> QED BY <2>1, <2>2, <2>3
  <1>6. CascadeClean(t)'
    <2>1. pc'[t] \in {"check", "undelete", "insert", "item", "preview", "lockRows", "encrypt", "createEnv"}
      BY <1>0 DEF MetadataRow, Recover, LockRow, BulkRow, Selected, Goto
    <2> QED BY <2>1 DEF CascadeClean
  <1> QED BY <1>3, <1>5, <1>6 DEF RowsStep, RowLocal

\* UPDATE of the current item: the deletion stamps the row with itself, the recovery
\* is in the middle of #writeVersion, and that ends with a version on top.
LEMMA RowsUpdate ==
  ASSUME SystemInv, RowInv, NEW t \in Txns, WriteMetadata(t) \/ SoftDelete(t) \/ Undelete(t) \/ WriteVersion(t)
  PROVE  RowsStep(t)
  <1>s. PICK s \in Slots : s = tx[t].item
    BY DEF SystemInv, TypeOK, LocalsOK, Locals
  <1>0. /\ pc \in [Txns -> Labels] /\ tx \in [Txns -> Locals] /\ tx[t] \in Locals /\ newest \in [Slots -> SecretRow]
        /\ secrets \in [Slots -> SecretRow] /\ tx[t].n \in Nat
        /\ RowLocal(t) /\ ItemHeld(t) /\ \A r \in Slots : Stamped(secrets[r]) /\ Stamped(newest[r])
    BY DEF SystemInv, TypeOK, LocalsOK, RowsOK, RowInv, Local, Locals
  <1>1. /\ UNCHANGED <<secrets, rowLock>> /\ rowLock[s] = t
        /\ newest[s].cur = tx[t].seen[s] /\ Revived(t, s)
        /\ pc[t] \in {"notes", "remove", "undelete", "write"} /\ pc'[t] \in {"commit", "encrypt", "item"}
    BY <1>s, <1>0 DEF WriteMetadata, SoftDelete, Undelete, WriteVersion, committed, Goto, ItemHeld, Mine, RowLocal
  <1>2. PICK new \in SecretRow :
          /\ newest' = [newest EXCEPT ![s] = new]
          /\ \/ WriteMetadata(t) /\ new = newest[s]
             \/ SoftDelete(t) /\ new = [newest[s] EXCEPT !.delAt = tx[t].n]
             \/ Undelete(t) /\ new = [newest[s] EXCEPT !.delAt = 0]
             \/ WriteVersion(t) /\ new = [newest[s] EXCEPT !.cur = tx[t].seen[s] + 1]
    <2>1. \A x \in SecretRow, n \in Nat : [x EXCEPT !.delAt = n] \in SecretRow /\ [x EXCEPT !.cur = n] \in SecretRow
      BY DEF SecretRow
    <2>2. newest[s] \in SecretRow /\ tx[t].seen[s] + 1 \in Nat
      BY <1>0 DEF Locals
    <2>3. CASE WriteMetadata(t)
      BY <1>s, <2>2, <2>3 DEF WriteMetadata, UpdateRow
    <2>4. CASE SoftDelete(t)
      <3>1. [newest[s] EXCEPT !.delAt = tx[t].n] \in SecretRow
        BY <1>0, <2>1, <2>2
      <3> QED BY <1>s, <2>4, <3>1 DEF SoftDelete, UpdateRow
    <2>5. CASE Undelete(t)
      <3>1. [newest[s] EXCEPT !.delAt = 0] \in SecretRow
        BY <2>1, <2>2
      <3> QED BY <1>s, <2>5, <3>1 DEF Undelete, UpdateRow
    <2>6. CASE WriteVersion(t)
      <3>1. [newest[s] EXCEPT !.cur = tx[t].seen[s] + 1] \in SecretRow
        BY <2>1, <2>2
      <3> QED BY <1>s, <2>6, <3>1 DEF WriteVersion, UpdateRow
    <2> QED BY <2>3, <2>4, <2>5, <2>6
  <1>3. newest'[s] = new /\ \A r \in Slots \ {s} : newest'[r] = newest[r]
    BY <1>0, <1>2
  <1>4. Stamped(new) /\ Revived(t, s)'
    <2>1. CASE WriteMetadata(t) /\ new = newest[s]
      BY <1>0, <1>1, <1>3, <2>1 DEF WriteMetadata, Revived, Writing
    <2>2. CASE SoftDelete(t) /\ new = [newest[s] EXCEPT !.delAt = tx[t].n]
      <3>1. Live(newest[s])
        BY <1>s, <1>0, <2>2 DEF SoftDelete, RowLocal, ItemState
      <3>2. newest[s].byEnv = 0 /\ newest[s].delAt = 0
        BY <1>0, <3>1 DEF Stamped, Live
      <3>3. new.byEnv = 0 /\ new.cur = newest[s].cur /\ new.delAt = tx[t].n /\ new.present = newest[s].present
        BY <1>0, <2>2, <3>2 DEF SecretRow
      <3>4. ~Writing(t, s)
        BY <2>2 DEF SoftDelete, Writing
      <3> QED BY <1>1, <1>3, <3>1, <3>2, <3>3, <3>4 DEF Stamped, Revived, Live
    <2>3. CASE Undelete(t) /\ new = [newest[s] EXCEPT !.delAt = 0]
      <3>1. newest[s].byEnv = 0
        BY <1>s, <1>0, <2>3 DEF Undelete, RowLocal, ItemState, Recoverable
      <3>2. new.byEnv = 0 /\ new.cur = newest[s].cur
        BY <1>0, <2>3, <3>1 DEF SecretRow
      <3>3. Writing(t, s)'
        BY <1>s, <1>0, <2>3 DEF Undelete, Goto, Writing
      <3> QED BY <1>1, <1>3, <3>2, <3>3 DEF Stamped, Revived
    <2>4. CASE WriteVersion(t) /\ new = [newest[s] EXCEPT !.cur = tx[t].seen[s] + 1]
      <3>1. new.cur = newest[s].cur + 1 /\ new.byEnv = newest[s].byEnv /\ new.delAt = newest[s].delAt
        BY <1>0, <1>1, <2>4 DEF SecretRow
      <3>2. newest[s].cur \in Nat /\ secrets[s].cur \in Nat
        BY <1>0 DEF SecretRow
      <3> QED BY <1>0, <1>1, <1>3, <3>1, <3>2 DEF Stamped, Revived
    <2> QED BY <1>2, <2>1, <2>2, <2>3, <2>4
  <1>5. ASSUME NEW r \in Slots, rowLock'[r] = t PROVE Revived(t, r)'
    <2>1. CASE r = s
      BY <1>4, <2>1
    <2>2. CASE r # s
      BY <1>s, <1>0, <1>1, <1>3, <1>5, <2>2 DEF RowLocal, Revived, Writing
    <2> QED BY <2>1, <2>2
  <1>6. \A r \in Slots : Stamped(secrets'[r]) /\ Stamped(newest'[r])
    BY <1>0, <1>1, <1>3, <1>4
  <1>7. ItemState(t)' /\ CascadeClean(t)'
    BY <1>1 DEF ItemState, CascadeClean
  <1> QED BY <1>5, <1>6, <1>7 DEF RowsStep, RowLocal

\* INSERT of a row: there was none, committed or of its own.
LEMMA RowsInsert == ASSUME SystemInv, RowInv, NEW t \in Txns, Insert(t) PROVE RowsStep(t)
  <1>s. PICK s \in Slots : s = tx[t].item
    BY DEF SystemInv, TypeOK, LocalsOK, Locals
  <1>0. /\ pc \in [Txns -> Labels] /\ tx \in [Txns -> Locals] /\ tx[t] \in Locals /\ newest \in [Slots -> SecretRow]
        /\ secrets \in [Slots -> SecretRow] /\ rowLock \in [Slots -> Owners]
        /\ RowLocal(t) /\ Local(t) /\ Shared /\ \A r \in Slots : Stamped(secrets[r]) /\ Stamped(newest[r])
    BY DEF SystemInv, TypeOK, LocalsOK, LocksOK, RowsOK, RowInv
  <1>1. /\ pc[t] = "insert" /\ pc'[t] = "encrypt" /\ secrets' = secrets /\ tx'[t].item = s
        /\ CanLockRow(t, s) /\ rowLock' = [rowLock EXCEPT ![s] = t]
        /\ newest' = [newest EXCEPT ![s] = [Absent EXCEPT !.present = TRUE]]
        /\ ~View(t, s).present
    BY <1>s, <1>0 DEF Insert, Goto, Locals, committed
  <1>2. /\ newest'[s].cur = 0 /\ newest'[s].byEnv = 0
        /\ \A r \in Slots \ {s} : newest'[r] = newest[r] /\ rowLock'[r] = rowLock[r]
    BY <1>0, <1>1 DEF Absent
  <1>3. secrets[s].cur = 0
    <2>1. CASE rowLock[s] = t
      <3>1. ~newest[s].present /\ OwnedWhole(t, s) /\ newest[s].cur >= secrets[s].cur
        BY <1>0, <1>1, <2>1 DEF View, Local, RowLocal, Revived
      <3>2. newest[s].cur = 0
        BY <1>1, <3>1 DEF OwnedWhole, Writing
      <3> QED BY <1>0, <3>1, <3>2 DEF SecretRow
    <2>2. CASE rowLock[s] = NoTxn
      <3>1. ~secrets[s].present
        BY <1>1, <2>2, NoTxnAssumption DEF View
      <3> QED BY <1>0, <3>1 DEF Shared, CommittedWhole, Whole
    <2> QED BY <1>1, <2>1, <2>2 DEF CanLockRow
  <1>4. ASSUME NEW r \in Slots, rowLock'[r] = t PROVE Revived(t, r)'
    <2>1. CASE r = s
      BY <1>1, <1>2, <1>3, <2>1 DEF Revived, Writing
    <2>2. CASE r # s
      BY <1>0, <1>1, <1>2, <1>4, <2>2 DEF RowLocal, Revived, Writing
    <2> QED BY <2>1, <2>2
  <1>5. \A r \in Slots : Stamped(secrets'[r]) /\ Stamped(newest'[r])
    BY <1>0, <1>1, <1>2 DEF Stamped
  <1>6. ItemState(t)' /\ CascadeClean(t)'
    BY <1>1 DEF ItemState, CascadeClean
  <1> QED BY <1>4, <1>5, <1>6 DEF RowsStep, RowLocal

\* Statements that change no secrets row and lock none.
LEMMA RowsAside ==
  ASSUME SystemInv, RowInv, NEW t \in Txns, Encrypt(t) \/ Rotate(t) \/ EnvMark(t) \/ CascadeEnd(t)
  PROVE  RowsStep(t)
  <1>0. /\ pc \in [Txns -> Labels] /\ RowLocal(t) /\ \A r \in Slots : Stamped(secrets[r]) /\ Stamped(newest[r])
    BY DEF SystemInv, TypeOK, LocalsOK, RowInv
  <1>1. UNCHANGED <<secrets, newest, rowLock, tx>>
    BY DEF Encrypt, Rotate, EnvMark, CascadeEnd, committed
  <1>2. /\ pc[t] \in {"encrypt", "rotate", "envMark", "cascadeEnd"}
        /\ pc[t] = "encrypt" => pc'[t] = "write"
        /\ pc[t] = "envMark" => pc'[t] = "cascadeSnap"
        /\ pc[t] \in {"rotate", "cascadeEnd"} => pc'[t] \in {"commit", "envReload"}
    BY <1>0 DEF Encrypt, Rotate, EnvMark, CascadeEnd, Goto
  <1>3. \A s \in Slots : rowLock'[s] = t => Revived(t, s)'
    BY <1>0, <1>1, <1>2 DEF RowLocal, Revived, Writing
  <1>4. ItemState(t)' /\ CascadeClean(t)'
    BY <1>0, <1>1, <1>2 DEF RowLocal, ItemState, CascadeClean
  <1> QED BY <1>0, <1>1, <1>3, <1>4 DEF RowsStep, RowLocal, Stamped

\* One row of the cascade, which is as the others committed it.  A deletion takes
\* live rows only, a restore those with the stamp of the deletion it undoes.
LEMMA RowsCascade == ASSUME SystemInv, RowInv, NEW t \in Txns, Cascade(t) PROVE RowsStep(t)
  <1>0. /\ pc \in [Txns -> Labels] /\ tx \in [Txns -> Locals] /\ tx[t] \in Locals /\ newest \in [Slots -> SecretRow]
        /\ secrets \in [Slots -> SecretRow] /\ rowLock \in [Slots -> Owners] /\ tx[t].queue \subseteq Slots
        /\ RowLocal(t) /\ Shared /\ \A r \in Slots : Stamped(secrets[r]) /\ Stamped(newest[r])
    BY DEF SystemInv, TypeOK, LocalsOK, LocksOK, RowsOK, RowInv, Locals
  <1>1. PICK s \in tx[t].queue :
          /\ CanLockRow(t, s) /\ rowLock' = [rowLock EXCEPT ![s] = t]
          /\ tx' = [tx EXCEPT ![t] = [tx[t] EXCEPT !.queue = tx[t].queue \ {s},
                                 !.count = IF Cascades(t, View(t, s)) THEN tx[t].count + 1 ELSE tx[t].count]]
          /\ newest' = IF Cascades(t, View(t, s))
                       THEN [newest EXCEPT ![s] = [newest[s] EXCEPT !.delAt = IF tx[t].op = "envDelete" THEN tx[t].n ELSE 0,
                                                                    !.byEnv = IF tx[t].op = "envDelete" THEN tx[t].n ELSE 0]]
                       ELSE newest
          /\ pc[t] = "cascade" /\ pc'[t] \in {"cascade", "cascadeEnd"} /\ secrets' = secrets
    BY <1>0 DEF Cascade, Goto, committed
  <1>2. s \in Slots /\ rowLock[s] = NoTxn /\ newest[s] = secrets[s] /\ View(t, s) = secrets[s]
    <2>1. rowLock[s] = NoTxn
      BY <1>0, <1>1 DEF RowLocal, CascadeClean, CanLockRow
    <2> QED BY <1>0, <1>1, <2>1, NoTxnAssumption DEF Shared, RowsGuarded, View
  <1>3. tx'[t].queue = tx[t].queue \ {s} /\ tx'[t].op = tx[t].op /\ tx'[t].target = tx[t].target
    BY <1>0, <1>1 DEF Locals
  <1>4. \A r \in Slots \ {s} : newest'[r] = newest[r] /\ rowLock'[r] = rowLock[r]
    BY <1>0, <1>1
  <1>5. Stamped(newest'[s]) /\ Revived(t, s)'
    <2>1. CASE Cascades(t, secrets[s])
      <3>1. newest'[s].cur = secrets[s].cur /\ newest'[s].byEnv = newest'[s].delAt
        BY <1>0, <1>1, <1>2, <2>1 DEF SecretRow
      <3>2. ~Recoverable(secrets[s])
        BY <1>0, <1>1, <2>1 DEF Cascades, Recoverable, Live, RowLocal, CascadeClean
      <3> QED BY <1>0, <1>1, <1>2, <3>1, <3>2 DEF Stamped, Revived, SecretRow
    <2>2. CASE ~Cascades(t, secrets[s])
      <3>1. newest'[s] = secrets[s] /\ secrets[s].cur \in Nat
        BY <1>0, <1>1, <1>2, <2>2 DEF SecretRow
      <3>2. secrets'[s] = secrets[s] /\ Stamped(secrets[s])
        BY <1>0, <1>1, <1>2
      <3> QED BY <3>1, <3>2 DEF Stamped, Revived, Recoverable, Live
    <2> QED BY <2>1, <2>2
  <1>6. ASSUME NEW r \in Slots, rowLock'[r] = t PROVE Revived(t, r)'
    <2>1. CASE r = s
      BY <1>5, <2>1
    <2>2. CASE r # s
      BY <1>0, <1>1, <1>4, <1>6, <2>2 DEF RowLocal, Revived, Writing
    <2> QED BY <2>1, <2>2
  <1>7. \A r \in Slots : Stamped(secrets'[r]) /\ Stamped(newest'[r])
    BY <1>0, <1>1, <1>2, <1>4, <1>5
  <1>8. ItemState(t)' /\ CascadeClean(t)'
    BY <1>0, <1>1, <1>3, <1>4 DEF RowLocal, ItemState, CascadeClean
  <1> QED BY <1>6, <1>7, <1>8 DEF RowsStep, RowLocal

\* BEGIN and the end of a transaction: it holds no row.
LEMMA RowsBegin == ASSUME SystemInv, KeyInv, RowInv, NEW t \in Txns, Begin(t) PROVE RowsStep(t)
  <1>1. PICK label \in Labels, args \in Locals : WellFormed(label, args) /\ Start(t, label, args)
    BY BeginCalled DEF Called, SystemInv
  <1>2. UNCHANGED <<tables, locks>> /\ pc[t] = "idle" /\ pc'[t] \in {"row", "createEnv", "environment", "rotate", "envGet"}
    BY <1>1 DEF Start, Goto, WellFormed, SystemInv, TypeOK, LocalsOK
  <1>3. \A s \in Slots : rowLock'[s] # t
    BY <1>2 DEF KeyInv, RotatesAlone, locks
  <1>4. ItemState(t)' /\ CascadeClean(t)'
    BY <1>2, <1>3 DEF ItemState, CascadeClean
  <1> QED BY <1>2, <1>3, <1>4 DEF RowsStep, RowLocal, RowInv, Stamped, tables

LEMMA RowsEnd == ASSUME SystemInv, RowInv, NEW t \in Txns, Commit(t) \/ Abort(t) PROVE RowsStep(t)
  <1>0. pc \in [Txns -> Labels] /\ t # NoTxn
    BY NoTxnAssumption DEF SystemInv, TypeOK, LocalsOK
  <1>1. Release(t)
    BY DEF Commit, Abort, Rollback
  <1>2. pc'[t] = "idle" /\ \A s \in Slots : rowLock'[s] # t
    BY <1>0, <1>1 DEF Release, Goto
  <1>3. \A s \in Slots : secrets'[s] \in {secrets[s], newest[s]} /\ newest'[s] \in {secrets[s], newest[s]}
    BY DEF Commit, Abort, Rollback, committed
  <1>4. \A s \in Slots : Stamped(secrets'[s]) /\ Stamped(newest'[s])
    BY <1>3 DEF RowInv
  <1>5. ItemState(t)' /\ CascadeClean(t)'
    BY <1>2 DEF ItemState, CascadeClean
  <1> QED BY <1>2, <1>4, <1>5 DEF RowsStep, RowLocal

LEMMA InitRows == ASSUME Init PROVE RowInv
  <1>1. \A s \in Slots : Stamped(secrets[s]) /\ newest[s] = secrets[s]
    BY DEF Init, DbInit, Stamped, Fresh, Absent
  <1>2. ASSUME NEW t \in Txns PROVE pc[t] = "idle" /\ \A s \in Slots : rowLock[s] # t
    BY NoTxnAssumption DEF Init, DbInit
  <1> QED BY <1>1, <1>2 DEF RowInv, RowLocal, ItemState, CascadeClean

\* RowInv is inductive relative to SystemInv and KeyInv.
LEMMA NextRows == ASSUME SystemInv, KeyInv, RowInv, [Next]_vars PROVE RowInv'
  <1>1. ASSUME UNCHANGED dbVars PROVE RowInv'
    <2>1. ASSUME NEW t \in Txns PROVE RowLocal(t)'
      <3>1. RowLocal(t)
        BY DEF RowInv
      <3>2. ItemState(t)' /\ CascadeClean(t)'
        BY <1>1, <3>1 DEF RowLocal, ItemState, CascadeClean, dbVars
      <3>3. \A s \in Slots : rowLock'[s] = t => Revived(t, s)'
        BY <1>1, <3>1 DEF RowLocal, Revived, Writing, dbVars
      <3> QED BY <3>2, <3>3 DEF RowLocal
    <2> QED BY <1>1, <2>1 DEF RowInv, Stamped, dbVars
  <1>2. CASE \E t \in Txns : Begin(t) \/ Statement(t) \/ Reject(t) \/ Victim(t) \/ Crash(t)
    <2>1. PICK t \in Txns : Begin(t) \/ Statement(t) \/ Reject(t) \/ Victim(t) \/ Crash(t)
      BY <1>2
    <2>2. ASSUME Begin(t)
          PROVE  RowsStep(t)
      BY <2>2, RowsBegin
    <2>3. ASSUME Statement(t)
          PROVE  RowsStep(t)
      BY <2>3, RowsRead, RowsLock, RowsUpdate, RowsInsert, RowsAside, RowsCascade, RowsEnd DEF Statement
    <2>4. ASSUME Reject(t) \/ Victim(t) \/ Crash(t)
          PROVE  RowsStep(t)
      BY <2>4, RowsEnd DEF Reject, Victim, Crash
    <2>5. RowsStep(t)
      BY <2>1, <2>2, <2>3, <2>4
    <2>6. Respects(t)
      BY <2>1, TransactionStep DEF StepOf
    <2>7. \A u \in Txns : RowLocal(u)'
      BY <2>5, <2>6, OthersRows DEF RowsStep, RowInv
    <2> QED BY <2>5, <2>7 DEF RowsStep, RowInv
  <1>3. CASE \E e \in Polled : RuntimeScope(e) \/ NotModified(e) \/ RuntimeRows(e) \/ RuntimeError(e)
    BY <1>1, <1>3 DEF RuntimeScope, NotModified, RuntimeRows, RuntimeError
  <1>4. CASE UNCHANGED vars
    BY <1>1, <1>4 DEF vars
  <1> QED BY <1>2, <1>3, <1>4 DEF Next

\* RowInv holds in every reachable state.
LEMMA RowsInvariant == Spec => []RowInv
  <1>1. Init => RowInv
    BY InitRows
  <1>2. SystemInv /\ KeyInv /\ RowInv /\ [Next]_vars => RowInv'
    BY NextRows
  <1> QED BY <1>1, <1>2, SystemInvariant, KeysInvariant, PTL DEF Spec

\* A deletion stamp an environment left in a row is the row's own deletion stamp: the
\* restore, which clears both, revives nothing its callers deleted (delete and restore
\* of EnvironmentService against delete and create of SecretService).
THEOREM CascadesStamped == Spec => []CascadeStamped
  <1>1. RowInv => CascadeStamped
    BY DEF RowInv, Stamped, CascadeStamped
  <1> QED BY <1>1, RowsInvariant, PTL

\* A secret its callers deleted comes back only with a new version, whatever creates,
\* batches and restores of its environment run beside each other.
THEOREM NothingRevivedSilently == Spec => NoSilentRevival
  <1> DEFINE Newer == \A s \in Slots : Recoverable(secrets[s]) /\ Live(secrets'[s]) => secrets'[s].cur > secrets[s].cur
  <1>1. SystemInv /\ RowInv /\ [Next]_vars => [Newer]_vars
    <2> SUFFICES ASSUME SystemInv, RowInv, [Next]_vars PROVE Newer
      OBVIOUS
    <2>1. ASSUME NEW t \in Txns, Commit(t), NEW s \in Slots, Recoverable(secrets[s]), Live(secrets'[s])
          PROVE  secrets'[s].cur > secrets[s].cur
      <3>1. secrets'[s] = (IF rowLock[s] = t THEN newest[s] ELSE secrets[s]) /\ pc[t] = "commit"
        BY <2>1 DEF Commit
      <3>2. rowLock[s] = t /\ Live(newest[s])
        BY <2>1, <3>1 DEF Recoverable, Live
      <3>3. Revived(t, s) /\ ~Writing(t, s)
        BY <3>1, <3>2 DEF RowInv, RowLocal, Writing
      <3> QED BY <2>1, <3>1, <3>2, <3>3 DEF Revived
    <2>2. CASE \A t \in Txns : ~Commit(t)
      BY <2>2, CommittedBy DEF committed, Recoverable, Live
    <2> QED BY <2>1, <2>2
  <1>2. Spec => [][Next]_vars
    BY PTL DEF Spec
  <1> QED BY <1>1, <1>2, SystemInvariant, RowsInvariant, PTL DEF NoSilentRevival

-----------------------------------------------------------------------------
(* Batches: the steps of one transaction. *)

BatchOps == {"bulk", "import", "promote"}

\* The statements a batch executes between BEGIN and COMMIT.
BatchStatement(t) ==
  \/ Environment(t) \/ Select(t) \/ LockRow(t) \/ PromotionPreview(t) \/ NextItem(t) \/ BulkRow(t)
  \/ CreateEnvironment(t) \/ Recover(t) \/ Undelete(t) \/ Insert(t) \/ Encrypt(t) \/ WriteVersion(t)

\* The arguments of a call stay as they are, but for the list of a promotion.
CallKept(t) ==
  /\ tx'[t].op = tx[t].op /\ tx'[t].n = tx[t].n /\ tx'[t].env = tx[t].env /\ tx'[t].src = tx[t].src
  /\ tx'[t].keys = tx[t].keys /\ tx'[t].strategy = tx[t].strategy
  /\ pc[t] # "select" => tx'[t].all = tx[t].all
  /\ pc[t] # "item" => tx'[t].item = tx[t].item
  /\ pc[t] \notin {"item", "write", "preview"} => tx'[t].todo = tx[t].todo
  /\ pc[t] \notin {"select", "lockRows"} => \A s \in Slots \ {tx[t].item} : tx'[t].seen[s] = tx[t].seen[s]
  /\ pc[t] \notin {"select", "lockRows", "itemRow", "recover", "insert"} => tx'[t].seen = tx[t].seen

\* Where a batch goes from each of its statements.
BatchFlow(t) ==
  /\ pc[t] = "environment" => pc'[t] = IF tx[t].op = "bulk" THEN "item" ELSE "select"
  /\ pc[t] \in {"select", "lockRows"} => pc'[t] \in {"lockRows", Selected(t)}
  /\ pc[t] = "preview" => pc'[t] \in {"commit", "item"}
  /\ pc[t] = "item" => pc'[t] \in {"encrypt", "createEnv", "item", "commit"} \cup (IF tx[t].op = "bulk" THEN {"itemRow"} ELSE {})
  /\ pc[t] = "itemRow" => pc'[t] \in {"encrypt", "createEnv"}
  /\ pc[t] = "createEnv" => pc'[t] = "recover"
  /\ pc[t] = "recover" => pc'[t] \in {"undelete", "insert"}
  /\ pc[t] \in {"undelete", "insert"} => pc'[t] = "encrypt"
  /\ pc[t] = "encrypt" => pc'[t] = "write"
  /\ pc[t] = "write" => pc'[t] \in {"commit", "item"}

\* The rows a batch statement writes: the current item's, and none before the loop.
ItemOnly(t) ==
  /\ UNCHANGED <<secrets, versions>>
  /\ pc[t] \notin {"undelete", "insert", "encrypt", "write"} => UNCHANGED <<newest, newestVersions>>
  /\ pc[t] # "encrypt" => UNCHANGED newestVersions
  /\ pc[t] = "encrypt" => UNCHANGED newest
  /\ \A s \in Slots \ {tx[t].item} : newest'[s] = newest[s] /\ newestVersions'[s] = newestVersions[s]
  /\ \A s \in Slots : rowLock[s] = t => rowLock'[s] = t
  /\ \A s \in Slots : rowLock'[s] = t => CanLockRow(t, s)

\* Every batch statement is such a step.
LEMMA BatchFrame ==
  ASSUME SystemInv, NEW t \in Txns, BatchStatement(t)
  PROVE  /\ CallKept(t) /\ BatchFlow(t) /\ ItemOnly(t)
         /\ pc[t] \in {"environment", "select", "lockRows", "preview"} \cup Looping
  <1>0. /\ pc \in [Txns -> Labels] /\ tx \in [Txns -> Locals] /\ tx[t] \in Locals /\ tx[t].item \in Slots
        /\ tx[t].queue \subseteq Slots /\ rowLock \in [Slots -> Owners] /\ newest \in [Slots -> SecretRow]
        /\ DOMAIN newestVersions = Slots /\ tx[t].seen \in [Slots -> Nat]
    BY DEF SystemInv, TypeOK, LocalsOK, LocksOK, RowsOK, HistoriesOK, Locals
  <1>1. pc[t] \in {"environment", "select", "lockRows", "preview"} \cup Looping
    BY DEF BatchStatement, Environment, Select, LockRow, PromotionPreview, NextItem, BulkRow, CreateEnvironment, Recover,
           Undelete, Insert, Encrypt, WriteVersion, Looping
  <1>2. CASE Environment(t) \/ CreateEnvironment(t)
    <2>1. UNCHANGED <<tables, locks, tx>>
      BY <1>2 DEF Environment, CreateEnvironment
    <2>2. BatchFlow(t)
      BY <1>0, <1>2 DEF Environment, CreateEnvironment, Goto, BatchFlow
    <2> QED BY <1>1, <2>1, <2>2 DEF CallKept, ItemOnly, tables, locks, CanLockRow
  <1>3. CASE Select(t)
    <2>1. UNCHANGED <<tables, locks>> /\ pc[t] = "select"
      BY <1>3 DEF Select
    <2>2. BatchFlow(t)
      BY <1>0, <1>3 DEF Select, Goto, BatchFlow
    <2>3. CallKept(t)
      BY <1>0, <1>3 DEF Select, CallKept, Locals
    <2> QED BY <1>1, <2>1, <2>2, <2>3 DEF ItemOnly, tables, locks, CanLockRow
  <1>4. CASE PromotionPreview(t)
    <2>1. UNCHANGED <<tables, locks>> /\ pc[t] = "preview"
      BY <1>4 DEF PromotionPreview
    <2>2. BatchFlow(t)
      BY <1>0, <1>4 DEF PromotionPreview, Goto, BatchFlow
    <2>3. CallKept(t)
      BY <1>0, <1>4 DEF PromotionPreview, CallKept, Locals
    <2> QED BY <1>1, <2>1, <2>2, <2>3 DEF ItemOnly, tables, locks, CanLockRow
  <1>5. CASE NextItem(t)
    <2>1. UNCHANGED <<tables, locks>> /\ pc[t] = "item"
      BY <1>5 DEF NextItem
    <2>2. BatchFlow(t)
      BY <1>0, <1>5 DEF NextItem, Goto, BatchFlow
    <2>3. PICK s \in tx[t].todo : tx' = [tx EXCEPT ![t].item = s] \/ tx' = [tx EXCEPT ![t].todo = @ \ {s}]
      BY <1>5 DEF NextItem
    <2>4. CallKept(t)
      <3>1. CASE tx' = [tx EXCEPT ![t].item = s]
        BY <1>0, <2>1, <3>1 DEF CallKept, Locals
      <3>2. CASE tx' = [tx EXCEPT ![t].todo = @ \ {s}]
        BY <1>0, <2>1, <3>2 DEF CallKept, Locals
      <3> QED BY <2>3, <3>1, <3>2
    <2> QED BY <1>1, <2>1, <2>2, <2>4 DEF ItemOnly, tables, locks, CanLockRow
  <1>6. CASE LockRow(t)
    <2>0. PICK s \in tx[t].queue : LockRow(t)!(s)
      BY <1>6 DEF LockRow
    <2> DEFINE c == IF Live(View(t, s)) /\ (tx[t].op = "promote" => View(t, s).cur = tx[t].seen[s]) THEN View(t, s).cur ELSE 0
    <2>1. /\ UNCHANGED tables /\ pc[t] = "lockRows" /\ CanLockRow(t, s)
          /\ rowLock' = [rowLock EXCEPT ![s] = t]
          /\ tx' = [tx EXCEPT ![t] = [tx[t] EXCEPT !.queue = tx[t].queue \ {s}, !.seen[s] = c]]
      BY <2>0
    <2> HIDE DEF c
    <2>2. BatchFlow(t)
      BY <1>0, <1>6 DEF LockRow, Goto, BatchFlow
    <2>3. CallKept(t)
      <3>1. tx'[t] = [tx[t] EXCEPT !.queue = tx[t].queue \ {s}, !.seen[s] = c]
        BY <1>0, <2>1
      <3>2. /\ tx'[t].op = tx[t].op /\ tx'[t].n = tx[t].n /\ tx'[t].env = tx[t].env /\ tx'[t].src = tx[t].src
            /\ tx'[t].keys = tx[t].keys /\ tx'[t].strategy = tx[t].strategy /\ tx'[t].all = tx[t].all
            /\ tx'[t].item = tx[t].item /\ tx'[t].todo = tx[t].todo
        BY <1>0, <3>1 DEF Locals
      <3> QED BY <2>1, <3>2 DEF CallKept
    <2> QED BY <1>0, <1>1, <2>1, <2>2, <2>3 DEF ItemOnly, tables, CanLockRow
  <1>10. CASE BulkRow(t) \/ Recover(t)
    <2>1. /\ UNCHANGED tables /\ pc[t] \in {"itemRow", "recover"}
          /\ \/ UNCHANGED <<rowLock, tx>>
             \/ \E c : /\ CanLockRow(t, tx[t].item) /\ rowLock' = [rowLock EXCEPT ![tx[t].item] = t]
                       /\ tx' = [tx EXCEPT ![t].seen[tx[t].item] = c]
      BY <1>10 DEF BulkRow, Recover
    <2>2. BatchFlow(t)
      BY <1>0, <1>10 DEF BulkRow, Recover, Goto, BatchFlow
    <2>3. CallKept(t)
      BY <1>0, <2>1 DEF CallKept, Locals
    <2> QED BY <1>0, <1>1, <2>1, <2>2, <2>3 DEF ItemOnly, tables, CanLockRow
  <1>7. CASE Undelete(t) \/ WriteVersion(t)
    <2>1. /\ UNCHANGED <<secrets, versions, newestVersions, rowLock>> /\ pc[t] \in {"undelete", "write"}
          /\ \E new : newest' = [newest EXCEPT ![tx[t].item] = new]
      BY <1>7 DEF Undelete, WriteVersion, UpdateRow, committed
    <2>2. BatchFlow(t)
      BY <1>0, <1>7 DEF Undelete, WriteVersion, Goto, BatchFlow
    <2>3. CallKept(t)
      <3>1. CASE Undelete(t)
        BY <2>1, <3>1 DEF Undelete, CallKept
      <3>2. CASE WriteVersion(t)
        <4>1. pc[t] = "write" /\ tx' = [tx EXCEPT ![t].todo = tx[t].todo \ {tx[t].item}]
          BY <3>2 DEF WriteVersion
        <4>2. /\ tx'[t].op = tx[t].op /\ tx'[t].n = tx[t].n /\ tx'[t].env = tx[t].env /\ tx'[t].src = tx[t].src
              /\ tx'[t].keys = tx[t].keys /\ tx'[t].strategy = tx[t].strategy /\ tx'[t].all = tx[t].all
              /\ tx'[t].item = tx[t].item /\ tx'[t].seen = tx[t].seen
          BY <1>0, <4>1 DEF Locals
        <4> QED BY <4>1, <4>2 DEF CallKept
      <3> QED BY <1>7, <3>1, <3>2
    <2> QED BY <1>0, <1>1, <2>1, <2>2, <2>3 DEF ItemOnly, CanLockRow
  <1>8. CASE Insert(t)
    <2>1. /\ UNCHANGED <<secrets, versions, newestVersions>> /\ pc[t] = "insert"
          /\ \E new : newest' = [newest EXCEPT ![tx[t].item] = new]
          /\ CanLockRow(t, tx[t].item) /\ rowLock' = [rowLock EXCEPT ![tx[t].item] = t]
      BY <1>8 DEF Insert, committed
    <2>2. BatchFlow(t)
      BY <1>0, <1>8 DEF Insert, Goto, BatchFlow
    <2>3. CallKept(t)
      BY <1>0, <1>8 DEF Insert, CallKept, Locals
    <2> QED BY <1>0, <1>1, <2>1, <2>2, <2>3 DEF ItemOnly, CanLockRow
  <1>9. CASE Encrypt(t)
    <2>1. /\ UNCHANGED <<secrets, versions, newest, rowLock, tx>> /\ pc[t] = "encrypt"
          /\ \E h : newestVersions' = [newestVersions EXCEPT ![tx[t].item] = h]
      BY <1>9 DEF Encrypt, committed
    <2>2. BatchFlow(t)
      BY <1>0, <1>9 DEF Encrypt, Goto, BatchFlow
    <2> QED BY <1>0, <1>1, <2>1, <2>2 DEF CallKept, ItemOnly, CanLockRow
  <1> QED BY <1>2, <1>3, <1>4, <1>5, <1>6, <1>7, <1>8, <1>9, <1>10 DEF BatchStatement


\* The label tells which statement it is.
LEMMA BatchAt ==
  ASSUME NEW t \in Txns, BatchStatement(t)
  PROVE  /\ pc[t] = "select" => Select(t)
         /\ pc[t] = "lockRows" => LockRow(t)
         /\ pc[t] = "preview" => PromotionPreview(t)
         /\ pc[t] = "item" => NextItem(t)
         /\ pc[t] = "recover" => Recover(t)
         /\ pc[t] = "insert" => Insert(t)
         /\ pc[t] = "encrypt" => Encrypt(t)
         /\ pc[t] = "write" => WriteVersion(t)
  BY DEF BatchStatement, Environment, Select, LockRow, PromotionPreview, NextItem, BulkRow, CreateEnvironment, Recover,
         Undelete, Insert, Encrypt, WriteVersion

\* An operation does not change on the way.
LEMMA OperationKept ==
  ASSUME SystemInv, NEW t \in Txns, Statement(t), ~Commit(t)
  PROVE  tx'[t].op = tx[t].op
  <1>0. tx \in [Txns -> Locals] /\ tx[t] \in Locals
    BY DEF SystemInv, TypeOK, LocalsOK
  <1>1. CASE BatchStatement(t)
    BY <1>1, BatchFrame DEF CallKept
  <1>2. CASE MetadataRow(t) \/ Check(t) \/ WriteMetadata(t) \/ SoftDelete(t) \/ Rotate(t) \/ EnvGet(t) \/ EnvCount(t)
             \/ EnvMark(t) \/ CascadeSnap(t) \/ CascadeEnd(t) \/ EnvReload(t)
    BY <1>0, <1>2 DEF MetadataRow, Check, WriteMetadata, SoftDelete, Rotate, EnvGet, EnvCount, EnvMark, CascadeSnap,
                      CascadeEnd, EnvReload, Locals
  <1>3. CASE Cascade(t)
    <2>1. PICK s \in tx[t].queue : Cascade(t)!(s)
      BY <1>3 DEF Cascade
    <2> QED BY <1>0, <2>1 DEF Locals
  <1> QED BY <1>1, <1>2, <1>3 DEF Statement, BatchStatement

\* The loop of bulkSet and promote takes an item of its list.
LEMMA BatchItem ==
  ASSUME SystemInv, NEW t \in Txns, NextItem(t), tx[t].op # "import"
  PROVE  tx'[t].item \in tx[t].todo /\ tx'[t].todo = tx[t].todo /\ pc'[t] # "commit"
  <1>0. pc \in [Txns -> Labels] /\ tx \in [Txns -> Locals] /\ tx[t] \in Locals
    BY DEF SystemInv, TypeOK, LocalsOK
  <1>1. PICK s \in tx[t].todo : tx' = [tx EXCEPT ![t].item = s] /\ pc'[t] # "commit"
    BY <1>0 DEF NextItem, Included, Goto
  <1> QED BY <1>0, <1>1 DEF Locals

\* The end of a write takes its item off the list, and ends the batch with the last.
LEMMA BatchWritten ==
  ASSUME SystemInv, NEW t \in Txns, WriteVersion(t)
  PROVE  /\ tx'[t].todo = tx[t].todo \ {tx[t].item} /\ (pc'[t] = "commit" => tx'[t].todo = {})
         /\ Live(newest[tx[t].item]) /\ Live(newest'[tx[t].item]) /\ rowLock[tx[t].item] = t
         /\ newest'[tx[t].item].cur = newest[tx[t].item].cur + 1
  <1>0. /\ pc \in [Txns -> Labels] /\ tx \in [Txns -> Locals] /\ tx[t] \in Locals /\ tx[t].item \in Slots
        /\ newest \in [Slots -> SecretRow] /\ newest[tx[t].item] \in SecretRow
    BY DEF SystemInv, TypeOK, LocalsOK, RowsOK, Locals
  <1>1. rowLock[tx[t].item] = t /\ newest[tx[t].item].cur = tx[t].seen[tx[t].item]
    BY DEF WriteVersion, SystemInv, Local, ItemHeld, Mine
  <1>2. /\ tx' = [tx EXCEPT ![t].todo = tx[t].todo \ {tx[t].item}] /\ Live(newest[tx[t].item])
        /\ newest' = [newest EXCEPT ![tx[t].item] = [newest[tx[t].item] EXCEPT !.cur = tx[t].seen[tx[t].item] + 1]]
        /\ pc' = [pc EXCEPT ![t] = IF tx[t].todo \ {tx[t].item} = {} THEN "commit" ELSE "item"]
    BY DEF WriteVersion, UpdateRow, Goto
  <1> QED BY <1>0, <1>1, <1>2 DEF Locals, Live, SecretRow

\* The version row a batch inserts is the next one, and holds the plaintext.
LEMMA BatchSealed ==
  ASSUME SystemInv, NEW t \in Txns, Encrypt(t)
  PROVE  newestVersions'[tx[t].item][newest[tx[t].item].cur + 1].val = Plaintext(t)
  <1>0. tx[t].item \in Slots /\ DOMAIN newestVersions = Slots
    BY DEF SystemInv, TypeOK, LocalsOK, HistoriesOK, Locals
  <1>1. newest[tx[t].item].cur = tx[t].seen[tx[t].item]
    BY DEF Encrypt, SystemInv, Local, ItemHeld, Mine
  <1>2. PICK k : newestVersions' = [newestVersions EXCEPT ![tx[t].item] =
                     InsertVersion(@, newest[tx[t].item].cur + 1, Seal(Plaintext(t), k, tx[t].item, newest[tx[t].item].cur + 1, tx[t].expect))]
    BY <1>1 DEF Encrypt
  <1> QED BY <1>0, <1>2 DEF InsertVersion, Seal

\* A batch statement keeps to the labels of its batch.
LEMMA BatchLabelsStep ==
  ASSUME SystemInv, NEW t \in Txns, BatchStatement(t), tx[t].op \in BatchOps, BatchLocal(t)
  PROVE  BatchLabels(t)'
  <1>1. CallKept(t) /\ BatchFlow(t) /\ pc[t] \in {"environment", "select", "lockRows", "preview"} \cup Looping
    BY BatchFrame
  <1>2. BatchLabels(t)
    BY DEF BatchLocal
  <1> QED BY <1>1, <1>2 DEF BatchLabels, BatchOps, CallKept, BatchFlow, Batching, Collecting, Looping, Selected

\* Its current item is on the list, and COMMIT comes when the list is empty.
LEMMA BatchProgressStep ==
  ASSUME SystemInv, NEW t \in Txns, BatchStatement(t), tx[t].op \in {"bulk", "promote"}, BatchLocal(t)
  PROVE  BatchProgress(t)'
  <1>1. /\ CallKept(t) /\ BatchFlow(t) /\ BatchProgress(t) /\ BatchLabels(t)
        /\ pc[t] \in {"environment", "select", "lockRows", "preview"} \cup Looping
    BY BatchFrame DEF BatchLocal
  <1>2. CASE pc[t] = "item"
    BY <1>1, <1>2, BatchAt, BatchItem DEF BatchProgress, CallKept
  <1>3. CASE pc[t] = "write"
    BY <1>1, <1>3, BatchAt, BatchWritten DEF BatchProgress, BatchFlow, OnItem, Looping
  <1>4. CASE pc[t] = "preview"
    <2>1. PromotionPreview(t)
      BY <1>4, BatchAt
    <2>2. /\ pc \in [Txns -> Labels] /\ tx \in [Txns -> Locals] /\ tx[t] \in Locals
      BY DEF SystemInv, TypeOK, LocalsOK
    <2>3. tx'[t].todo = {tx[t].env} \X Sources(t) /\ (pc'[t] = "commit" => Sources(t) = {})
      BY <2>1, <2>2 DEF PromotionPreview, Goto, Locals
    <2> QED BY <1>1, <1>4, <2>3 DEF BatchProgress, BatchFlow, OnItem, Looping
  <1>5. CASE pc[t] \notin {"item", "write", "preview"}
    BY <1>1, <1>5 DEF BatchProgress, CallKept, BatchFlow, OnItem, Looping, Selected, BatchLabels
  <1> QED BY <1>2, <1>3, <1>4, <1>5

\* What has been written for a key that is not the current item stays.
LEMMA WrittenKept ==
  ASSUME SystemInv, NEW t \in Txns, BatchStatement(t), NEW s \in Slots, NEW v, Wrote(t, s, v),
         s # tx[t].item \/ pc[t] \notin {"undelete", "insert", "encrypt", "write"}
  PROVE  Wrote(t, s, v)'
  <1>1. newest'[s] = newest[s] /\ newestVersions'[s] = newestVersions[s] /\ rowLock'[s] = t
    BY BatchFrame DEF ItemOnly, Wrote
  <1> QED BY <1>1 DEF Wrote, Live

\* The end of a write leaves the value it sealed as the current one.
LEMMA WrittenNow ==
  ASSUME SystemInv, NEW t \in Txns, WriteVersion(t), NEW s \in Slots, s = tx[t].item, NEW v, Sealing(t, v)
  PROVE  Wrote(t, s, v)'
  <1>1. /\ Live(newest'[s]) /\ rowLock[s] = t /\ newest'[s].cur = newest[s].cur + 1
        /\ UNCHANGED <<newestVersions, rowLock>>
    BY BatchWritten DEF WriteVersion
  <1>2. newestVersions[s][newest[s].cur + 1].val = v
    BY DEF Sealing, WriteVersion
  <1> QED BY <1>1, <1>2 DEF Wrote, Live

\* bulkSet.
LEMMA BulkStep ==
  ASSUME SystemInv, NEW t \in Txns, BatchStatement(t), tx[t].op = "bulk", BatchLocal(t)
  PROVE  BulkDone(t)'
  <1>1. /\ CallKept(t) /\ BatchFlow(t) /\ ItemOnly(t) /\ BatchProgress(t) /\ BatchLabels(t) /\ BulkDone(t)
        /\ pc[t] \in {"environment", "select", "lockRows", "preview"} \cup Looping
    BY BatchFrame DEF BatchLocal
  <1>2. tx[t].all \subseteq Slots /\ tx[t].item \in Slots
    BY DEF SystemInv, TypeOK, LocalsOK, Locals
  <1>3. tx'[t].op = "bulk" /\ tx'[t].all = tx[t].all /\ tx'[t].n = tx[t].n
    BY <1>1 DEF CallKept, BatchLabels
  <1>6. PICK n : n = tx[t].n
    OBVIOUS
  <1>4. \A s \in tx[t].all \ tx'[t].todo : Wrote(t, s, n)'
    <2> SUFFICES ASSUME NEW s \in tx[t].all, s \notin tx'[t].todo PROVE Wrote(t, s, n)'
      OBVIOUS
    <2>1. CASE pc[t] = "write" /\ s = tx[t].item
      <3>1. WriteVersion(t) /\ Sealing(t, n)
        BY <1>1, <1>6, <2>1, BatchAt DEF BulkDone
      <3> QED BY <1>2, <2>1, <3>1, WrittenNow
    <2>2. CASE ~(pc[t] = "write" /\ s = tx[t].item)
      <3>1. s \notin tx[t].todo
        <4>1. pc[t] # "preview" /\ (pc[t] \notin {"item", "write"} => tx'[t].todo = tx[t].todo)
          BY <1>1 DEF CallKept, BatchLabels
        <4>2. pc[t] = "item" => tx'[t].todo = tx[t].todo
          BY BatchAt, BatchItem
        <4>3. pc[t] = "write" => tx'[t].todo = tx[t].todo \ {tx[t].item}
          BY BatchAt, BatchWritten
        <4> QED BY <2>2, <4>1, <4>2, <4>3
      <3>2. s # tx[t].item \/ pc[t] \notin {"undelete", "insert", "encrypt", "write"}
        BY <1>1, <3>1 DEF BatchProgress, OnItem, Looping
      <3>3. Wrote(t, s, n)
        BY <1>1, <1>6, <3>1 DEF BulkDone
      <3> QED BY <1>2, <3>2, <3>3, WrittenKept
    <2> QED BY <2>1, <2>2
  <1>5. Sealing(t, n)'
    <2> SUFFICES ASSUME pc'[t] = "write" PROVE Sealing(t, n)'
      BY DEF Sealing
    <2>1. pc[t] = "encrypt"
      BY <1>1 DEF BatchFlow, Looping, Selected
    <2>2. Encrypt(t) /\ Plaintext(t) = n
      BY <1>6, <2>1, BatchAt DEF Plaintext
    <2>3. newestVersions'[tx[t].item][newest[tx[t].item].cur + 1].val = n
      BY <2>2, BatchSealed
    <2> QED BY <1>1, <2>1, <2>3 DEF Sealing, ItemOnly, CallKept
  <1> QED BY <1>3, <1>4, <1>5, <1>6 DEF BulkDone

\* importBatch.
LEMMA ImportStep ==
  ASSUME SystemInv, NEW t \in Txns, BatchStatement(t), tx[t].op = "import", BatchLocal(t)
  PROVE  ImportDone(t)'
  <1>1. /\ CallKept(t) /\ BatchFlow(t) /\ ItemOnly(t) /\ BatchLabels(t) /\ ImportDone(t)
        /\ pc[t] \in {"environment", "select", "lockRows", "preview"} \cup Looping
    BY BatchFrame DEF BatchLocal
  <1>2. tx[t].item \in Slots /\ rowLock \in [Slots -> Owners] /\ RowsGuarded
    BY DEF SystemInv, TypeOK, LocalsOK, LocksOK, Locals, Shared
  <1>3. /\ tx'[t].op = "import" /\ tx'[t].keys = tx[t].keys /\ tx'[t].strategy = tx[t].strategy
        /\ pc[t] # "item" => tx'[t].item = tx[t].item
    BY <1>1 DEF CallKept
  \* A row the import has not written yet, and it sees, is the committed one.
  <1>4. ASSUME NEW s \in Slots, Live(secrets[s]), Excluded(t, s), CanLockRow(t, s)
        PROVE  newest[s] = secrets[s] /\ View(t, s) = secrets[s]
    BY <1>1, <1>2, <1>4 DEF ImportDone, CanLockRow, RowsGuarded, View
  \* The rows it recovers or inserts under the skip strategy were not live.
  <1>5. ASSUME pc[t] \in {"recover", "insert"}, pc'[t] \in {"undelete", "encrypt"}, tx[t].strategy = "skip"
        PROVE  ~Live(secrets[tx[t].item])
    <2>1. PICK s \in Slots : s = tx[t].item
      BY <1>2
    <2>2. CanLockRow(t, s) /\ ~Live(View(t, s))
      <3>1. CASE pc[t] = "recover"
        <4>1. Recover(t) /\ pc'[t] = "undelete" /\ pc \in [Txns -> Labels]
          BY <1>1, <1>5, <3>1, BatchAt DEF BatchFlow, SystemInv, TypeOK, LocalsOK
        <4>2. Recoverable(View(t, s)) /\ CanLockRow(t, s)
          BY <2>1, <4>1 DEF Recover, Goto
        <4> QED BY <4>2 DEF Recoverable, Live
      <3>2. CASE pc[t] = "insert"
        BY <2>1, <3>2, BatchAt DEF Insert, Live
      <3> QED BY <1>5, <3>1, <3>2
    <2>3. Excluded(t, s)
      BY <1>5 DEF Excluded
    <2> QED BY <1>4, <2>1, <2>2, <2>3
  <1>6. ASSUME NEW s \in Slots, rowLock'[s] = t, Live(secrets[s]), Excluded(t, s)
        PROVE  newest'[s] = secrets[s]
    <2>1. newest[s] = secrets[s] /\ View(t, s) = secrets[s] /\ CanLockRow(t, s)
      BY <1>1, <1>4, <1>6 DEF ItemOnly
    <2>2. CASE s # tx[t].item \/ pc[t] \notin {"undelete", "insert", "write"}
      BY <1>1, <2>1, <2>2 DEF ItemOnly
    <2>3. CASE s = tx[t].item /\ pc[t] \in {"undelete", "write"}
      BY <1>1, <1>6, <2>3 DEF ImportDone, OnItem, Looping
    <2>4. CASE s = tx[t].item /\ pc[t] = "insert"
      BY <1>6, <2>1, <2>4, BatchAt DEF Insert, Live
    <2> QED BY <2>2, <2>3, <2>4
  \* The loop takes an excluded row only where the skip strategy saw none.
  <1>7. CASE pc[t] = "item"
    <2>1. NextItem(t) /\ pc \in [Txns -> Labels] /\ tx \in [Txns -> Locals] /\ tx[t] \in Locals
      BY <1>7, BatchAt DEF SystemInv, TypeOK, LocalsOK
    <2>2. PICK s \in tx[t].todo : NextItem(t)!(s)
      BY <2>1 DEF NextItem
    <2>3. CASE Included(t, s) /\ tx' = [tx EXCEPT ![t].item = s]
      <3>1. tx'[t].item = s
        BY <2>1, <2>3 DEF Locals
      <3>2. Excluded(t, s) => tx[t].strategy = "skip"
        BY <2>3 DEF Included, Excluded
      <3>3. tx[t].strategy = "skip" => pc'[t] = "createEnv"
        BY <2>1, <2>2, <2>3 DEF Included, Goto
      <3> QED BY <1>3, <1>6, <1>7, <3>1, <3>2, <3>3, <1>1 DEF ImportDone, Excluded, ItemOnly
    <2>4. CASE pc'[t] \in {"commit", "item"}
      BY <1>1, <1>3, <1>6, <2>4 DEF ImportDone, Excluded, ItemOnly, OnItem, Looping
    <2> QED BY <2>1, <2>2, <2>3, <2>4 DEF Goto
  <1>8. CASE pc[t] # "item"
    <2>1. pc'[t] \in OnItem => pc[t] \in OnItem
      BY <1>1, <1>8 DEF BatchFlow, OnItem, Looping, Selected, BatchLabels
    <2>2. pc'[t] \in {"undelete", "encrypt", "write"} /\ tx[t].strategy = "skip" => ~Live(secrets[tx[t].item])
      BY <1>1, <1>5, <1>8 DEF BatchFlow, Looping, Selected, BatchLabels, ImportDone
    <2> QED BY <1>1, <1>3, <1>6, <1>8, <2>1, <2>2 DEF ImportDone, Excluded, ItemOnly
  <1> QED BY <1>7, <1>8

\* What a promotion relies on in its loop: the sources are held, as committed, and
\* are no targets.
PromoteHolds(t) ==
  /\ tx[t].src # tx[t].env
  /\ \A s \in Slots : rowLock[s] = t /\ s[1] = tx[t].src => Untouched(s)
  /\ \A k \in Sources(t) : rowLock[<<tx[t].src, k>>] = t /\ Live(secrets[<<tx[t].src, k>>])

\* The locking SELECT of promote leaves a source noted only where it is queued, or
\* locked and live.
LEMMA PromoteSelects ==
  ASSUME SystemInv, NEW t \in Txns, Select(t) \/ LockRow(t), tx[t].op = "promote", PromoteDone(t),
         NEW k \in Keys, NEW s \in Slots, s = <<tx[t].src, k>>, tx'[t].seen[s] # 0
  PROVE  \/ pc'[t] = "lockRows" /\ s \in tx'[t].queue
         \/ rowLock'[s] = t /\ Live(secrets'[s])
  <1>0. /\ pc \in [Txns -> Labels] /\ tx \in [Txns -> Locals] /\ tx[t] \in Locals /\ RowsGuarded
        /\ tx[t].queue \subseteq Slots /\ rowLock \in [Slots -> Owners] /\ tx[t].seen \in [Slots -> Nat]
    BY DEF SystemInv, TypeOK, LocalsOK, LocksOK, Locals, Shared
  <1>1. CASE Select(t)
    <2> DEFINE match == {r \in Scope(t) : Live(View(t, r))}
    <2>1. /\ tx'[t].queue = match /\ tx'[t].seen = [r \in Slots |-> IF r \in match THEN View(t, r).cur ELSE 0]
          /\ pc'[t] = IF match = {} THEN Selected(t) ELSE "lockRows"
      BY <1>0, <1>1 DEF Select, Goto, Locals
    <2> HIDE DEF match
    <2> QED BY <2>1
  <1>2. CASE LockRow(t)
    <2>0. PICK r \in tx[t].queue : LockRow(t)!(r)
      BY <1>2 DEF LockRow
    <2> DEFINE c == IF Live(View(t, r)) /\ (tx[t].op = "promote" => View(t, r).cur = tx[t].seen[r]) THEN View(t, r).cur ELSE 0
    <2>1. /\ pc[t] = "lockRows" /\ CanLockRow(t, r) /\ rowLock' = [rowLock EXCEPT ![r] = t] /\ UNCHANGED tables
          /\ tx' = [tx EXCEPT ![t] = [tx[t] EXCEPT !.queue = tx[t].queue \ {r}, !.seen[r] = c]]
          /\ pc' = [pc EXCEPT ![t] = IF tx[t].queue = {r} THEN Selected(t) ELSE "lockRows"]
      BY <2>0 DEF Goto
    <2>2. c # 0 => Live(View(t, r))
      OBVIOUS
    <2> HIDE DEF c
    <2>3. tx'[t] = [tx[t] EXCEPT !.queue = tx[t].queue \ {r}, !.seen[r] = c]
      BY <1>0, <2>1
    <2>4. tx'[t].queue = tx[t].queue \ {r} /\ tx'[t].seen = [tx[t].seen EXCEPT ![r] = c]
      BY <1>0, <2>3 DEF Locals
    <2>5. CASE s = r
      <3>1. Live(View(t, r))
        BY <1>0, <2>2, <2>4, <2>5
      <3>2. View(t, r) = secrets[r]
        BY <1>0, <2>1, <2>5 DEF PromoteDone, Collecting, Untouched, View
      <3> QED BY <1>0, <2>1, <2>5, <3>1, <3>2 DEF tables, Live
    <2>6. CASE s # r
      <3>1. tx[t].seen[s] # 0
        BY <1>0, <2>4, <2>6
      <3>2. s \in tx[t].queue \/ (rowLock[s] = t /\ Live(secrets[s]))
        BY <2>1, <3>1 DEF PromoteDone, Sources
      <3> QED BY <1>0, <2>1, <2>4, <2>6, <3>2 DEF tables, Live
    <2> QED BY <2>5, <2>6
  <1> QED BY <1>1, <1>2

\* In the loop the sources stay as they are.
LEMMA PromoteKeeps ==
  ASSUME SystemInv, NEW t \in Txns, BatchStatement(t), tx[t].op = "promote", BatchLocal(t), pc[t] \in {"preview"} \cup Looping
  PROVE  /\ Sources(t)' = Sources(t) /\ PromoteHolds(t) /\ PromoteHolds(t)'
         /\ \A k \in Sources(t) : SourceValue(t, k)' = SourceValue(t, k)
  <1>1. /\ CallKept(t) /\ BatchFlow(t) /\ ItemOnly(t) /\ BatchLabels(t) /\ BatchProgress(t) /\ PromoteDone(t)
    BY BatchFrame DEF BatchLocal
  <1>2. /\ tx[t].item \in Slots /\ rowLock \in [Slots -> Owners] /\ RowsGuarded /\ tx[t].src \in Envs
        /\ \A k \in Keys : <<tx[t].src, k>> \in Slots
    BY DEF SystemInv, TypeOK, LocalsOK, LocksOK, Locals, Shared, Slots
  <1>3. tx'[t].op = "promote" /\ tx'[t].src = tx[t].src /\ tx'[t].env = tx[t].env /\ tx[t].src # tx[t].env
    BY <1>1 DEF CallKept, PromoteDone
  <1>4. pc[t] \in OnItem => tx[t].item[1] # tx[t].src
    <2>1. pc[t] \in OnItem => tx[t].item \in {tx[t].env} \X Sources(t)
      BY <1>1 DEF BatchProgress, PromoteDone, OnItem
    <2> QED BY <1>3, <2>1
  <1>5. \A s \in Slots : s[1] = tx[t].src =>
          /\ tx'[t].seen[s] = tx[t].seen[s] /\ newest'[s] = newest[s] /\ newestVersions'[s] = newestVersions[s]
    BY <1>1, <1>4 DEF CallKept, ItemOnly, OnItem, Looping
  <1>6. Sources(t)' = Sources(t) /\ Sources(t) \subseteq Keys
    BY <1>2, <1>3, <1>5 DEF Sources
  <1>7. PromoteHolds(t)
    <2>1. \A k \in Sources(t) : rowLock[<<tx[t].src, k>>] = t /\ Live(secrets[<<tx[t].src, k>>])
      BY <1>1 DEF PromoteDone, Looping
    <2> QED BY <1>1, <1>3, <2>1 DEF PromoteHolds, PromoteDone
  <1>8. UNCHANGED <<secrets, versions>>
    BY <1>1 DEF ItemOnly
  <1>9. \A s \in Slots : rowLock'[s] = t /\ s[1] = tx[t].src => Untouched(s)'
    <2> SUFFICES ASSUME NEW s \in Slots, rowLock'[s] = t, s[1] = tx[t].src PROVE Untouched(s)'
      OBVIOUS
    <2>1. Untouched(s)
      BY <1>1, <1>2, <1>7 DEF ItemOnly, CanLockRow, PromoteHolds, RowsGuarded, Untouched
    <2> QED BY <1>5, <1>8, <2>1 DEF Untouched
  <1>10. \A k \in Sources(t) : rowLock'[<<tx[t].src, k>>] = t
    BY <1>1, <1>2, <1>6, <1>7 DEF PromoteHolds, ItemOnly
  <1>11. PromoteHolds(t)'
    BY <1>3, <1>6, <1>7, <1>8, <1>9, <1>10 DEF PromoteHolds, Live
  <1> QED BY <1>3, <1>6, <1>7, <1>8, <1>11 DEF SourceValue

\* promote.
LEMMA PromoteStep ==
  ASSUME SystemInv, NEW t \in Txns, BatchStatement(t), tx[t].op = "promote", BatchLocal(t)
  PROVE  PromoteDone(t)'
  <1>1. /\ CallKept(t) /\ BatchFlow(t) /\ ItemOnly(t) /\ BatchLabels(t) /\ BatchProgress(t) /\ PromoteDone(t)
        /\ BatchProgress(t)' /\ pc[t] \in {"environment", "select", "lockRows", "preview"} \cup Looping
    BY BatchFrame, BatchProgressStep DEF BatchLocal
  <1>2. /\ tx[t].item \in Slots /\ rowLock \in [Slots -> Owners] /\ RowsGuarded /\ tx[t].todo \subseteq Slots
        /\ \A k \in Keys : <<tx[t].src, k>> \in Slots /\ <<tx[t].env, k>> \in Slots
    BY DEF SystemInv, TypeOK, LocalsOK, LocksOK, Locals, Shared, Slots
  <1>3. tx'[t].op = "promote" /\ tx'[t].src = tx[t].src /\ tx'[t].env = tx[t].env /\ tx'[t].keys = tx[t].keys
    BY <1>1 DEF CallKept
  <1>4. CASE pc[t] \in {"environment", "select", "lockRows"}
    <2>1. \A s \in Slots : rowLock'[s] = t => Untouched(s)'
      <3> SUFFICES ASSUME NEW s \in Slots, rowLock'[s] = t PROVE Untouched(s)'
        OBVIOUS
      <3>1. Untouched(s)
        BY <1>1, <1>2, <1>4 DEF ItemOnly, CanLockRow, PromoteDone, RowsGuarded, Untouched, Collecting
      <3> QED BY <1>1, <1>4, <3>1 DEF Untouched, ItemOnly
    <2>2. pc'[t] \in {"select", "lockRows", "preview"}
      BY <1>1, <1>4 DEF BatchFlow, Selected
    <2>3. ASSUME pc'[t] \in {"lockRows", "preview"}, NEW k \in Sources(t)'
          PROVE  LET s == <<tx'[t].src, k>> IN
                 (pc'[t] = "lockRows" /\ s \in tx'[t].queue) \/ (rowLock'[s] = t /\ Live(secrets'[s]))
      <3>1. PICK s \in Slots : s = <<tx[t].src, k>> /\ k \in Keys
        BY <1>2 DEF Sources
      <3>2. tx'[t].seen[s] # 0
        BY <1>3, <3>1 DEF Sources
      <3>3. Select(t) \/ LockRow(t)
        BY <1>1, <1>4, <2>3, BatchAt DEF BatchFlow
      <3>4. (pc'[t] = "lockRows" /\ s \in tx'[t].queue) \/ (rowLock'[s] = t /\ Live(secrets'[s]))
        BY <1>1, <3>1, <3>2, <3>3, PromoteSelects
      <3> QED BY <1>3, <3>1, <3>4
    <2>4. pc'[t] \notin Looping \cup {"commit"}
      BY <2>2 DEF Looping
    <2> QED BY <1>1, <1>3, <2>1, <2>2, <2>3, <2>4 DEF PromoteDone, Live
  <1>5. CASE pc[t] \in {"preview"} \cup Looping
    <2>1. /\ Sources(t)' = Sources(t) /\ PromoteHolds(t) /\ PromoteHolds(t)' /\ Sources(t) \subseteq Keys
          /\ \A k \in Sources(t) : SourceValue(t, k)' = SourceValue(t, k)
      BY <1>5, PromoteKeeps DEF Sources
    <2>2. pc'[t] \in Looping \cup {"commit"} /\ pc'[t] \notin Collecting
      BY <1>1, <1>5 DEF BatchFlow, Looping, Collecting
    <2>3. tx[t].keys \subseteq Sources(t) /\ tx'[t].todo \subseteq {tx[t].env} \X Sources(t)
      <3>1. CASE pc[t] = "preview"
        <4>1. PromotionPreview(t) /\ tx \in [Txns -> Locals] /\ tx[t] \in Locals
          BY <3>1, BatchAt DEF SystemInv, TypeOK, LocalsOK
        <4> QED BY <4>1 DEF PromotionPreview, Locals
      <3>2. CASE pc[t] \in Looping
        <4>1. tx'[t].todo \subseteq tx[t].todo
          <5>1. pc[t] = "item" => tx'[t].todo = tx[t].todo
            BY BatchAt, BatchItem
          <5>2. pc[t] = "write" => tx'[t].todo = tx[t].todo \ {tx[t].item}
            BY BatchAt, BatchWritten
          <5> QED BY <1>1, <3>2, <5>1, <5>2 DEF CallKept, Looping
        <4> QED BY <1>1, <3>2, <4>1 DEF PromoteDone
      <3> QED BY <1>5, <3>1, <3>2
    <2>4. ASSUME NEW k \in Sources(t), <<tx[t].env, k>> \notin tx'[t].todo
          PROVE  Wrote(t, <<tx[t].env, k>>, SourceValue(t, k))'
      <3>1. PICK s \in Slots : s = <<tx[t].env, k>>
        BY <1>2, <2>1
      <3>0. PICK v : v = SourceValue(t, k)
        OBVIOUS
      <3>2. Wrote(t, s, v)'
        <4>1. CASE pc[t] = "preview"
          <5>1. PromotionPreview(t) /\ tx \in [Txns -> Locals] /\ tx[t] \in Locals
            BY <4>1, BatchAt DEF SystemInv, TypeOK, LocalsOK
          <5>2. tx'[t].todo = {tx[t].env} \X Sources(t)
            BY <5>1 DEF PromotionPreview, Locals
          <5> QED BY <2>4, <5>2
        <4>2. CASE pc[t] = "write" /\ s = tx[t].item
          <5>1. k = tx[t].item[2]
            BY <3>1, <4>2
          <5>2. WriteVersion(t) /\ Sealing(t, v)
            BY <1>1, <3>0, <4>2, <5>1, BatchAt DEF PromoteDone, Looping
          <5> QED BY <4>2, <5>2, WrittenNow
        <4>3. CASE pc[t] \in Looping /\ ~(pc[t] = "write" /\ s = tx[t].item)
          <5>1. pc[t] = "item" => tx'[t].todo = tx[t].todo
            BY BatchAt, BatchItem
          <5>2. pc[t] = "write" => tx'[t].todo = tx[t].todo \ {tx[t].item}
            BY BatchAt, BatchWritten
          <5>3. pc[t] \notin {"item", "write"} => tx'[t].todo = tx[t].todo
            BY <1>1, <4>3 DEF CallKept, Looping
          <5>4. s \notin tx[t].todo
            BY <2>4, <3>1, <4>3, <5>1, <5>2, <5>3
          <5>5. s # tx[t].item \/ pc[t] \notin {"undelete", "insert", "encrypt", "write"}
            BY <1>1, <5>4 DEF BatchProgress, OnItem, Looping
          <5>6. Wrote(t, s, v)
            BY <1>1, <3>0, <3>1, <4>3, <5>4 DEF PromoteDone
          <5> QED BY <5>5, <5>6, WrittenKept
        <4> QED BY <1>5, <4>1, <4>2, <4>3
      <3>3. v = SourceValue(t, k)'
        BY <2>1, <3>0
      <3> QED BY <1>3, <3>1, <3>2, <3>3 DEF Wrote
    <2>5. Sealing(t, SourceValue(t, tx[t].item[2]))'
      <3> SUFFICES ASSUME pc'[t] = "write" PROVE Sealing(t, SourceValue(t, tx[t].item[2]))'
        BY DEF Sealing
      <3>1. pc[t] = "encrypt"
        BY <1>1, <1>5 DEF BatchFlow, Looping
      <3>2. Encrypt(t) /\ tx'[t].item = tx[t].item /\ UNCHANGED newest
        BY <1>1, <3>1, BatchAt DEF CallKept, ItemOnly
      <3>3. PICK k \in Sources(t) : k = tx[t].item[2]
        BY <1>1, <3>1 DEF BatchProgress, PromoteDone, OnItem, Looping
      <3>4. PICK s \in Slots : s = <<tx[t].src, k>>
        BY <1>2, <2>1
      <3>5. rowLock[s] = t /\ Untouched(s)
        BY <2>1, <3>4 DEF PromoteHolds
      <3>6. Plaintext(t) = versions[s][secrets[s].cur].val
        BY <3>3, <3>4, <3>5 DEF Plaintext, Untouched, History, View
      <3>7. Plaintext(t) = SourceValue(t, k)'
        BY <2>1, <3>4, <3>6 DEF SourceValue
      <3>8. newestVersions'[tx[t].item][newest[tx[t].item].cur + 1].val = Plaintext(t)
        BY <3>2, BatchSealed
      <3> QED BY <3>2, <3>3, <3>7, <3>8 DEF Sealing
    <2> QED BY <1>1, <1>3, <2>1, <2>2, <2>3, <2>4, <2>5 DEF PromoteDone, PromoteHolds
  <1> QED BY <1>1, <1>4, <1>5

\* A step of one transaction keeps what its batch relies on.
LEMMA BatchStep ==
  ASSUME SystemInv, BatchInv, NEW t \in Txns, Statement(t), ~Commit(t)
  PROVE  BatchLocal(t)'
  <1>1. tx'[t].op = tx[t].op /\ BatchLocal(t)
    BY OperationKept DEF BatchInv
  <1>2. CASE tx[t].op \notin BatchOps
    BY <1>1, <1>2 DEF BatchOps, BatchLocal, BatchLabels, BatchProgress, BulkDone, PromoteDone, ImportDone
  <1>3. CASE tx[t].op \in BatchOps
    <2>1. pc[t] \in Batching /\ pc[t] # "commit"
      <3>1. pc[t] \in Batching
        BY <1>1, <1>3 DEF BatchLocal, BatchLabels, BatchOps
      <3>2. pc[t] # "commit"
        BY DEF Statement, MetadataRow, Check, WriteMetadata, SoftDelete, Rotate, EnvGet, EnvCount, EnvMark, CascadeSnap,
               Cascade, CascadeEnd, EnvReload, Environment, Select, LockRow, PromotionPreview, NextItem, BulkRow,
               CreateEnvironment, Recover, Undelete, Insert, Encrypt, WriteVersion
      <3> QED BY <3>1, <3>2
    <2>2. BatchStatement(t)
      BY <2>1 DEF Statement, BatchStatement, MetadataRow, Check, WriteMetadata, SoftDelete, Rotate, EnvGet, EnvCount, EnvMark,
               CascadeSnap, Cascade, CascadeEnd, EnvReload, Batching, Collecting, Looping
    <2>3. BatchLabels(t)' /\ BatchProgress(t)'
      <3>1. tx[t].op = "import" => BatchProgress(t)'
        BY <1>1 DEF BatchProgress
      <3> QED BY <1>1, <1>3, <2>2, <3>1, BatchLabelsStep, BatchProgressStep DEF BatchOps
    <2>4. BulkDone(t)' /\ PromoteDone(t)' /\ ImportDone(t)'
      <3>1. CASE tx[t].op = "bulk"
        <4>1. BulkDone(t)'
          BY <1>1, <2>2, <3>1, BulkStep
        <4> QED BY <1>1, <3>1, <4>1 DEF PromoteDone, ImportDone
      <3>2. CASE tx[t].op = "promote"
        <4>1. PromoteDone(t)'
          BY <1>1, <2>2, <3>2, PromoteStep
        <4> QED BY <1>1, <3>2, <4>1 DEF BulkDone, ImportDone
      <3>3. CASE tx[t].op = "import"
        <4>1. ImportDone(t)'
          BY <1>1, <2>2, <3>3, ImportStep
        <4> QED BY <1>1, <3>3, <4>1 DEF BulkDone, PromoteDone
      <3> QED BY <1>3, <3>1, <3>2, <3>3 DEF BatchOps
    <2> QED BY <2>3, <2>4 DEF BatchLocal
  <1> QED BY <1>2, <1>3

\* BEGIN: a batch has everything still to do.
LEMMA BatchBegin == ASSUME SystemInv, KeyInv, NEW t \in Txns, Begin(t) PROVE BatchLocal(t)'
  <1>0. /\ pc \in [Txns -> Labels] /\ tx \in [Txns -> Locals] /\ Blank \in Locals
    BY BlankType DEF SystemInv, TypeOK, LocalsOK
  <1>1. \A s \in Slots : rowLock'[s] # t
    <2>1. UNCHANGED locks /\ pc[t] = "idle"
      BY BeginCalled DEF Called, SystemInv, Start
    <2> QED BY <2>1 DEF KeyInv, RotatesAlone, locks
  <1>2. CASE BeginBulkSet(t)
    <2>1. pc'[t] = "environment" /\ tx'[t].op = "bulk" /\ tx'[t].all = tx'[t].todo
      BY <1>0, <1>2 DEF BeginBulkSet, Call, Start, Goto, Locals
    <2> QED BY <2>1 DEF BatchLocal, BatchLabels, BatchProgress, BulkDone, Sealing, PromoteDone, ImportDone, Batching, Collecting,
                        Looping, OnItem
  <1>3. CASE BeginImport(t)
    <2>1. pc'[t] = "environment" /\ tx'[t].op = "import"
      BY <1>0, <1>3 DEF BeginImport, Call, Start, Goto, Locals
    <2> QED BY <1>1, <2>1 DEF BatchLocal, BatchLabels, BatchProgress, BulkDone, PromoteDone, ImportDone, Batching, Collecting,
                        Looping, OnItem
  <1>4. CASE BeginPromote(t)
    <2>1. pc'[t] = "environment" /\ tx'[t].op = "promote" /\ tx'[t].src # tx'[t].env
      BY <1>0, <1>4 DEF BeginPromote, Call, Start, Goto, Locals
    <2> QED BY <1>1, <2>1 DEF BatchLocal, BatchLabels, BatchProgress, BulkDone, PromoteDone, ImportDone, Batching, Collecting,
                        Looping, OnItem
  <1>5. CASE ~(BeginBulkSet(t) \/ BeginImport(t) \/ BeginPromote(t))
    <2>1. tx'[t].op \notin BatchOps
      <3>1. BeginUpdate(t) => tx'[t].op = "update"
        BY <1>0 DEF BeginUpdate, Call, Start, Locals
      <3>2. BeginUpdateNotes(t) => tx'[t].op = "notes"
        BY <1>0 DEF BeginUpdateNotes, Call, Start, Locals
      <3>3. BeginRollback(t) => tx'[t].op = "rollback"
        BY <1>0 DEF BeginRollback, Call, Start, Locals
      <3>4. BeginDelete(t) => tx'[t].op = "delete"
        BY <1>0 DEF BeginDelete, Call, Start, Locals
      <3>5. BeginCreate(t) => tx'[t].op = "create"
        BY <1>0 DEF BeginCreate, Call, Start, Locals
      <3>6. BeginRotate(t) => tx'[t].op = "rotate"
        BY <1>0 DEF BeginRotate, Start, Locals
      <3>7. BeginEnvDelete(t) => tx'[t].op = "envDelete"
        BY <1>0 DEF BeginEnvDelete, Call, Start, Locals
      <3>8. BeginEnvRestore(t) => tx'[t].op = "envRestore"
        BY <1>0 DEF BeginEnvRestore, Call, Start, Locals
      <3> QED BY <1>5, <3>1, <3>2, <3>3, <3>4, <3>5, <3>6, <3>7, <3>8 DEF Begin, BatchOps
    <2> QED BY <2>1 DEF BatchOps, BatchLocal, BatchLabels, BatchProgress, BulkDone, PromoteDone, ImportDone
  <1> QED BY <1>2, <1>3, <1>4, <1>5

\* An idle transaction runs no batch.
LEMMA BatchEnd == ASSUME SystemInv, NEW t \in Txns, Commit(t) \/ Abort(t) PROVE BatchLocal(t)'
  <1>1. tx'[t] = Blank
    BY DEF Commit, Abort, Rollback, Release, SystemInv, TypeOK, LocalsOK
  <1>2. tx'[t].op = "none"
    BY <1>1 DEF Blank
  <1> QED BY <1>2 DEF BatchLocal, BatchLabels, BatchProgress, BulkDone, PromoteDone, ImportDone

LEMMA InitBatches == ASSUME Init PROVE BatchInv
  <1>1. ASSUME NEW t \in Txns PROVE tx[t].op = "none"
    BY DEF Init, DbInit, Blank
  <1> QED BY <1>1 DEF BatchInv, BatchLocal, BatchLabels, BatchProgress, BulkDone, PromoteDone, ImportDone

\* BatchInv is inductive relative to SystemInv and KeyInv.
LEMMA NextBatches == ASSUME SystemInv, KeyInv, BatchInv, [Next]_vars PROVE BatchInv'
  <1>1. ASSUME UNCHANGED dbVars PROVE BatchInv'
    <2> SUFFICES ASSUME NEW t \in Txns PROVE BatchLocal(t)'
      BY DEF BatchInv
    <2>1. BatchLocal(t)
      BY DEF BatchInv
    <2>2. BatchLabels(t)' /\ BatchProgress(t)' /\ ImportDone(t)'
      BY <1>1, <2>1 DEF dbVars, BatchLocal, BatchLabels, BatchProgress, ImportDone, Excluded, Live
    <2>3. BulkDone(t)'
      BY <1>1, <2>1 DEF dbVars, BatchLocal, BulkDone, Wrote, Sealing, Live
    <2>4. PromoteDone(t)'
      BY <1>1, <2>1 DEF dbVars, BatchLocal, PromoteDone, Sources, SourceValue, Wrote, Sealing, Untouched, Live
    <2> QED BY <2>2, <2>3, <2>4 DEF BatchLocal
  <1>2. CASE \E t \in Txns : Begin(t) \/ Statement(t) \/ Reject(t) \/ Victim(t) \/ Crash(t)
    <2>1. PICK t \in Txns : Begin(t) \/ Statement(t) \/ Reject(t) \/ Victim(t) \/ Crash(t)
      BY <1>2
    <2>2. BatchLocal(t)'
      BY <2>1, BatchBegin, BatchStep, BatchEnd DEF Reject, Victim, Crash
    <2>3. Respects(t)
      BY <2>1, TransactionStep DEF StepOf
    <2>4. \A u \in Txns : BatchLocal(u)'
      BY <2>2, <2>3, OthersBatch DEF BatchInv
    <2> QED BY <2>4 DEF BatchInv
  <1>3. CASE \E e \in Polled : RuntimeScope(e) \/ NotModified(e) \/ RuntimeRows(e) \/ RuntimeError(e)
    BY <1>1, <1>3 DEF RuntimeScope, NotModified, RuntimeRows, RuntimeError
  <1>4. CASE UNCHANGED vars
    BY <1>1, <1>4 DEF vars
  <1> QED BY <1>2, <1>3, <1>4 DEF Next

\* BatchInv holds in every reachable state.
LEMMA BatchesInvariant == Spec => []BatchInv
  <1>1. Init => BatchInv
    BY InitBatches
  <1>2. SystemInv /\ KeyInv /\ BatchInv /\ [Next]_vars => BatchInv'
    BY NextBatches
  <1> QED BY <1>1, <1>2, SystemInvariant, KeysInvariant, PTL DEF Spec

\* A bulk write that is about to commit holds every key it was given with its own value
\* as the current one (bulkSet).
THEOREM BulkCompletes == Spec => []BulkComplete
  <1>1. SystemInv /\ BatchInv => BulkComplete
    <2> SUFFICES ASSUME SystemInv, BatchInv, NEW t \in Txns, pc[t] = "commit", tx[t].op = "bulk", NEW s \in tx[t].all
                 PROVE  Live(newest[s]) /\ newestVersions[s][newest[s].cur].val = tx[t].n
      BY DEF BulkComplete
    <2>1. BatchLocal(t)
      BY DEF BatchInv
    <2>2. tx[t].todo = {}
      BY <2>1 DEF BatchLocal, BatchProgress
    <2> QED BY <2>1, <2>2 DEF BatchLocal, BulkDone, Wrote
  <1> QED BY <1>1, SystemInvariant, BatchesInvariant, PTL

\* A promotion of selected keys that is about to commit has copied each of them, at the
\* value its source has then (promote: FOR UPDATE of source and target rows).
THEOREM PromotionsSelected == Spec => []PromoteSelected
  <1>1. SystemInv /\ BatchInv => PromoteSelected
    <2> SUFFICES ASSUME SystemInv, BatchInv, NEW t \in Txns, Promoting(t), NEW k \in tx[t].keys PROVE Copied(t, k)
      BY DEF PromoteSelected
    <2>1. PromoteDone(t) /\ BatchProgress(t) /\ pc[t] = "commit" /\ tx[t].op = "promote"
      BY DEF BatchInv, BatchLocal, Promoting
    <2>2. tx[t].todo = {} /\ k \in Sources(t)
      BY <2>1 DEF BatchProgress, PromoteDone
    <2>3. Live(secrets[<<tx[t].src, k>>]) /\ Wrote(t, <<tx[t].env, k>>, SourceValue(t, k))
      BY <2>1, <2>2 DEF PromoteDone
    <2> QED BY <2>3 DEF Copied, Wrote, SourceValue
  <1> QED BY <1>1, SystemInvariant, BatchesInvariant, PTL

\* An import that is about to commit has left alone the live secrets its strategy
\* excludes, also those created or changed while it ran (importBatch).
THEOREM ImportsKeep == Spec => []ImportKeeps
  <1>1. BatchInv => ImportKeeps
    BY DEF BatchInv, BatchLocal, ImportDone, ImportKeeps, Excluded
  <1> QED BY <1>1, BatchesInvariant, PTL

\* What the tables and the transactions of the store can be between two statements:
\* locks, keys, stamps and the progress of batches together.
THEOREM StoreInvariant == Spec => []StoreInv
  <1>1. SystemInv /\ KeyInv /\ RowInv /\ BatchInv => StoreInv
    BY DEF StoreInv
  <1> QED BY <1>1, SystemInvariant, KeysInvariant, RowsInvariant, BatchesInvariant, PTL
=============================================================================
