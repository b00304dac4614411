--------------------------- MODULE SecretKeyProofs --------------------------
(***************************************************************************)
(* KeyInv is inductive on top of SystemInv: every committed version can be *)
(* decrypted, one data key is active, and a rotation fences the writers    *)
(* that come after it.                                                     *)
(***************************************************************************)
EXTENDS SecretInvariantProofs

-----------------------------------------------------------------------------
(* The key table. *)

\* When only the last key is active, it is the one statements encrypt with.
LEMMA LastIsActive ==
  ASSUME NEW ks \in Seq(KeyStatus), LastActive(ks)
  PROVE  /\ Active(ks) = IF ks = <<>> THEN {} ELSE {Len(ks)}
         /\ ks # <<>> => ActiveVersion(ks) = Len(ks)
  <1>1. DOMAIN ks = 1 .. Len(ks) /\ Len(ks) \in Nat
    OBVIOUS
  <1>2. CASE ks = <<>>
    BY <1>2 DEF Active
  <1>3. CASE ks # <<>>
    <2>1. Len(ks) \in DOMAIN ks
      BY <1>1, <1>3
    <2>2. Active(ks) = {Len(ks)}
      BY <2>1 DEF Active, LastActive
    <2>3. ActiveVersion(ks) = Len(ks)
      BY <2>1 DEF ActiveVersion, LastActive
    <2> QED BY <1>3, <2>2, <2>3
  <1> QED BY <1>2, <1>3

\* #activate adds a key and makes it the only active one.
LEMMA ActivateLast ==
  ASSUME NEW ks \in Seq(KeyStatus)
  PROVE  Activate(ks) \in Seq(KeyStatus) /\ Len(Activate(ks)) = Len(ks) + 1 /\ LastActive(Activate(ks))
  <1> DEFINE old == [v \in DOMAIN ks |-> "retired"]
  <1>1. old \in Seq(KeyStatus) /\ Len(old) = Len(ks) /\ DOMAIN old = 1 .. Len(ks) /\ \A v \in DOMAIN old : old[v] = "retired"
    BY DEF KeyStatus
  <1>2. Activate(ks) = Append(old, "active")
    BY DEF Activate
  <1> HIDE DEF old
  <1>3. /\ Append(old, "active") \in Seq(KeyStatus) /\ Len(Append(old, "active")) = Len(ks) + 1
        /\ \A v \in 1 .. Len(ks) : Append(old, "active")[v] = "retired"
        /\ Append(old, "active")[Len(ks) + 1] = "active"
    BY <1>1 DEF KeyStatus
  <1>4. LastActive(Append(old, "active"))
    BY <1>3 DEF LastActive
  <1> QED BY <1>2, <1>3, <1>4

\* ensureActive leaves a table with an active key alone, and gives an empty one its
\* first: what was sealed under the active key still is.
LEMMA EnsureLast ==
  ASSUME NEW ks \in Seq(KeyStatus), LastActive(ks)
  PROVE  /\ EnsureActive(ks) \in Seq(KeyStatus) /\ LastActive(EnsureActive(ks))
         /\ Len(ks) <= Len(EnsureActive(ks))
         /\ Active(ks) \subseteq Active(EnsureActive(ks))
         /\ ActiveVersion(EnsureActive(ks)) \in Active(EnsureActive(ks))
  <1>1. CASE ks = <<>>
    <2>1. Active(ks) = {} /\ EnsureActive(ks) = Activate(ks)
      BY <1>1, LastIsActive DEF EnsureActive
    <2> QED BY <2>1, ActivateLast, KeysType
  <1>2. CASE ks # <<>>
    <2>1. EnsureActive(ks) = ks
      BY <1>2, LastIsActive DEF EnsureActive
    <2> QED BY <2>1, KeysType
  <1> QED BY <1>1, <1>2

\* A longer key table opens what a shorter one did.
LEMMA OpensLonger ==
  ASSUME NEW ks \in Seq(KeyStatus), NEW more \in Seq(KeyStatus), Len(ks) <= Len(more), NEW sealed, NEW s, NEW v,
         Opens(sealed, ks, s, v)
  PROVE  Opens(sealed, more, s, v)
  BY DEF Opens

-----------------------------------------------------------------------------
(* Steps. *)

\* No row without an owner has a pending version.
LEMMA PendingOwned ==
  ASSUME SystemInv, NEW s \in Slots, rowLock[s] = NoTxn
  PROVE  Pending(s) = {}
  BY DEF SystemInv, Shared, RowsGuarded, Pending

\* A step that leaves histories and keys alone, and only takes row locks nobody held.
LEMMA KeyFrame ==
  ASSUME SystemInv, KeyInv, NEW t \in Txns, Respects(t), pc'[t] \notin {"idle", "rotate"},
         UNCHANGED <<versions, newestVersions, deks, newestDeks, orgLock>>,
         \A s \in Slots : rowLock[s] # NoTxn => rowLock'[s] = rowLock[s]
  PROVE  KeyInv'
  <1>1. KeysGuarded' /\ Decryptable'
    BY DEF KeyInv, KeysGuarded, Decryptable, LastActive
  <1>2. PendingSealed'
    <2> SUFFICES ASSUME NEW s \in Slots, NEW v \in Pending(s)
                 PROVE  /\ orgLock = rowLock'[s]
                        /\ newestVersions[s][v].dek \in Active(newestDeks)
                        /\ newestVersions[s][v].aad = <<s, v>>
      BY DEF PendingSealed, Pending, Active
    <2>1. rowLock[s] # NoTxn
      BY PendingOwned
    <2> QED BY <2>1 DEF KeyInv, PendingSealed
  <1>3. \A u \in Txns : RotatesAlone(u)'
    <2> SUFFICES ASSUME NEW u \in Txns, u # t PROVE RotatesAlone(u)'
      BY DEF RotatesAlone
    <2>1. pc'[u] = pc[u] /\ \A s \in Slots : rowLock'[s] = u => rowLock[s] = u
      BY NoTxnAssumption DEF Respects
    <2> QED BY <2>1 DEF KeyInv, RotatesAlone
  <1> QED BY <1>1, <1>2, <1>3 DEF KeyInv


\* Every statement but the INSERT of a version, the rotation and COMMIT is such a step.
LEMMA KeyOther ==
  ASSUME SystemInv, KeyInv, NEW t \in Txns, Statement(t), ~Encrypt(t), ~Rotate(t), ~Commit(t)
  PROVE  KeyInv'
  <1>0. pc \in [Txns -> Labels] /\ rowLock \in [Slots -> Owners] /\ tx[t] \in Locals /\ t # NoTxn
    BY NoTxnAssumption DEF SystemInv, TypeOK, LocalsOK, LocksOK
  <1>1. Respects(t)
    BY TransactionStep DEF StepOf
  <1> DEFINE Framed == /\ UNCHANGED <<versions, newestVersions, deks, newestDeks, orgLock>>
                       /\ pc'[t] \notin {"idle", "rotate"}
                       /\ \A s \in Slots : rowLock[s] # NoTxn => rowLock'[s] = rowLock[s]
  <1>2. ASSUME Check(t) \/ CreateEnvironment(t) \/ Environment(t) \/ Select(t) \/ PromotionPreview(t) \/ NextItem(t)
        PROVE  Framed
    <2>1. UNCHANGED <<tables, locks>>
      BY <1>2 DEF Check, CreateEnvironment, Environment, Select, PromotionPreview, NextItem
    <2>2. pc'[t] \notin {"idle", "rotate"}
      BY <1>0, <1>2 DEF Check, CreateEnvironment, Environment, Select, Selected, PromotionPreview, NextItem, Goto
    <2> QED BY <2>1, <2>2 DEF tables, locks
  <1>3. ASSUME EnvGet(t) \/ EnvCount(t) \/ CascadeSnap(t) \/ EnvReload(t) \/ EnvMark(t) \/ CascadeEnd(t)
        PROVE  Framed
    <2>1. UNCHANGED <<versions, newestVersions, deks, newestDeks, rowLock, orgLock>>
      BY <1>3 DEF EnvGet, EnvCount, CascadeSnap, EnvReload, EnvMark, CascadeEnd, tables, locks, committed
    <2>2. pc'[t] \notin {"idle", "rotate"}
      BY <1>0, <1>3 DEF EnvGet, EnvCount, CascadeSnap, EnvReload, EnvMark, CascadeEnd, Goto
    <2> QED BY <2>1, <2>2
  <1>4. ASSUME WriteMetadata(t) \/ SoftDelete(t) \/ WriteVersion(t) \/ Undelete(t)
        PROVE  Framed
    <2>1. UNCHANGED <<versions, newestVersions, deks, newestDeks, rowLock, orgLock>>
      BY <1>4 DEF WriteMetadata, SoftDelete, WriteVersion, Undelete, committed
    <2>2. pc'[t] \notin {"idle", "rotate"}
      BY <1>0, <1>4 DEF WriteMetadata, SoftDelete, WriteVersion, Undelete, Goto
    <2> QED BY <2>1, <2>2
  <1>5. ASSUME MetadataRow(t) \/ Recover(t) \/ Insert(t) \/ LockRow(t) \/ BulkRow(t) \/ Cascade(t)
        PROVE  Framed
    <2>1. UNCHANGED <<versions, newestVersions, deks, newestDeks, orgLock>>
      BY <1>5 DEF MetadataRow, Recover, Insert, LockRow, BulkRow, Cascade, tables, committed
    <2>2. pc'[t] \notin {"idle", "rotate"}
      BY <1>0, <1>5 DEF MetadataRow, Recover, Insert, LockRow, BulkRow, Cascade, Selected, Goto
    <2>3. UNCHANGED rowLock \/ \E s \in Slots : CanLockRow(t, s) /\ rowLock' = [rowLock EXCEPT ![s] = t]
      <3>1. tx[t].item \in Slots /\ tx[t].queue \subseteq Slots
        BY <1>0 DEF Locals
      <3> QED BY <1>5, <3>1 DEF MetadataRow, Recover, Insert, LockRow, BulkRow, Cascade
    <2>4. \A s \in Slots : rowLock[s] # NoTxn => rowLock'[s] = rowLock[s]
      BY <1>0, <2>3 DEF CanLockRow
    <2> QED BY <2>1, <2>2, <2>4
  <1>6. Framed
    BY <1>2, <1>3, <1>4, <1>5 DEF Statement
  <1> QED BY <1>1, <1>6, KeyFrame

\* INSERT of a version: sealed under the active key, by the owner of the advisory lock.
LEMMA KeyEncrypt == ASSUME SystemInv, KeyInv, NEW t \in Txns, Encrypt(t) PROVE KeyInv'
  <1>s. PICK s \in Slots : s = tx[t].item
    BY DEF SystemInv, TypeOK, LocalsOK, Locals
  <1>v. PICK v \in Nat : v = tx[t].seen[s] + 1
    BY <1>s DEF SystemInv, TypeOK, LocalsOK, Locals
  <1>k. PICK ks : ks = EnsureActive(newestDeks)
    OBVIOUS
  <1>0. /\ newestDeks \in Seq(KeyStatus) /\ LastActive(newestDeks) /\ deks \in Seq(KeyStatus) /\ t # NoTxn
        /\ DOMAIN newestVersions = Slots /\ pc \in [Txns -> Labels] /\ rowLock \in [Slots -> Owners]
    BY NoTxnAssumption DEF SystemInv, TypeOK, KeysOK, HistoriesOK, LocalsOK, LocksOK, KeyInv, KeysGuarded
  <1>1. /\ ks \in Seq(KeyStatus) /\ LastActive(ks) /\ Len(newestDeks) <= Len(ks)
        /\ Active(newestDeks) \subseteq Active(ks) /\ ActiveVersion(ks) \in Active(ks)
    BY <1>0, <1>k, EnsureLast
  <1>2. PICK row :
          /\ row.dek = ActiveVersion(ks) /\ row.aad = <<s, v>>
          /\ newestVersions' = [newestVersions EXCEPT ![s] = InsertVersion(newestVersions[s], v, row)]
    <2> DEFINE row == Seal(Plaintext(t), ActiveVersion(ks), s, v, tx[t].expect)
    <2>1. row.dek = ActiveVersion(ks) /\ row.aad = <<s, v>>
      BY DEF Seal
    <2>2. newestVersions' = [newestVersions EXCEPT ![s] = InsertVersion(newestVersions[s], v, row)]
      BY <1>s, <1>v, <1>k DEF Encrypt
    <2> HIDE DEF row
    <2> QED BY <2>1, <2>2
  <1>3. /\ pc[t] = "encrypt" /\ pc'[t] = "write" /\ CanLockOrg(t) /\ orgLock' = t /\ newestDeks' = ks
        /\ UNCHANGED <<committed, rowLock>> /\ v \notin DOMAIN newestVersions[s]
    BY <1>s, <1>v, <1>k, <1>0 DEF Encrypt, Goto
  <1>4. rowLock[s] = t
    BY <1>s, <1>3 DEF SystemInv, Local, ItemHeld, Mine
  <1>5. /\ DOMAIN newestVersions'[s] = DOMAIN newestVersions[s] \cup {v}
        /\ newestVersions'[s][v] = row
        /\ \A i \in DOMAIN newestVersions[s] : newestVersions'[s][i] = newestVersions[s][i]
        /\ \A r \in Slots : r # s => newestVersions'[r] = newestVersions[r]
    BY <1>0, <1>2, <1>3 DEF InsertVersion
  <1>6. KeysGuarded'
    BY <1>0, <1>1, <1>3 DEF KeyInv, KeysGuarded, LastActive, committed
  <1>7. Decryptable'
    BY <1>3 DEF KeyInv, Decryptable, committed
  <1>8. PendingSealed'
    <2> SUFFICES ASSUME NEW r \in Slots, NEW i \in Pending(r)'
                 PROVE  /\ orgLock' = rowLock'[r]
                        /\ newestVersions'[r][i].dek \in Active(newestDeks')
                        /\ newestVersions'[r][i].aad = <<r, i>>
      BY DEF PendingSealed, Active
    <2>1. CASE r = s /\ i = v
      BY <1>1, <1>2, <1>3, <1>4, <1>5, <2>1
    <2>2. CASE ~(r = s /\ i = v)
      <3>1. i \in Pending(r) /\ newestVersions'[r][i] = newestVersions[r][i]
        BY <1>3, <1>5, <2>2 DEF Pending, committed
      <3>2. rowLock[r] # NoTxn
        BY <3>1, PendingOwned
      <3>3. /\ orgLock = rowLock[r] /\ newestVersions[r][i].dek \in Active(newestDeks)
            /\ newestVersions[r][i].aad = <<r, i>>
        BY <3>1 DEF KeyInv, PendingSealed
      <3> QED BY <1>1, <1>3, <3>1, <3>2, <3>3 DEF CanLockOrg
    <2> QED BY <2>1, <2>2
  <1>9. \A u \in Txns : RotatesAlone(u)'
    <2>1. \A u \in Txns \ {t} : pc'[u] = pc[u]
      BY <1>0 DEF Encrypt, Goto
    <2> QED BY <1>3, <2>1 DEF KeyInv, RotatesAlone
  <1> QED BY <1>6, <1>7, <1>8, <1>9 DEF KeyInv

\* The rotation: its transaction has written nothing, and the advisory lock keeps
\* every writer with pending versions out.
LEMMA KeyRotate == ASSUME SystemInv, KeyInv, NEW t \in Txns, Rotate(t) PROVE KeyInv'
  <1>0. /\ newestDeks \in Seq(KeyStatus) /\ deks \in Seq(KeyStatus) /\ t # NoTxn /\ pc \in [Txns -> Labels]
    BY NoTxnAssumption DEF SystemInv, TypeOK, KeysOK, LocalsOK
  <1>1. /\ pc[t] = "rotate" /\ pc'[t] = "commit" /\ CanLockOrg(t) /\ orgLock' = t /\ newestDeks' = Activate(newestDeks)
        /\ UNCHANGED <<committed, newestVersions, rowLock>>
        /\ \A u \in Txns \ {t} : pc'[u] = pc[u]
    BY <1>0 DEF Rotate, Goto
  <1>2. KeysGuarded'
    <2>1. Len(newestDeks') = Len(newestDeks) + 1 /\ LastActive(newestDeks')
      BY <1>0, <1>1, ActivateLast
    <2>2. LastActive(deks)'
      BY <1>1 DEF KeyInv, KeysGuarded, LastActive, committed
    <2> QED BY <1>0, <1>1, <2>1, <2>2 DEF KeyInv, KeysGuarded, LastActive, committed
  <1>3. Decryptable'
    BY <1>1 DEF KeyInv, Decryptable, committed
  <1>4. \A s \in Slots : Pending(s) = {}
    <2>1. ASSUME NEW s \in Slots, NEW v \in Pending(s) PROVE FALSE
      <3>1. orgLock = rowLock[s] /\ rowLock[s] # NoTxn
        BY <2>1, PendingOwned DEF KeyInv, PendingSealed
      <3>2. rowLock[s] # t
        BY <1>1 DEF KeyInv, RotatesAlone
      <3> QED BY <1>1, <3>1, <3>2 DEF CanLockOrg
    <2> QED BY <2>1
  <1>5. PendingSealed'
    BY <1>1, <1>4 DEF PendingSealed, Pending, committed
  <1>6. \A u \in Txns : RotatesAlone(u)'
    BY <1>1 DEF KeyInv, RotatesAlone
  <1> QED BY <1>2, <1>3, <1>5, <1>6 DEF KeyInv

\* BEGIN: the transaction holds nothing yet.
LEMMA KeyBegin == ASSUME SystemInv, KeyInv, NEW t \in Txns, Begin(t) PROVE KeyInv'
  <1>1. PICK label \in Labels, args \in Locals : Start(t, label, args)
    BY BeginCalled DEF Called, SystemInv
  <1>2. UNCHANGED <<tables, locks>> /\ pc[t] = "idle" /\ \A u \in Txns \ {t} : pc'[u] = pc[u]
    BY <1>1 DEF Start, Goto, SystemInv, TypeOK, LocalsOK
  <1>3. KeysGuarded' /\ Decryptable' /\ PendingSealed'
    BY <1>2 DEF KeyInv, KeysGuarded, LastActive, Decryptable, Opens, PendingSealed, Pending, Active, tables, locks
  <1>4. \A u \in Txns : RotatesAlone(u)'
    BY <1>2 DEF KeyInv, RotatesAlone, locks
  <1> QED BY <1>3, <1>4 DEF KeyInv

\* What the end of a transaction does to the locks, and to what the others wait for.
LEMMA ReleaseKeys ==
  ASSUME SystemInv, KeyInv, NEW t \in Txns, Release(t)
  PROVE  /\ \A s \in Slots : rowLock'[s] = IF rowLock[s] = t THEN NoTxn ELSE rowLock[s]
         /\ orgLock' = IF orgLock = t THEN NoTxn ELSE orgLock
         /\ \A u \in Txns : RotatesAlone(u)'
  <1>0. pc \in [Txns -> Labels] /\ t # NoTxn
    BY NoTxnAssumption DEF SystemInv, TypeOK, LocalsOK
  <1>1. /\ \A s \in Slots : rowLock'[s] = IF rowLock[s] = t THEN NoTxn ELSE rowLock[s]
        /\ orgLock' = IF orgLock = t THEN NoTxn ELSE orgLock
        /\ \A u \in Txns \ {t} : pc'[u] = pc[u]
    BY <1>0 DEF Release, Goto
  <1>2. ASSUME NEW u \in Txns PROVE RotatesAlone(u)'
    <2>1. u # NoTxn /\ RotatesAlone(u)
      BY NoTxnAssumption DEF KeyInv
    <2>2. CASE u = t
      BY <1>0, <1>1, <2>2 DEF RotatesAlone
    <2>3. CASE u # t
      BY <1>1, <2>1, <2>3 DEF RotatesAlone
    <2> QED BY <2>2, <2>3
  <1> QED BY <1>1, <1>2

\* COMMIT: the pending versions become committed together with the keys they need.
LEMMA KeyCommit ==
  ASSUME SystemInv, KeyInv, NEW t \in Txns, Commit(t)
  PROVE  /\ KeyInv'
         /\ \A s \in Slots : \A v \in DOMAIN versions'[s] \ DOMAIN versions[s] : versions'[s][v].dek \in Active(deks')
  <1>0. /\ deks \in Seq(KeyStatus) /\ newestDeks \in Seq(KeyStatus) /\ t # NoTxn
        /\ KeysGuarded /\ Decryptable /\ PendingSealed /\ VersionsKept
    BY NoTxnAssumption DEF SystemInv, TypeOK, KeysOK, KeyInv, Shared
  <1>1. /\ \A s \in Slots : versions'[s] = IF rowLock[s] = t THEN newestVersions[s] ELSE versions[s]
        /\ deks' = IF orgLock = t THEN newestDeks ELSE deks
        /\ UNCHANGED <<newestVersions, newestDeks>> /\ Release(t)
    BY DEF Commit
  <1>2. /\ \A s \in Slots : rowLock'[s] = IF rowLock[s] = t THEN NoTxn ELSE rowLock[s]
        /\ orgLock' = IF orgLock = t THEN NoTxn ELSE orgLock
        /\ \A u \in Txns : RotatesAlone(u)'
    BY <1>1, ReleaseKeys
  <1>3. KeysGuarded'
    BY <1>0, <1>1, <1>2 DEF KeysGuarded, LastActive
  <1>4. Len(deks) <= Len(deks') /\ deks' \in Seq(KeyStatus)
    BY <1>0, <1>1 DEF KeysGuarded
  <1>5. ASSUME NEW s \in Slots, NEW v \in DOMAIN versions'[s], v \notin DOMAIN versions[s]
        PROVE  versions'[s][v].dek \in Active(deks') /\ versions'[s][v].aad = <<s, v>>
    <2>1. rowLock[s] = t /\ v \in Pending(s) /\ versions'[s][v] = newestVersions[s][v]
      BY <1>1, <1>5 DEF Pending
    <2>2. orgLock = t /\ newestVersions[s][v].dek \in Active(newestDeks) /\ newestVersions[s][v].aad = <<s, v>>
      BY <1>0, <2>1 DEF PendingSealed
    <2> QED BY <1>1, <2>1, <2>2
  <1>6. Decryptable'
    <2> SUFFICES ASSUME NEW s \in Slots, NEW v \in DOMAIN versions'[s]
                 PROVE  Opens(versions'[s][v], deks', s, v)
      BY DEF Decryptable, Opens
    <2>1. CASE v \in DOMAIN versions[s]
      <3>1. versions'[s][v] = versions[s][v]
        BY <1>0, <1>1, <2>1 DEF VersionsKept
      <3>2. Opens(versions[s][v], deks, s, v)
        BY <1>0, <2>1 DEF Decryptable
      <3> QED BY <1>0, <1>4, <3>1, <3>2, OpensLonger
    <2>2. CASE v \notin DOMAIN versions[s]
      BY <1>5, <2>2 DEF Opens, Active
    <2> QED BY <2>1, <2>2
  <1>7. PendingSealed'
    <2> SUFFICES ASSUME NEW s \in Slots, NEW v \in Pending(s)'
                 PROVE  /\ orgLock' = rowLock'[s]
                        /\ newestVersions'[s][v].dek \in Active(newestDeks')
                        /\ newestVersions'[s][v].aad = <<s, v>>
      BY DEF PendingSealed, Active
    <2>1. rowLock[s] # t /\ v \in Pending(s)
      BY <1>1 DEF Pending
    <2> QED BY <1>0, <1>1, <1>2, <2>1 DEF PendingSealed
  <1> QED BY <1>2, <1>3, <1>5, <1>6, <1>7 DEF KeyInv

\* ROLLBACK: pending versions and keys are dropped together.
LEMMA KeyAbort == ASSUME SystemInv, KeyInv, NEW t \in Txns, Abort(t) PROVE KeyInv'
  <1>0. /\ deks \in Seq(KeyStatus) /\ newestDeks \in Seq(KeyStatus) /\ t # NoTxn
        /\ KeysGuarded /\ Decryptable /\ PendingSealed
    BY NoTxnAssumption DEF SystemInv, TypeOK, KeysOK, KeyInv
  <1>1. /\ \A s \in Slots : newestVersions'[s] = IF rowLock[s] = t THEN versions[s] ELSE newestVersions[s]
        /\ newestDeks' = IF orgLock = t THEN deks ELSE newestDeks
        /\ UNCHANGED <<versions, deks>> /\ Release(t)
    BY DEF Abort, Rollback, committed
  <1>2. /\ \A s \in Slots : rowLock'[s] = IF rowLock[s] = t THEN NoTxn ELSE rowLock[s]
        /\ orgLock' = IF orgLock = t THEN NoTxn ELSE orgLock
        /\ \A u \in Txns : RotatesAlone(u)'
    BY <1>1, ReleaseKeys
  <1>3. KeysGuarded'
    BY <1>0, <1>1, <1>2 DEF KeysGuarded, LastActive
  <1>4. Decryptable'
    BY <1>0, <1>1 DEF Decryptable, Opens
  <1>5. PendingSealed'
    <2> SUFFICES ASSUME NEW s \in Slots, NEW v \in Pending(s)'
                 PROVE  /\ orgLock' = rowLock'[s]
                        /\ newestVersions'[s][v].dek \in Active(newestDeks')
                        /\ newestVersions'[s][v].aad = <<s, v>>
      BY DEF PendingSealed, Active
    <2>1. rowLock[s] # t /\ v \in Pending(s) /\ newestVersions'[s] = newestVersions[s]
      BY <1>1 DEF Pending
    <2>2. rowLock[s] # NoTxn
      BY <2>1, PendingOwned
    <2>3. orgLock = rowLock[s] /\ newestDeks' = newestDeks /\ orgLock' = orgLock /\ rowLock'[s] = rowLock[s]
      BY <1>0, <1>1, <1>2, <2>1, <2>2 DEF PendingSealed
    <2> QED BY <1>0, <2>1, <2>3 DEF PendingSealed
  <1> QED BY <1>2, <1>3, <1>4, <1>5 DEF KeyInv

-----------------------------------------------------------------------------
(* The invariant and what follows. *)

\* No key and no version is pending at the start.
LEMMA InitKeys == ASSUME Init PROVE KeyInv
  <1>1. /\ newestVersions = versions /\ newestDeks = deks /\ orgLock = NoTxn
        /\ \A s \in Slots : rowLock[s] = NoTxn
        /\ deks = IF Seeded = {} THEN <<>> ELSE <<"active">>
    BY DEF Init, DbInit
  <1>2. KeysGuarded
    <2>1. LastActive(deks)
      BY <1>1 DEF LastActive
    <2>2. deks \in Seq(KeyStatus)
      BY InitType DEF TypeOK, KeysOK
    <2>3. Len(deks) <= Len(newestDeks)
      BY <1>1, <2>2
    <2>4. LastActive(newestDeks)
      BY <1>1, <2>1 DEF LastActive
    <2> QED BY <1>1, <2>1, <2>3, <2>4 DEF KeysGuarded
  <1>3. ASSUME NEW s \in Slots, NEW v \in DOMAIN versions[s] PROVE Opens(versions[s][v], deks, s, v)
    <2>1. s \in Seeded /\ v = 1 /\ versions[s][v] = FirstVersion(s)
      BY <1>3 DEF Init, DbInit
    <2>2. deks = <<"active">>
      BY <1>1, <2>1
    <2> QED BY <2>1, <2>2 DEF Opens, FirstVersion
  <1>4. PendingSealed /\ \A t \in Txns : RotatesAlone(t)
    BY <1>1, NoTxnAssumption DEF PendingSealed, Pending, RotatesAlone
  <1> QED BY <1>2, <1>3, <1>4 DEF KeyInv, Decryptable

\* KeyInv is inductive relative to SystemInv.
LEMMA NextKeys == ASSUME SystemInv, KeyInv, [Next]_vars PROVE KeyInv'
  <1>1. CASE UNCHANGED dbVars
    BY <1>1 DEF dbVars, KeyInv, KeysGuarded, LastActive, Decryptable, Opens, PendingSealed, Pending, Active, RotatesAlone
  <1>2. CASE \E t \in Txns : Begin(t) \/ Statement(t) \/ Reject(t) \/ Victim(t) \/ Crash(t)
    <2>1. PICK t \in Txns : Begin(t) \/ Statement(t) \/ Reject(t) \/ Victim(t) \/ Crash(t)
      BY <1>2
    <2>2. CASE Begin(t)
      BY <2>2, KeyBegin
    <2>3. CASE Statement(t)
      BY <2>3, KeyOther, KeyEncrypt, KeyRotate, KeyCommit
    <2>4. CASE Reject(t) \/ Victim(t) \/ Crash(t)
      BY <2>4, KeyAbort DEF Reject, Victim, Crash
    <2> QED BY <2>1, <2>2, <2>3, <2>4
  <1>3. CASE \E e \in Polled : RuntimeScope(e) \/ NotModified(e) \/ RuntimeRows(e) \/ RuntimeError(e)
    BY <1>1, <1>3 DEF RuntimeScope, NotModified, RuntimeRows, RuntimeError
  <1>4. CASE UNCHANGED vars
    BY <1>1, <1>4 DEF vars
  <1> QED BY <1>2, <1>3, <1>4 DEF Next

\* KeyInv holds in every reachable state.
LEMMA KeysInvariant == Spec => []KeyInv
  <1>1. Init => KeyInv
    BY InitKeys
  <1>2. SystemInv /\ KeyInv /\ [Next]_vars => KeyInv'
    BY NextKeys
  <1> QED BY <1>1, <1>2, SystemInvariant, PTL DEF Spec

\* Every committed version decrypts under the committed keys, whatever rotations,
\* creations and rollbacks ran beside its writer (encrypt, #activate, rotateDataKey).
THEOREM VersionsDecryptable == Spec => []Decryptable
  <1>1. KeyInv => Decryptable
    BY DEF KeyInv
  <1> QED BY <1>1, KeysInvariant, PTL

\* At most one data key is active, and one as soon as there is any: two first writes
\* or two rotations never both activate one (advisory lock of #activate).
THEOREM OneKeyActive == Spec => []OneActiveKey
  <1>1. ASSUME SystemInv, KeyInv PROVE OneActiveKey
    <2>1. deks \in Seq(KeyStatus) /\ LastActive(deks)
      BY <1>1 DEF SystemInv, TypeOK, KeysOK, KeyInv, KeysGuarded
    <2>2. deks # <<>> => Active(deks) = {Len(deks)}
      BY <2>1, LastIsActive
    <2> QED BY <2>2, FS_Singleton DEF OneActiveKey
  <1> QED BY <1>1, SystemInvariant, KeysInvariant, PTL

\* What commits is sealed under the key that is active when it commits: a writer that
\* encrypted under the old key keeps a rotation waiting until it has committed.
THEOREM RotationsFence == Spec => RotationFences
  <1> DEFINE Fenced == \A s \in Slots : \A v \in DOMAIN versions'[s] \ DOMAIN versions[s] :
                         versions'[s][v].dek \in Active(deks')
  <1>1. SystemInv /\ KeyInv /\ [Next]_vars => [Fenced]_vars
    <2> SUFFICES ASSUME SystemInv, KeyInv, [Next]_vars PROVE Fenced
      OBVIOUS
    <2>1. CASE \E t \in Txns : Commit(t)
      BY <2>1, KeyCommit
    <2>2. CASE \A t \in Txns : ~Commit(t)
      BY <2>2, CommittedBy DEF committed
    <2> QED BY <2>1, <2>2
  <1>2. Spec => [][Next]_vars
    BY PTL DEF Spec
  <1> QED BY <1>1, <1>2, SystemInvariant, KeysInvariant, PTL DEF RotationFences
=============================================================================
