------------------------- MODULE SecretSystemProofs -------------------------
(***************************************************************************)
(* Proofs about SecretSystem for every set of environments, keys and       *)
(* transactions and every bound on the operations.                         *)
(***************************************************************************)
EXTENDS SecretSystem, FiniteSetTheorems, TLAPS

-----------------------------------------------------------------------------
(* Types of the locals. *)

\* Any environment and any secret are of their kind, so idle transactions have locals.
LEMMA BlankType == AnyEnv \in Envs /\ AnySlot \in Slots /\ Blank \in Locals
  <1>1. AnyEnv \in Envs
    BY EnvsAssumption DEF AnyEnv
  <1>2. AnySlot \in Slots
    <2>1. PICK k \in Keys : TRUE
      BY KeysAssumption
    <2>2. <<AnyEnv, k>> \in Slots
      BY <1>1 DEF Slots
    <2> QED BY <2>2 DEF AnySlot
  <1> QED BY <1>1, <1>2 DEF Blank, Locals, Operations

\* Replacing the locals of one transaction keeps the type of tx.
LEMMA LocalsReplace ==
  ASSUME tx \in [Txns -> Locals], NEW t \in Txns, NEW x \in Locals
  PROVE  [tx EXCEPT ![t] = x] \in [Txns -> Locals]
  OBVIOUS

\* Updates of single locals keep their type.
LEMMA LocalsUpdate ==
  ASSUME NEW x \in Locals
  PROVE  /\ \A s \in Slots, n \in Nat : [x EXCEPT !.seen[s] = n] \in Locals
         /\ \A S \in SUBSET Slots : [x EXCEPT !.todo = S] \in Locals
         /\ \A S \in SUBSET Slots : [x EXCEPT !.queue = S] \in Locals
         /\ \A n \in Nat : [x EXCEPT !.target = n] \in Locals
         /\ \A n \in Nat : [x EXCEPT !.n = n] \in Locals
         /\ \A n \in Nat : [x EXCEPT !.count = n] \in Locals
         /\ \A s \in Slots : [x EXCEPT !.item = s] \in Locals
  BY DEF Locals

\* BEGIN keeps the types when the arguments have theirs.
LEMMA StartType ==
  ASSUME TypeOK, NEW t \in Txns, NEW label \in Labels, NEW args \in Locals, Start(t, label, args), UNCHANGED readVars
  PROVE  TypeOK'
  <1>0. ops + 1 \in Nat
    BY DEF TypeOK, LocalsOK
  <1>1. [args EXCEPT !.n = ops + 1] \in Locals
    BY <1>0, LocalsUpdate, Zenon
  <1>2. LocalsOK'
    BY <1>1, LocalsReplace DEF TypeOK, LocalsOK, Start, Goto
  <1> QED BY <1>2 DEF TypeOK, Start, tables, locks, readVars, RowsOK, HistoriesOK, EnvsOK, KeysOK, LocksOK, ReadersOK

\* How every call begins: typed arguments and nothing noted yet; at most one secret
\* to write if it starts with that row; no expectedVersion in create and batches.
WellFormed(label, args) ==
  /\ args \in Locals
  /\ label \in {"row", "createEnv", "environment", "rotate", "envGet"}
  /\ \A s \in Slots : args.seen[s] = 0
  /\ label = "row" => args.todo \subseteq {args.item}
  /\ label \in {"createEnv", "environment"} => args.expect = 0

Called(t) == \E label \in Labels, args \in Locals : WellFormed(label, args) /\ Start(t, label, args)

\* Every call begins with well-formed arguments.
LEMMA BeginCalled == ASSUME TypeOK, NEW t \in Txns, Begin(t) PROVE Called(t) /\ UNCHANGED readVars
  <1> USE BlankType
  <1>1. CASE "update" \in Ops /\ BeginUpdate(t)
    <2>1. PICK s \in Slots, x \in Nat :
            Call(t, "row", [Blank EXCEPT !.op = "update", !.item = s, !.todo = {s}, !.expect = x])
      BY <1>1 DEF BeginUpdate, TypeOK, RowsOK, SecretRow
    <2>2. WellFormed("row", [Blank EXCEPT !.op = "update", !.item = s, !.todo = {s}, !.expect = x])
      BY <1>1 DEF Blank, Locals, Operations, WellFormed
    <2> QED BY <2>1, <2>2, Zenon DEF Call, Called, Labels, WellFormed
  <1>2. CASE "notes" \in Ops /\ BeginUpdateNotes(t)
    <2>1. PICK s \in Slots, x \in Nat :
            Call(t, "row", [Blank EXCEPT !.op = "notes", !.item = s, !.expect = x])
      BY <1>2 DEF BeginUpdateNotes, TypeOK, RowsOK, SecretRow
    <2>2. WellFormed("row", [Blank EXCEPT !.op = "notes", !.item = s, !.expect = x])
      BY <1>2 DEF Blank, Locals, Operations, WellFormed
    <2> QED BY <2>1, <2>2, Zenon DEF Call, Called, Labels, WellFormed
  <1>3. CASE "rollback" \in Ops /\ BeginRollback(t)
    <2>1. PICK s \in Slots, x \in Nat, v \in Nat :
            Call(t, "row", [Blank EXCEPT !.op = "rollback", !.item = s, !.todo = {s}, !.expect = x, !.target = v])
      BY <1>3 DEF BeginRollback, TypeOK, RowsOK, SecretRow, HistoriesOK, IsHistory
    <2>2. WellFormed("row", [Blank EXCEPT !.op = "rollback", !.item = s, !.todo = {s}, !.expect = x, !.target = v])
      BY <1>3 DEF Blank, Locals, Operations, WellFormed
    <2> QED BY <2>1, <2>2, Zenon DEF Call, Called, Labels, WellFormed
  <1>4. CASE "delete" \in Ops /\ BeginDelete(t)
    <2>1. PICK s \in Slots : Call(t, "row", [Blank EXCEPT !.op = "delete", !.item = s])
      BY <1>4 DEF BeginDelete
    <2>2. WellFormed("row", [Blank EXCEPT !.op = "delete", !.item = s])
      BY <1>4 DEF Blank, Locals, Operations, WellFormed
    <2> QED BY <2>1, <2>2, Zenon DEF Call, Called, Labels, WellFormed
  <1>5. CASE "create" \in Ops /\ BeginCreate(t)
    <2>1. PICK s \in Slots : Call(t, "createEnv", [Blank EXCEPT !.op = "create", !.item = s, !.todo = {s}])
      BY <1>5 DEF BeginCreate
    <2>2. WellFormed("createEnv", [Blank EXCEPT !.op = "create", !.item = s, !.todo = {s}])
      BY <1>5 DEF Blank, Locals, Operations, WellFormed
    <2> QED BY <2>1, <2>2, Zenon DEF Call, Called, Labels, WellFormed
  <1>6. CASE "bulk" \in Ops /\ BeginBulkSet(t)
    <2>1. PICK e \in Envs, ks \in SUBSET Keys :
            Call(t, "environment", [Blank EXCEPT !.op = "bulk", !.env = e, !.todo = {e} \X ks, !.all = {e} \X ks])
      BY <1>6, TargetsAssumption DEF BeginBulkSet
    <2>2. {e} \X ks \subseteq Slots
      BY DEF Slots
    <2>3. WellFormed("environment", [Blank EXCEPT !.op = "bulk", !.env = e, !.todo = {e} \X ks, !.all = {e} \X ks])
      BY <1>6, <2>2 DEF Blank, Locals, Operations, WellFormed
    <2> QED BY <2>1, <2>3, Zenon DEF Call, Called, Labels, WellFormed
  <1>7. CASE "import" \in Ops /\ BeginImport(t)
    <2>1. PICK e \in Envs, ks \in SUBSET Keys, strategy \in {"skip", "overwrite", "merge"}, sel \in SUBSET Keys :
            Call(t, "environment", [Blank EXCEPT !.op = "import", !.env = e, !.todo = {e} \X ks,
                                                 !.strategy = strategy, !.keys = sel])
      BY <1>7, TargetsAssumption DEF BeginImport
    <2>2. {e} \X ks \subseteq Slots
      BY DEF Slots
    <2>3. WellFormed("environment", [Blank EXCEPT !.op = "import", !.env = e, !.todo = {e} \X ks, !.strategy = strategy, !.keys = sel])
      BY <1>7, <2>2 DEF Blank, Locals, Operations, WellFormed
    <2> QED BY <2>1, <2>3, Zenon DEF Call, Called, Labels, WellFormed
  <1>8. CASE "promote" \in Ops /\ BeginPromote(t)
    <2>1. PICK e \in Envs, src \in Envs, ks \in SUBSET Keys :
            Call(t, "environment", [Blank EXCEPT !.op = "promote", !.env = e, !.src = src, !.keys = ks])
      BY <1>8, TargetsAssumption DEF BeginPromote
    <2>2. WellFormed("environment", [Blank EXCEPT !.op = "promote", !.env = e, !.src = src, !.keys = ks])
      BY <1>8 DEF Blank, Locals, Operations, WellFormed
    <2> QED BY <2>1, <2>2, Zenon DEF Call, Called, Labels, WellFormed
  <1>9. CASE "rotate" \in Ops /\ BeginRotate(t) /\ UNCHANGED readVars
    <2>1. WellFormed("rotate", [Blank EXCEPT !.op = "rotate"])
      BY <1>9 DEF Blank, Locals, Operations, WellFormed
    <2> QED BY <1>9, <2>1, Zenon DEF BeginRotate, Called, Labels, WellFormed
  <1>10. CASE "envDelete" \in Ops /\ BeginEnvDelete(t)
    <2>1. PICK e \in Envs, c \in BOOLEAN :
            Call(t, "envGet", [Blank EXCEPT !.op = "envDelete", !.env = e, !.confirm = c])
      BY <1>10 DEF BeginEnvDelete
    <2>2. WellFormed("envGet", [Blank EXCEPT !.op = "envDelete", !.env = e, !.confirm = c])
      BY <1>10 DEF Blank, Locals, Operations, WellFormed
    <2> QED BY <2>1, <2>2, Zenon DEF Call, Called, Labels, WellFormed
  <1>11. CASE "envRestore" \in Ops /\ BeginEnvRestore(t)
    <2>1. PICK e \in Envs : Call(t, "envGet", [Blank EXCEPT !.op = "envRestore", !.env = e])
      BY <1>11 DEF BeginEnvRestore
    <2>2. WellFormed("envGet", [Blank EXCEPT !.op = "envRestore", !.env = e])
      BY <1>11 DEF Blank, Locals, Operations, WellFormed
    <2> QED BY <2>1, <2>2, Zenon DEF Call, Called, Labels, WellFormed
  <1> QED BY <1>1, <1>2, <1>3, <1>4, <1>5, <1>6, <1>7, <1>8, <1>9, <1>10, <1>11 DEF Begin

\* So it keeps the types.
LEMMA BeginType == ASSUME TypeOK, NEW t \in Txns, Begin(t) PROVE TypeOK'
  BY BeginCalled, StartType DEF Called

-----------------------------------------------------------------------------
(* Types of the tables. *)

\* The key table keeps its type, and once a key is ensured one is active.
LEMMA KeysType ==
  ASSUME NEW ks \in Seq(KeyStatus)
  PROVE  /\ Activate(ks) \in Seq(KeyStatus)
         /\ EnsureActive(ks) \in Seq(KeyStatus)
         /\ ActiveVersion(EnsureActive(ks)) \in Active(EnsureActive(ks))
         /\ ActiveVersion(EnsureActive(ks)) \in Nat
  <1>1. [v \in DOMAIN ks |-> "retired"] \in Seq(KeyStatus) /\ Len([v \in DOMAIN ks |-> "retired"]) = Len(ks)
    BY DEF KeyStatus
  <1>2. Activate(ks) \in Seq(KeyStatus)
    BY <1>1 DEF Activate, KeyStatus
  <1>3. Len(ks) + 1 \in Active(Activate(ks))
    BY <1>1 DEF Activate, Active
  <1>4. EnsureActive(ks) \in Seq(KeyStatus) /\ Active(EnsureActive(ks)) # {}
    BY <1>2, <1>3 DEF EnsureActive
  <1>5. ActiveVersion(EnsureActive(ks)) \in Active(EnsureActive(ks))
    BY <1>4 DEF ActiveVersion, Active
  <1>6. Active(EnsureActive(ks)) \subseteq Nat
    BY <1>4 DEF Active
  <1> QED BY <1>2, <1>4, <1>5, <1>6

\* UPDATE of a secrets row and the trigger's UPDATE keep the types.
LEMMA UpdateRowType ==
  ASSUME TypeOK, NEW t \in Txns, NEW s \in Slots, NEW new \in SecretRow, UpdateRow(t, s, new)
  PROVE  /\ newest' \in [Slots -> SecretRow]
         /\ envLock' \in [Envs -> Owners]
         /\ newestEnv' \in [Envs -> EnvRow]
  <1>1. newest' \in [Slots -> SecretRow]
    BY DEF UpdateRow, TypeOK, RowsOK
  <1>2. s[1] \in Envs
    BY DEF Slots
  <1>3. envLock' \in [Envs -> Owners]
    BY <1>2 DEF UpdateRow, TypeOK, LocksOK, Owners
  <1>4. newestEnv' \in [Envs -> EnvRow]
    BY <1>2 DEF UpdateRow, TypeOK, EnvsOK, EnvRow
  <1> QED BY <1>1, <1>3, <1>4

\* Rows read by a transaction have their type.
LEMMA ViewType ==
  ASSUME TypeOK, NEW t, NEW s \in Slots
  PROVE  /\ View(t, s) \in SecretRow
         /\ View(t, s).cur \in Nat
  BY DEF TypeOK, RowsOK, View, SecretRow

\* The end of a transaction keeps the types of locks and locals.
LEMMA ReleaseType == ASSUME TypeOK, NEW t \in Txns, Release(t) PROVE LocksOK' /\ LocalsOK'
  <1>1. LocksOK'
    BY DEF Release, TypeOK, LocksOK, Owners
  <1>2. LocalsOK'
    BY BlankType DEF Release, Goto, TypeOK, LocalsOK, Labels
  <1> QED BY <1>1, <1>2

\* COMMIT keeps the types.
LEMMA CommitType == ASSUME TypeOK, NEW t \in Txns, Commit(t), UNCHANGED readVars PROVE TypeOK'
  <1>1. LocksOK' /\ LocalsOK'
    BY ReleaseType DEF Commit
  <1>2. RowsOK'
    BY DEF Commit, TypeOK, RowsOK
  <1>3. HistoriesOK'
    BY DEF Commit, TypeOK, HistoriesOK
  <1>4. EnvsOK' /\ KeysOK'
    BY DEF Commit, TypeOK, EnvsOK, KeysOK
  <1>5. ReadersOK'
    BY DEF TypeOK, ReadersOK, readVars
  <1> QED BY <1>1, <1>2, <1>3, <1>4, <1>5 DEF TypeOK

\* ROLLBACK keeps the types.
LEMMA AbortType == ASSUME TypeOK, NEW t \in Txns, Abort(t) PROVE TypeOK'
  <1>1. LocksOK' /\ LocalsOK'
    BY ReleaseType DEF Abort, Rollback
  <1>2. RowsOK'
    BY DEF Abort, Rollback, committed, TypeOK, RowsOK
  <1>3. HistoriesOK'
    BY DEF Abort, Rollback, committed, TypeOK, HistoriesOK
  <1>4. EnvsOK' /\ KeysOK'
    BY DEF Abort, Rollback, committed, TypeOK, EnvsOK, KeysOK
  <1>5. ReadersOK'
    BY DEF Abort, TypeOK, ReadersOK, readVars
  <1> QED BY <1>1, <1>2, <1>3, <1>4, <1>5 DEF TypeOK

\* A statement that changes nothing but the locals keeps the types.
LEMMA ControlType == ASSUME TypeOK, LocalsOK', UNCHANGED <<tables, locks, readVars>> PROVE TypeOK'
  BY DEF TypeOK, tables, locks, readVars, RowsOK, HistoriesOK, EnvsOK, KeysOK, LocksOK, ReadersOK

\* A SELECT ... FOR UPDATE keeps the types.
LEMMA LockType ==
  ASSUME TypeOK, NEW t \in Txns, NEW s \in Slots, rowLock' = [rowLock EXCEPT ![s] = t], LocalsOK',
         UNCHANGED <<tables, envLock, orgLock, readVars>>
  PROVE  TypeOK'
  <1>1. LocksOK'
    BY DEF TypeOK, LocksOK, Owners
  <1> QED BY <1>1 DEF TypeOK, tables, readVars, RowsOK, HistoriesOK, EnvsOK, KeysOK, ReadersOK

\* A write of a secrets row keeps the types.
LEMMA WriteType ==
  ASSUME TypeOK, NEW t \in Txns, NEW s \in Slots, NEW new \in SecretRow, UpdateRow(t, s, new), LocalsOK',
         UNCHANGED <<committed, newestVersions, newestDeks, rowLock, orgLock, readVars>>
  PROVE  TypeOK'
  <1>1. RowsOK' /\ EnvsOK' /\ LocksOK'
    BY UpdateRowType DEF TypeOK, RowsOK, EnvsOK, LocksOK, committed
  <1> QED BY <1>1 DEF TypeOK, committed, readVars, HistoriesOK, KeysOK, ReadersOK

\* The statements on one secret keep the types.
LEMMA SecretStatementType ==
  ASSUME TypeOK, NEW t \in Txns,
         \/ MetadataRow(t) \/ Check(t) \/ WriteMetadata(t) \/ SoftDelete(t) \/ Encrypt(t) \/ WriteVersion(t)
         \/ CreateEnvironment(t) \/ Recover(t) \/ Undelete(t) \/ Insert(t)
  PROVE  TypeOK'
  <1> DEFINE s == tx[t].item
  <1>0. /\ s \in Slots /\ tx[t] \in Locals /\ tx[t].seen[s] \in Nat /\ tx[t].n \in Nat /\ tx[t].expect \in Nat
        /\ tx[t].todo \in SUBSET Slots
    BY DEF TypeOK, LocalsOK, Locals
  <1>a. newest[s] \in SecretRow
    BY <1>0 DEF TypeOK, RowsOK
  <1>b. \A label \in Labels : Goto(t, label) => pc' \in [Txns -> Labels]
    BY DEF TypeOK, LocalsOK, Goto
  <1>c. \A n \in Nat : [tx EXCEPT ![t].seen[s] = n] \in [Txns -> Locals]
    BY <1>0, LocalsUpdate, LocalsReplace DEF TypeOK, LocalsOK
  <1>1. CASE MetadataRow(t)
    <2>1. LocalsOK'
      BY <1>1, <1>0, <1>b, <1>c, ViewType DEF MetadataRow, TypeOK, LocalsOK, Labels
    <2> QED BY <1>1, <1>0, <2>1, LockType DEF MetadataRow
  <1>2. CASE Check(t)
    <2>1. LocalsOK'
      BY <1>2, <1>b DEF Check, TypeOK, LocalsOK, Labels
    <2> QED BY <1>2, <2>1, ControlType DEF Check
  <1>3. CASE WriteMetadata(t)
    <2>1. LocalsOK'
      BY <1>3, <1>b DEF WriteMetadata, TypeOK, LocalsOK, Labels
    <2> QED BY <1>3, <1>0, <1>a, <2>1, WriteType DEF WriteMetadata
  <1>4. CASE SoftDelete(t)
    <2>1. LocalsOK'
      BY <1>4, <1>b DEF SoftDelete, TypeOK, LocalsOK, Labels
    <2>2. [newest[s] EXCEPT !.delAt = tx[t].n] \in SecretRow
      BY <1>0, <1>a DEF SecretRow
    <2> QED BY <1>4, <1>0, <2>1, <2>2, WriteType DEF SoftDelete
  <1>5. CASE Encrypt(t)
    <2>1. LocalsOK'
      BY <1>5, <1>b DEF Encrypt, TypeOK, LocalsOK, Labels
    <2>2. KeysOK' /\ LocksOK'
      BY <1>5, KeysType DEF Encrypt, committed, TypeOK, KeysOK, LocksOK, Owners
    <2>3. HistoriesOK'
      <3> DEFINE v == tx[t].seen[s] + 1
                 d == ActiveVersion(EnsureActive(newestDeks))
                 row == Seal(Plaintext(t), d, s, v, tx[t].expect)
                 h == InsertVersion(newestVersions[s], v, row)
      <3>1. d \in Nat /\ v \in Nat
        BY <1>0, KeysType DEF TypeOK, KeysOK
      <3>2. row.dek \in Nat /\ row.aad \in Slots \X Nat /\ row.exp \in Nat
        BY <3>1, <1>0 DEF Seal
      <3>3. IsHistory(h)
        BY <3>1, <3>2, <1>0 DEF InsertVersion, TypeOK, HistoriesOK, IsHistory
      <3>4. newestVersions' = [newestVersions EXCEPT ![s] = h] /\ versions' = versions
        BY <1>5 DEF Encrypt, committed
      <3> HIDE DEF h
      <3> QED BY <3>3, <3>4, <1>0 DEF TypeOK, HistoriesOK
    <2> QED BY <1>5, <2>1, <2>2, <2>3 DEF Encrypt, committed, readVars, TypeOK, RowsOK, EnvsOK, ReadersOK
  <1>6. CASE WriteVersion(t)
    <2>1. [tx EXCEPT ![t].todo = tx[t].todo \ {s}] \in [Txns -> Locals]
      BY <1>0, LocalsUpdate, LocalsReplace DEF TypeOK, LocalsOK
    <2>2. LocalsOK'
      BY <1>6, <2>1, <1>b DEF WriteVersion, TypeOK, LocalsOK, Labels
    <2>3. [newest[s] EXCEPT !.cur = tx[t].seen[s] + 1] \in SecretRow
      BY <1>0, <1>a DEF SecretRow
    <2> QED BY <1>6, <1>0, <2>2, <2>3, WriteType DEF WriteVersion
  <1>7. CASE CreateEnvironment(t)
    <2>1. LocalsOK'
      BY <1>7, <1>b DEF CreateEnvironment, TypeOK, LocalsOK, Labels
    <2> QED BY <1>7, <2>1, ControlType DEF CreateEnvironment
  <1>8. CASE Recover(t)
    <2>1. LocalsOK'
      BY <1>8, <1>0, <1>b, <1>c, ViewType DEF Recover, TypeOK, LocalsOK, Labels
    <2> QED BY <1>8, <1>0, <2>1, LockType, ControlType DEF Recover, locks
  <1>9. CASE Undelete(t)
    <2>1. LocalsOK'
      BY <1>9, <1>b DEF Undelete, TypeOK, LocalsOK, Labels
    <2>2. [newest[s] EXCEPT !.delAt = 0] \in SecretRow
      BY <1>a DEF SecretRow
    <2> QED BY <1>9, <1>0, <2>1, <2>2, WriteType DEF Undelete
  <1>10. CASE Insert(t)
    <2>1. LocalsOK'
      BY <1>10, <1>0, <1>b, <1>c DEF Insert, TypeOK, LocalsOK, Labels
    <2>2. RowsOK'
      BY <1>10, <1>0 DEF Insert, committed, TypeOK, RowsOK, SecretRow, Absent
    <2>3. LocksOK'
      BY <1>10, <1>0 DEF Insert, TypeOK, LocksOK, Owners
    <2> QED BY <1>10, <2>1, <2>2, <2>3 DEF Insert, committed, readVars, TypeOK, HistoriesOK, EnvsOK, KeysOK, ReadersOK
  <1> QED BY <1>1, <1>2, <1>3, <1>4, <1>5, <1>6, <1>7, <1>8, <1>9, <1>10

\* The statements of batches keep the types.
LEMMA BatchStatementType ==
  ASSUME TypeOK, NEW t \in Txns,
         \/ Environment(t) \/ Select(t) \/ LockRow(t) \/ PromotionPreview(t) \/ NextItem(t) \/ BulkRow(t)
  PROVE  TypeOK'
  <1>0. /\ tx[t] \in Locals /\ tx[t].item \in Slots /\ tx[t].todo \in SUBSET Slots /\ tx[t].queue \in SUBSET Slots
        /\ tx[t].env \in Envs /\ tx[t].src \in Envs /\ tx[t].keys \in SUBSET Keys
    BY DEF TypeOK, LocalsOK, Locals
  <1>b. \A label \in Labels : Goto(t, label) => pc' \in [Txns -> Labels]
    BY DEF TypeOK, LocalsOK, Goto
  <1>c. \A s \in Slots, n \in Nat : [tx EXCEPT ![t].seen[s] = n] \in [Txns -> Locals]
    BY <1>0, LocalsUpdate, LocalsReplace DEF TypeOK, LocalsOK
  <1>d. \A S \in SUBSET Slots : [tx EXCEPT ![t].todo = S] \in [Txns -> Locals]
    BY <1>0, LocalsUpdate, LocalsReplace DEF TypeOK, LocalsOK
  <1>1. CASE Environment(t)
    <2>1. LocalsOK'
      BY <1>1, <1>b DEF Environment, TypeOK, LocalsOK, Labels
    <2> QED BY <1>1, <2>1, ControlType DEF Environment
  <1>2. CASE Select(t)
    <2> DEFINE match == {s \in Scope(t) : Live(View(t, s))}
               f == [s \in Slots |-> IF s \in match THEN View(t, s).cur ELSE 0]
    <2>1. Scope(t) \subseteq Slots
      BY <1>0 DEF Scope, Slots
    <2>2. match \in SUBSET Slots /\ f \in [Slots -> Nat]
      BY <2>1, ViewType
    <2>3. tx' = [tx EXCEPT ![t] = [tx[t] EXCEPT !.queue = match, !.all = match, !.seen = f]]
      BY <1>2 DEF Select
    <2>4. [tx[t] EXCEPT !.queue = match, !.all = match, !.seen = f] \in Locals
      <3> HIDE DEF match, f
      <3> QED BY <1>0, <2>2 DEF Locals
    <2>5. tx' \in [Txns -> Locals]
      BY <2>3, <2>4, LocalsReplace, Zenon DEF TypeOK, LocalsOK
    <2>6. LocalsOK'
      BY <1>2, <2>5, <1>b DEF Select, Selected, TypeOK, LocalsOK, Labels
    <2> QED BY <1>2, <2>6, ControlType DEF Select
  <1>3. CASE LockRow(t)
    <2> DEFINE again(s) == Live(View(t, s)) /\ (tx[t].op = "promote" => View(t, s).cur = tx[t].seen[s])
               found(s) == IF again(s) THEN View(t, s).cur ELSE 0
    <2>1. PICK s \in tx[t].queue :
            /\ rowLock' = [rowLock EXCEPT ![s] = t]
            /\ tx' = [tx EXCEPT ![t] = [tx[t] EXCEPT !.queue = tx[t].queue \ {s}, !.seen[s] = found(s)]]
            /\ Goto(t, IF tx[t].queue = {s} THEN Selected(t) ELSE "lockRows")
            /\ UNCHANGED <<tables, envLock, orgLock, ops, readVars>>
      BY <1>3 DEF LockRow
    <2>2. s \in Slots
      BY <1>0
    <2>3. \A n \in Nat : [tx[t] EXCEPT !.queue = tx[t].queue \ {s}, !.seen[s] = n] \in Locals
      BY <1>0, <2>2 DEF Locals
    <2>4. tx' \in [Txns -> Locals]
      <3>1. found(s) \in Nat
        BY <2>2, ViewType
      <3> QED BY <3>1, <2>1, <2>3, LocalsReplace, Zenon DEF TypeOK, LocalsOK
    <2>5. LocalsOK'
      BY <2>1, <2>4, <1>b DEF Selected, TypeOK, LocalsOK, Labels
    <2> QED BY <2>1, <2>2, <2>5, LockType
  <1>4. CASE PromotionPreview(t)
    <2>1. {tx[t].env} \X Sources(t) \in SUBSET Slots
      BY <1>0 DEF Slots, Sources
    <2>2. LocalsOK'
      BY <1>4, <2>1, <1>b, <1>d DEF PromotionPreview, TypeOK, LocalsOK, Labels
    <2> QED BY <1>4, <2>2, ControlType DEF PromotionPreview
  <1>5. CASE NextItem(t)
    <2>1. PICK s \in tx[t].todo :
            /\ \/ tx' = [tx EXCEPT ![t].item = s]
               \/ tx' = [tx EXCEPT ![t].todo = tx[t].todo \ {s}]
            /\ \E label \in Labels : Goto(t, label)
            /\ UNCHANGED <<tables, locks, ops, readVars>>
      BY <1>5 DEF NextItem, Labels
    <2>2. [tx EXCEPT ![t].item = s] \in [Txns -> Locals]
      BY <1>0, LocalsUpdate, LocalsReplace DEF TypeOK, LocalsOK
    <2>3. LocalsOK'
      BY <1>0, <2>1, <2>2, <1>b, <1>d DEF TypeOK, LocalsOK
    <2> QED BY <2>1, <2>3, ControlType
  <1>6. CASE BulkRow(t)
    <2>1. LocalsOK'
      BY <1>6, <1>0, <1>b, <1>c, ViewType DEF BulkRow, TypeOK, LocalsOK, Labels
    <2> QED BY <1>6, <1>0, <2>1, LockType, ControlType DEF BulkRow, locks
  <1> QED BY <1>1, <1>2, <1>3, <1>4, <1>5, <1>6

\* The statements on environments and keys keep the types.
LEMMA EnvironmentStatementType ==
  ASSUME TypeOK, NEW t \in Txns,
         \/ Rotate(t) /\ UNCHANGED readVars
         \/ EnvGet(t) \/ EnvCount(t) \/ EnvMark(t) \/ CascadeSnap(t) \/ Cascade(t) \/ CascadeEnd(t) \/ EnvReload(t)
  PROVE  TypeOK'
  <1>0. /\ tx[t] \in Locals /\ tx[t].queue \in SUBSET Slots /\ tx[t].env \in Envs /\ tx[t].n \in Nat /\ tx[t].count \in Nat
    BY DEF TypeOK, LocalsOK, Locals
  <1>b. \A label \in Labels : Goto(t, label) => pc' \in [Txns -> Labels]
    BY DEF TypeOK, LocalsOK, Goto
  <1>1. CASE Rotate(t) /\ UNCHANGED readVars
    <2>1. LocalsOK'
      BY <1>1, <1>b DEF Rotate, TypeOK, LocalsOK, Labels
    <2>2. KeysOK' /\ LocksOK'
      BY <1>1, KeysType DEF Rotate, committed, TypeOK, KeysOK, LocksOK, Owners
    <2> QED BY <1>1, <2>1, <2>2 DEF Rotate, committed, readVars, TypeOK, RowsOK, HistoriesOK, EnvsOK, ReadersOK
  <1>2. CASE EnvGet(t)
    <2>1. EnvView(t, tx[t].env).delAt \in Nat
      BY <1>0 DEF EnvView, TypeOK, EnvsOK, EnvRow
    <2>2. \A n \in Nat : [tx EXCEPT ![t].target = n] \in [Txns -> Locals]
      BY <1>0, LocalsUpdate, LocalsReplace DEF TypeOK, LocalsOK
    <2>3. LocalsOK'
      BY <1>2, <2>1, <2>2, <1>b DEF EnvGet, TypeOK, LocalsOK, Labels
    <2> QED BY <1>2, <2>3, ControlType DEF EnvGet
  <1>3. CASE EnvCount(t)
    <2>1. LocalsOK'
      BY <1>3, <1>b DEF EnvCount, TypeOK, LocalsOK, Labels
    <2> QED BY <1>3, <2>1, ControlType DEF EnvCount
  <1>4. CASE EnvMark(t)
    <2>1. LocalsOK'
      BY <1>4, <1>b DEF EnvMark, TypeOK, LocalsOK, Labels
    <2>s. \A n \in Nat : [newestEnv EXCEPT ![tx[t].env].delAt = n] \in [Envs -> EnvRow]
      BY <1>0 DEF TypeOK, EnvsOK, EnvRow
    <2>2. EnvsOK' /\ LocksOK'
      BY <1>4, <1>0, <2>s DEF EnvMark, committed, TypeOK, EnvsOK, LocksOK, Owners
    <2> QED BY <1>4, <2>1, <2>2 DEF EnvMark, committed, readVars, TypeOK, RowsOK, HistoriesOK, KeysOK, ReadersOK
  <1>5. CASE CascadeSnap(t)
    <2> DEFINE match == {s \in {tx[t].env} \X Keys : Cascades(t, View(t, s))}
    <2>1. match \in SUBSET Slots
      BY <1>0 DEF Slots
    <2>2. [tx EXCEPT ![t].queue = match] \in [Txns -> Locals]
      BY <1>0, <2>1, LocalsUpdate, LocalsReplace DEF TypeOK, LocalsOK
    <2>3. LocalsOK'
      BY <1>5, <2>2, <1>b DEF CascadeSnap, TypeOK, LocalsOK, Labels
    <2> QED BY <1>5, <2>3, ControlType DEF CascadeSnap
  <1>6. CASE Cascade(t)
    <2> DEFINE stamp == IF tx[t].op = "envDelete" THEN tx[t].n ELSE 0
               hit(s) == Cascades(t, View(t, s))
               found(s) == IF hit(s) THEN tx[t].count + 1 ELSE tx[t].count
    <2>1. PICK s \in tx[t].queue :
            /\ rowLock' = [rowLock EXCEPT ![s] = t]
            /\ newest' = IF hit(s) THEN [newest EXCEPT ![s] = [newest[s] EXCEPT !.delAt = stamp, !.byEnv = stamp]] ELSE newest
            /\ tx' = [tx EXCEPT ![t] = [tx[t] EXCEPT !.queue = tx[t].queue \ {s}, !.count = found(s)]]
            /\ Goto(t, IF tx[t].queue = {s} THEN "cascadeEnd" ELSE "cascade")
            /\ UNCHANGED <<committed, newestVersions, newestEnv, newestDeks, envLock, orgLock, ops, readVars>>
      BY <1>6 DEF Cascade
    <2>2. s \in Slots
      BY <1>0
    <2>3. RowsOK'
      <3>1. stamp \in Nat
        BY <1>0
      <3>2. [newest[s] EXCEPT !.delAt = stamp, !.byEnv = stamp] \in SecretRow
        <4> HIDE DEF stamp
        <4> QED BY <3>1, <2>2 DEF TypeOK, RowsOK, SecretRow
      <3>3. newest' \in [Slots -> SecretRow]
        <4> HIDE DEF stamp, hit
        <4> QED BY <2>1, <3>2, <2>2 DEF TypeOK, RowsOK
      <3> QED BY <2>1, <3>3 DEF TypeOK, RowsOK, committed
    <2>4. \A n \in Nat : [tx[t] EXCEPT !.queue = tx[t].queue \ {s}, !.count = n] \in Locals
      BY <1>0 DEF Locals
    <2>t. tx' \in [Txns -> Locals]
      <3>1. found(s) \in Nat
        BY <1>0
      <3> HIDE DEF found
      <3> QED BY <3>1, <2>1, <2>4, LocalsReplace, Zenon DEF TypeOK, LocalsOK
    <2>5. LocalsOK'
      BY <2>1, <2>t, <1>b DEF TypeOK, LocalsOK, Labels
    <2>6. LocksOK'
      BY <2>1, <2>2 DEF TypeOK, LocksOK, Owners
    <2> QED BY <2>1, <2>3, <2>5, <2>6 DEF committed, readVars, TypeOK, HistoriesOK, EnvsOK, KeysOK, ReadersOK
  <1>7. CASE CascadeEnd(t)
    <2>1. LocalsOK'
      BY <1>7, <1>b DEF CascadeEnd, TypeOK, LocalsOK, Labels
    <2>2. EnvsOK' /\ LocksOK'
      BY <1>7, <1>0 DEF CascadeEnd, committed, TypeOK, EnvsOK, EnvRow, LocksOK, Owners
    <2> QED BY <1>7, <2>1, <2>2 DEF CascadeEnd, committed, readVars, TypeOK, RowsOK, HistoriesOK, KeysOK, ReadersOK
  <1>8. CASE EnvReload(t)
    <2>1. LocalsOK'
      BY <1>8, <1>b DEF EnvReload, TypeOK, LocalsOK, Labels
    <2> QED BY <1>8, <2>1, ControlType DEF EnvReload
  <1> QED BY <1>1, <1>2, <1>3, <1>4, <1>5, <1>6, <1>7, <1>8

\* The steps of a runtime fetch keep the types.
LEMMA ReaderType ==
  ASSUME TypeOK, NEW e \in Envs, RuntimeScope(e) \/ NotModified(e) \/ RuntimeRows(e) \/ RuntimeError(e)
  PROVE  TypeOK'
  <1>1. UNCHANGED dbVars
    BY DEF RuntimeScope, NotModified, RuntimeRows, RuntimeError
  <1>2. ReadersOK'
    <2>1. envs[e].ver \in Nat /\ poll[e].ver \in Nat
      BY DEF TypeOK, ReadersOK, EnvsOK, EnvRow
    <2>2. CASE RuntimeScope(e)
      BY <2>1, <2>2 DEF RuntimeScope, TypeOK, ReadersOK
    <2>3. CASE NotModified(e)
      BY <2>3 DEF NotModified, readVars, TypeOK, ReadersOK
    <2>4. CASE RuntimeRows(e)
      <3>1. cache' = [cache EXCEPT ![e] = [has |-> TRUE, ver |-> poll[e].ver, body |-> Body(e)]]
        BY <2>4 DEF RuntimeRows
      <3>2. poll' \in [Envs -> [pc : {"idle", "rows"}, ver : Nat]]
        BY <2>4 DEF RuntimeRows, TypeOK, ReadersOK
      <3> QED BY <3>1, <3>2, <2>1 DEF TypeOK, ReadersOK
    <2>5. CASE RuntimeError(e)
      BY <2>5 DEF RuntimeError, TypeOK, ReadersOK
    <2> QED BY <2>2, <2>3, <2>4, <2>5
  <1> QED BY <1>1, <1>2 DEF dbVars, TypeOK, RowsOK, HistoriesOK, EnvsOK, KeysOK, LocksOK, LocalsOK

\* The initial config_version of an environment, a number of secrets.
LEMMA SeedType == \A e \in Envs : Cardinality({s \in Seeded : s[1] = e}) \in Nat
  <1> TAKE e \in Envs
  <1>1. IsFiniteSet(Slots)
    BY EnvsAssumption, KeysAssumption, FS_Product DEF Slots
  <1>2. IsFiniteSet({s \in Seeded : s[1] = e})
    BY <1>1, SeededAssumption, FS_Subset
  <1> QED BY <1>2, FS_CardinalityType

\* The initial state has the types.
LEMMA InitType == Init => TypeOK
  <1> SUFFICES ASSUME Init PROVE TypeOK
    OBVIOUS
  <1> USE DEF Init, DbInit, ReadInit
  <1>1. RowsOK
    BY DEF RowsOK, SecretRow, Fresh, Absent
  <1>2. HistoriesOK
    BY DEF HistoriesOK, IsHistory, FirstVersion
  <1>3. EnvsOK
    BY SeedType DEF EnvsOK, EnvRow
  <1>4. KeysOK
    <2>1. <<>> \in Seq(KeyStatus) /\ <<"active">> \in Seq(KeyStatus)
      BY DEF KeyStatus
    <2> QED BY <2>1 DEF KeysOK
  <1>5. LocksOK
    BY DEF LocksOK, Owners
  <1>6. LocalsOK
    BY BlankType DEF LocalsOK, Labels
  <1>7. ReadersOK
    BY DEF ReadersOK
  <1> QED BY <1>1, <1>2, <1>3, <1>4, <1>5, <1>6, <1>7 DEF TypeOK

\* Every step keeps the types.
LEMMA NextType == TypeOK /\ [Next]_vars => TypeOK'
  <1> SUFFICES ASSUME TypeOK, [Next]_vars PROVE TypeOK'
    OBVIOUS
  <1>1. CASE \E t \in Txns : Begin(t) \/ Statement(t) \/ Reject(t) \/ Victim(t) \/ Crash(t)
    BY <1>1, BeginType, SecretStatementType, BatchStatementType, EnvironmentStatementType, CommitType, AbortType
       DEF Statement, Reject, Victim, Crash
  <1>2. CASE \E e \in Polled : RuntimeScope(e) \/ NotModified(e) \/ RuntimeRows(e) \/ RuntimeError(e)
    BY <1>2, ReaderType, PolledAssumption
  <1>3. CASE UNCHANGED vars
    BY <1>3 DEF vars, dbVars, readVars, TypeOK, RowsOK, HistoriesOK, EnvsOK, KeysOK, LocksOK, LocalsOK, ReadersOK
  <1> QED BY <1>1, <1>2, <1>3 DEF Next

\* Type correctness: every variable of the composition has its type in every
\* reachable state, for all environments, keys, transactions and bounds.
THEOREM TypeCorrect == Spec => []TypeOK
  BY InitType, NextType, PTL DEF Spec
=============================================================================
