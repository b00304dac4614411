----------------------- MODULE SecretInvariantProofs ------------------------
(***************************************************************************)
(* SystemInv is inductive, and what follows from it: ETags are sound,      *)
(* histories have no gaps and only grow, no update is lost, and the system *)
(* implements the abstract store.                                          *)
(***************************************************************************)
EXTENDS StoreRefinement, SecretSystemProofs

-----------------------------------------------------------------------------
(* What a step of one transaction leaves alone. *)

\* A step of t keeps the locals of the others, and the rows they have locked.
Respects(t) ==
  /\ \A u \in Txns \ {t} : pc'[u] = pc[u] /\ tx'[u] = tx[u]
  /\ \A s \in Slots : rowLock[s] \notin {NoTxn, t} =>
       /\ rowLock'[s] = rowLock[s] /\ newest'[s] = newest[s] /\ newestVersions'[s] = newestVersions[s]
       /\ secrets'[s] = secrets[s] /\ versions'[s] = versions[s]
  /\ \A s \in Slots : rowLock'[s] \in {rowLock[s], t, NoTxn}
  /\ \A e \in Envs : envLock[e] \notin {NoTxn, t} =>
       envLock'[e] = envLock[e] /\ newestEnv'[e] = newestEnv[e] /\ envs'[e] = envs[e]

\* So it keeps what the others rely on.
LEMMA OthersKept ==
  ASSUME SystemInv, NEW t \in Txns, Respects(t), NEW u \in Txns, u # t
  PROVE  Local(u)'
  <1>1. pc'[u] = pc[u] /\ tx'[u] = tx[u] /\ Local(u)
    BY DEF Respects, SystemInv
  <1>2. \A s \in Slots : rowLock[s] = u =>
          /\ rowLock'[s] = u /\ newest'[s] = newest[s] /\ newestVersions'[s] = newestVersions[s]
          /\ secrets'[s] = secrets[s] /\ versions'[s] = versions[s]
    BY NoTxnAssumption DEF Respects
  <1>3. \A s \in Slots : rowLock'[s] = u => rowLock[s] = u
    BY NoTxnAssumption DEF Respects
  <1>4. \A e \in Envs : envLock[e] = u => envLock'[e] = u /\ newestEnv'[e] = newestEnv[e] /\ envs'[e] = envs[e]
    BY NoTxnAssumption DEF Respects
  <1>5. tx[u].item \in Slots
    BY DEF SystemInv, TypeOK, LocalsOK, Locals
  <1>6. ItemHeld(u)' /\ SeenHeld(u)'
    BY <1>1, <1>2, <1>5 DEF Local, ItemHeld, SeenHeld, Mine
  <1>7. Starts(u)' /\ Expects(u)' /\ CascadeScoped(u)'
    BY <1>1 DEF Local, Starts, Expects, CascadeScoped
  <1>8. ASSUME NEW s \in Slots, rowLock'[s] = u
        PROVE  OwnedWhole(u, s)' /\ Dirty(u, s)'
    <2>1. rowLock[s] = u /\ OwnedWhole(u, s) /\ Dirty(u, s) /\ s[1] \in Envs
      BY <1>1, <1>3, <1>8 DEF Local, Slots
    <2>2. OwnedWhole(u, s)'
      BY <1>1, <1>2, <2>1 DEF OwnedWhole, Writing
    <2>3. Dirty(u, s)'
      BY <1>1, <1>2, <1>4, <2>1 DEF Dirty, Same, Bumped, Writing
    <2> QED BY <2>2, <2>3
  <1> QED BY <1>6, <1>7, <1>8 DEF Local

-----------------------------------------------------------------------------
(* Rows outside #writeVersion and outside a cascade. *)

\* The row is whole and any visible change of it has been bumped by t.
Quiet(t, s) == Whole(newest[s], newestVersions[s]) /\ (Same(s) \/ Bumped(t, s[1]))

\* Between other statements every row t owns or may lock is quiet.
LEMMA QuietBefore ==
  ASSUME SystemInv, NEW t \in Txns, pc[t] \notin {"encrypt", "write", "cascade", "cascadeEnd"},
         NEW s \in Slots, CanLockRow(t, s)
  PROVE  Quiet(t, s)
  <1>1. CASE rowLock[s] = t
    BY <1>1 DEF SystemInv, Local, OwnedWhole, Dirty, Writing, Quiet, Whole
  <1>2. CASE rowLock[s] = NoTxn
    BY <1>2 DEF SystemInv, Shared, RowsGuarded, CommittedWhole, Quiet, Same
  <1> QED BY <1>1, <1>2 DEF CanLockRow

\* A quiet row is as an owner must leave it.
LEMMA QuietAfter ==
  ASSUME NEW t \in Txns, NEW s \in Slots, Quiet(t, s)', pc'[t] # "write"
  PROVE  OwnedWhole(t, s)' /\ Dirty(t, s)'
  BY DEF Quiet, Whole, OwnedWhole, Dirty

\* Taking row locks, or none, at such a statement keeps the owner's rows quiet.
LEMMA LockOwned ==
  ASSUME SystemInv, NEW t \in Txns, pc[t] \notin {"encrypt", "write", "cascade", "cascadeEnd"}, pc'[t] # "write",
         UNCHANGED <<tables, envLock>>, \A s \in Slots : rowLock'[s] = t => CanLockRow(t, s)
  PROVE  \A s \in Slots : rowLock'[s] = t => OwnedWhole(t, s)' /\ Dirty(t, s)'
  <1> SUFFICES ASSUME NEW s \in Slots, rowLock'[s] = t PROVE OwnedWhole(t, s)' /\ Dirty(t, s)'
    OBVIOUS
  <1>1. Quiet(t, s)
    BY QuietBefore
  <1>2. Quiet(t, s)'
    BY <1>1 DEF Quiet, Whole, Same, Bumped, tables
  <1> QED BY <1>2, QuietAfter

\* A step that changes no table, no reader and at most takes row locks keeps Shared.
LEMMA LockShared ==
  ASSUME Shared, UNCHANGED <<tables, envLock, readVars>>, \A s \in Slots : rowLock'[s] = NoTxn => rowLock[s] = NoTxn
  PROVE  Shared'
  <1> USE DEF tables, readVars
  <1>1. RowsGuarded' /\ EnvsGuarded' /\ VersionsKept' /\ CommittedWhole' /\ ExpectationsMet' /\ ReadersBehind'
    BY DEF Shared, RowsGuarded, EnvsGuarded, VersionsKept, CommittedWhole, Whole, ExpectationsMet, Follows, ReadersBehind
  <1>2. EtagSound'
    BY DEF Shared, EtagSound, Body, Live
  <1> QED BY <1>1, <1>2 DEF Shared

-----------------------------------------------------------------------------
(* One lemma per group of statements. *)

\* What has to be shown of a step of t.
StepOf(t) == Respects(t) /\ Shared' /\ Local(t)'

\* A call begins with nothing held.
LEMMA BeginStep == ASSUME SystemInv, NEW t \in Txns, Begin(t) PROVE StepOf(t)
  <1>1. PICK label \in Labels, args \in Locals : WellFormed(label, args) /\ Start(t, label, args)
    BY BeginCalled DEF Called, SystemInv
  <1>2. UNCHANGED <<tables, locks, readVars>> /\ pc[t] = "idle" /\ pc'[t] = label
    BY <1>1, BeginCalled DEF Start, Goto, SystemInv, TypeOK, LocalsOK
  <1>3. Respects(t)
    BY <1>1, <1>2 DEF Respects, Start, Goto, tables, locks, SystemInv, TypeOK, LocalsOK
  <1>4. Shared'
    BY <1>2, LockShared DEF SystemInv, locks
  <1>5. \A s \in Slots : rowLock'[s] = t => OwnedWhole(t, s)' /\ Dirty(t, s)'
    BY <1>1, <1>2, LockOwned DEF locks, CanLockRow, WellFormed
  <1>6. /\ tx'[t].seen = args.seen /\ tx'[t].todo = args.todo /\ tx'[t].item = args.item
        /\ tx'[t].expect = args.expect
    BY <1>1 DEF Start, SystemInv, TypeOK, LocalsOK, Locals
  <1>7. ItemHeld(t)' /\ SeenHeld(t)' /\ Starts(t)' /\ Expects(t)' /\ CascadeScoped(t)'
    BY <1>1, <1>2, <1>6 DEF WellFormed, ItemHeld, SeenHeld, Starts, Expects, CascadeScoped, Looping
  <1> QED BY <1>3, <1>4, <1>5, <1>7 DEF StepOf, Local

\* Statements that only read: what t relies on at the next label follows from
\* what it relied on before.
LEMMA ReadStep ==
  ASSUME SystemInv, NEW t \in Txns,
         \/ Check(t) \/ CreateEnvironment(t) \/ Environment(t) \/ PromotionPreview(t) \/ NextItem(t) \/ Select(t)
         \/ EnvGet(t) \/ EnvCount(t) \/ CascadeSnap(t) \/ EnvReload(t)
  PROVE  StepOf(t)
  <1>0. TypeOK /\ Shared /\ Local(t) /\ tx[t] \in Locals /\ tx[t].item \in Slots
    BY DEF SystemInv, TypeOK, LocalsOK, Locals
  <1>1. UNCHANGED <<tables, locks, readVars>>
    BY DEF Check, CreateEnvironment, Environment, PromotionPreview, NextItem, Select, EnvGet, EnvCount, CascadeSnap, EnvReload
  <1>2. /\ pc[t] \notin {"encrypt", "write", "cascade", "cascadeEnd"}
        /\ \E label \in Labels : label # "write" /\ Goto(t, label)
    BY DEF Check, CreateEnvironment, Environment, PromotionPreview, NextItem, Select, Selected, EnvGet, EnvCount,
           CascadeSnap, EnvReload, Labels
  <1>3. \E x : tx' = [tx EXCEPT ![t] = x]
    BY DEF Check, CreateEnvironment, Environment, PromotionPreview, NextItem, Select, EnvGet, EnvCount, CascadeSnap, EnvReload,
           SystemInv, TypeOK, LocalsOK
  <1>4. Respects(t)
    BY <1>1, <1>2, <1>3 DEF Respects, Goto, tables, locks, SystemInv, TypeOK, LocalsOK
  <1>5. Shared'
    BY <1>0, <1>1, LockShared DEF locks
  <1>6. \A s \in Slots : rowLock'[s] = t => OwnedWhole(t, s)' /\ Dirty(t, s)'
    BY <1>1, <1>2, LockOwned DEF locks, CanLockRow, Goto, SystemInv, TypeOK, LocalsOK
  <1>7. ItemHeld(t)' /\ SeenHeld(t)' /\ Starts(t)' /\ Expects(t)' /\ CascadeScoped(t)'
    <2> USE DEF ItemHeld, SeenHeld, Starts, Expects, CascadeScoped, Looping, Mine
    <2>a. rowLock' = rowLock /\ newest' = newest /\ pc \in [Txns -> Labels] /\ tx \in [Txns -> Locals]
      BY <1>1 DEF tables, locks, SystemInv, TypeOK, LocalsOK
    <2>1. CASE Check(t)
      <3>1. pc[t] = "check" /\ pc'[t] \in {"remove", "notes", "encrypt"} /\ tx' = tx
        BY <2>1, <2>a DEF Check, Goto
      <3>2. tx[t].expect \in {0, tx[t].seen[tx[t].item]}
        BY <2>1 DEF Check, Allowed
      <3> QED BY <1>0, <2>a, <3>1, <3>2 DEF Local
    <2>2. CASE CreateEnvironment(t)
      <3>1. pc[t] = "createEnv" /\ pc'[t] = "recover" /\ tx' = tx
        BY <2>2, <2>a DEF CreateEnvironment, Goto
      <3> QED BY <1>0, <2>a, <3>1 DEF Local
    <2>3. CASE Environment(t)
      <3>1. pc[t] = "environment" /\ pc'[t] \in {"item", "select"} /\ tx' = tx
        BY <2>3, <2>a DEF Environment, Goto
      <3> QED BY <1>0, <2>a, <3>1 DEF Local
    <2>4. CASE PromotionPreview(t)
      <3>1. /\ pc[t] = "preview" /\ pc'[t] \in {"item", "commit"}
            /\ tx'[t].seen = tx[t].seen /\ tx'[t].expect = tx[t].expect
        BY <1>0, <2>4, <2>a DEF PromotionPreview, Goto, Locals
      <3> QED BY <1>0, <2>a, <3>1 DEF Local
    <2>5. CASE NextItem(t)
      <3>1. /\ pc[t] = "item" /\ pc'[t] \in {"itemRow", "encrypt", "createEnv", "item", "commit"}
            /\ tx'[t].seen = tx[t].seen /\ tx'[t].expect = tx[t].expect /\ tx'[t].todo \subseteq tx[t].todo
            /\ pc'[t] = "encrypt" => tx'[t].item \in tx[t].todo /\ tx[t].seen[tx'[t].item] # 0
        <4>1. PICK s \in tx[t].todo :
                /\ pc[t] = "item"
                /\ \/ /\ tx' = [tx EXCEPT ![t].item = s]
                      /\ Goto(t, CASE tx[t].op = "bulk"   -> "itemRow"
                                   [] tx[t].op # "bulk" /\ tx[t].seen[s] # 0 -> "encrypt"
                                   [] OTHER               -> "createEnv")
                   \/ /\ tx' = [tx EXCEPT ![t].todo = tx[t].todo \ {s}]
                      /\ Goto(t, IF tx[t].todo = {s} THEN "commit" ELSE "item")
          BY <2>5 DEF NextItem
        <4>2. CASE tx' = [tx EXCEPT ![t].item = s]
          <5>1. tx'[t].item = s /\ tx'[t].seen = tx[t].seen /\ tx'[t].expect = tx[t].expect /\ tx'[t].todo = tx[t].todo
            BY <1>0, <2>a, <4>2 DEF Locals
          <5> QED BY <2>a, <4>1, <5>1 DEF Goto
        <4>3. CASE /\ tx' = [tx EXCEPT ![t].todo = tx[t].todo \ {s}]
                   /\ Goto(t, IF tx[t].todo = {s} THEN "commit" ELSE "item")
          <5>1. tx'[t].seen = tx[t].seen /\ tx'[t].expect = tx[t].expect /\ tx'[t].todo = tx[t].todo \ {s}
            BY <1>0, <2>a, <4>3 DEF Locals
          <5> QED BY <2>a, <4>1, <4>3, <5>1 DEF Goto
        <4> QED BY <4>1, <4>2, <4>3
      <3>2. tx[t].todo \subseteq Slots
        BY <1>0 DEF Locals
      <3> QED BY <1>0, <2>a, <3>1, <3>2 DEF Local
    <2>6. CASE Select(t)
      <3>1. /\ pc[t] = "select" /\ pc'[t] \in {"lockRows", "item", "preview"} /\ tx'[t].expect = tx[t].expect
            /\ \A s \in Slots : tx'[t].seen[s] # 0 => s \in tx'[t].queue
            /\ pc'[t] # "lockRows" => tx'[t].queue = {}
        <4> DEFINE match == {s \in Scope(t) : Live(View(t, s))}
                   f == [s \in Slots |-> IF s \in match THEN View(t, s).cur ELSE 0]
        <4>1. /\ tx' = [tx EXCEPT ![t] = [tx[t] EXCEPT !.queue = match, !.all = match, !.seen = f]]
              /\ pc[t] = "select" /\ Goto(t, IF match = {} THEN Selected(t) ELSE "lockRows")
          BY <2>6 DEF Select
        <4>2. \A s \in Slots : f[s] # 0 => s \in match
          OBVIOUS
        <4> HIDE DEF match, f
        <4>3. tx'[t].queue = match /\ tx'[t].seen = f /\ tx'[t].expect = tx[t].expect
          BY <1>0, <2>a, <4>1 DEF Locals
        <4> QED BY <2>a, <4>1, <4>2, <4>3 DEF Goto, Selected
      <3> QED BY <1>0, <2>a, <3>1 DEF Local
    <2>7. CASE EnvGet(t)
      <3>1. pc'[t] \in {"envCount", "envMark"}
        BY <2>7, <2>a DEF EnvGet, Goto
      <3> QED BY <3>1
    <2>8. CASE EnvCount(t) \/ EnvReload(t)
      <3>1. pc'[t] \in {"envMark", "commit"}
        BY <2>8, <2>a DEF EnvCount, EnvReload, Goto
      <3> QED BY <3>1
    <2>9. CASE CascadeSnap(t)
      <3> DEFINE match == {s \in {tx[t].env} \X Keys : Cascades(t, View(t, s))}
      <3>1. pc'[t] \in {"cascade", "cascadeEnd"} /\ tx' = [tx EXCEPT ![t].queue = match]
        BY <2>9, <2>a DEF CascadeSnap, Goto
      <3>2. match \subseteq {tx[t].env} \X Keys
        OBVIOUS
      <3> HIDE DEF match
      <3>3. tx'[t].queue = match /\ tx'[t].env = tx[t].env
        BY <1>0, <2>a, <3>1 DEF Locals
      <3> QED BY <3>1, <3>2, <3>3
    <2> QED BY <2>1, <2>2, <2>3, <2>4, <2>5, <2>6, <2>7, <2>8, <2>9
  <1> QED BY <1>4, <1>5, <1>6, <1>7 DEF StepOf, Local

\* SELECT ... FOR UPDATE of the current item or of the next row of a batch.
LEMMA LockStep ==
  ASSUME SystemInv, NEW t \in Txns, MetadataRow(t) \/ Recover(t) \/ BulkRow(t) \/ LockRow(t)
  PROVE  StepOf(t)
  <1>0. /\ TypeOK /\ Shared /\ Local(t) /\ tx[t] \in Locals /\ tx[t].item \in Slots /\ tx[t].queue \subseteq Slots
        /\ pc \in [Txns -> Labels] /\ tx \in [Txns -> Locals] /\ rowLock \in [Slots -> Owners]
    BY DEF SystemInv, TypeOK, LocalsOK, LocksOK, Locals
  <1>1. UNCHANGED <<tables, envLock, orgLock, readVars>>
    BY DEF MetadataRow, Recover, BulkRow, LockRow
  <1>2. /\ pc[t] \in {"row", "recover", "itemRow", "lockRows"}
        /\ \E label \in Labels : label # "write" /\ Goto(t, label)
    BY DEF MetadataRow, Recover, BulkRow, LockRow, Selected, Labels
  <1>3. \E x : tx' = [tx EXCEPT ![t] = x]
    <2>1. CASE MetadataRow(t) \/ Recover(t) \/ BulkRow(t)
      BY <1>0, <2>1 DEF MetadataRow, Recover, BulkRow
    <2>2. CASE LockRow(t)
      BY <1>0, <2>2 DEF LockRow
    <2> QED BY <2>1, <2>2
  <1>4. rowLock' = rowLock \/ \E s \in Slots : CanLockRow(t, s) /\ rowLock' = [rowLock EXCEPT ![s] = t]
    BY <1>0 DEF MetadataRow, Recover, BulkRow, LockRow
  <1>5. Respects(t)
    BY <1>0, <1>1, <1>2, <1>3, <1>4 DEF Respects, CanLockRow, Goto, tables
  <1>6. Shared'
    <2>1. \A s \in Slots : rowLock'[s] = NoTxn => rowLock[s] = NoTxn
      BY <1>0, <1>4, NoTxnAssumption
    <2> QED BY <1>0, <1>1, <2>1, LockShared
  <1>7. \A s \in Slots : rowLock'[s] = t => OwnedWhole(t, s)' /\ Dirty(t, s)'
    <2>1. \A s \in Slots : rowLock'[s] = t => CanLockRow(t, s)
      BY <1>0, <1>4 DEF CanLockRow
    <2>2. pc'[t] # "write"
      BY <1>0, <1>2 DEF Goto
    <2> QED BY <1>1, <1>2, <2>1, <2>2, LockOwned
  <1>8. ItemHeld(t)' /\ SeenHeld(t)' /\ Starts(t)' /\ Expects(t)' /\ CascadeScoped(t)'
    <2> USE DEF ItemHeld, SeenHeld, Starts, Expects, CascadeScoped, Looping, Mine
    <2>a. newest' = newest
      BY <1>1 DEF tables
    <2>b. ASSUME NEW s \in Slots, CanLockRow(t, s)
          PROVE  View(t, s).cur = newest[s].cur
      BY <1>0, <2>b DEF View, CanLockRow, Shared, RowsGuarded
    <2>1. CASE MetadataRow(t)
      <3> DEFINE s == tx[t].item
      <3>1. /\ pc[t] = "row" /\ pc'[t] = "check" /\ CanLockRow(t, s)
            /\ rowLock' = [rowLock EXCEPT ![s] = t] /\ tx' = [tx EXCEPT ![t].seen[s] = View(t, s).cur]
        BY <1>0, <2>1 DEF MetadataRow, Goto
      <3>2. tx'[t].seen[s] = newest[s].cur /\ tx'[t].item = s /\ tx'[t].todo = tx[t].todo
        BY <1>0, <3>1, <2>b DEF Locals
      <3> QED BY <1>0, <2>a, <3>1, <3>2 DEF Local
    <2>2. CASE Recover(t) \/ BulkRow(t)
      <3> DEFINE s == tx[t].item
      <3>1. CASE /\ pc[t] \in {"recover", "itemRow"} /\ pc'[t] \in {"undelete", "encrypt"} /\ CanLockRow(t, s)
                 /\ rowLock' = [rowLock EXCEPT ![s] = t] /\ tx' = [tx EXCEPT ![t].seen[s] = View(t, s).cur]
        <4>1. /\ tx'[t].seen = [tx[t].seen EXCEPT ![s] = newest[s].cur] /\ tx'[t].item = s /\ tx'[t].todo = tx[t].todo
              /\ tx'[t].expect = tx[t].expect /\ tx[t].seen \in [Slots -> Nat]
          BY <1>0, <3>1, <2>b DEF Locals
        <4> QED BY <1>0, <2>a, <3>1, <4>1 DEF Local
      <3>2. CASE /\ pc[t] \in {"recover", "itemRow"} /\ pc'[t] \in {"insert", "createEnv"}
                 /\ UNCHANGED <<rowLock, tx>>
        BY <1>0, <2>a, <3>2 DEF Local
      <3> QED BY <1>0, <2>2, <3>1, <3>2 DEF Recover, BulkRow, Goto
    <2>3. CASE LockRow(t)
      <3> DEFINE again(s) == Live(View(t, s)) /\ (tx[t].op = "promote" => View(t, s).cur = tx[t].seen[s])
                 found(s) == IF again(s) THEN View(t, s).cur ELSE 0
      <3>1. PICK s \in tx[t].queue :
              /\ pc[t] = "lockRows" /\ CanLockRow(t, s) /\ rowLock' = [rowLock EXCEPT ![s] = t]
              /\ tx' = [tx EXCEPT ![t] = [tx[t] EXCEPT !.queue = tx[t].queue \ {s}, !.seen[s] = found(s)]]
              /\ Goto(t, IF tx[t].queue = {s} THEN Selected(t) ELSE "lockRows")
        BY <2>3 DEF LockRow
      <3>2. s \in Slots /\ found(s) \in {0, newest[s].cur}
        BY <1>0, <3>1, <2>b
      <3> HIDE DEF found
      <3>3. /\ tx'[t].queue = tx[t].queue \ {s} /\ tx'[t].seen = [tx[t].seen EXCEPT ![s] = found(s)]
            /\ tx'[t].expect = tx[t].expect /\ tx[t].seen \in [Slots -> Nat]
        BY <1>0, <3>1, <3>2 DEF Locals
      <3>4. pc'[t] \in {"lockRows", "item", "preview"} /\ (pc'[t] # "lockRows" => tx[t].queue = {s})
        BY <1>0, <3>1 DEF Goto, Selected
      <3>5. \A r \in Slots : tx'[t].seen[r] # 0 /\ r \notin tx'[t].queue => rowLock'[r] = t /\ newest[r].cur = tx'[t].seen[r]
        BY <1>0, <3>1, <3>2, <3>3 DEF Local
      <3> QED BY <1>0, <2>a, <3>1, <3>3, <3>4, <3>5 DEF Local
    <2> QED BY <2>1, <2>2, <2>3
  <1> QED BY <1>5, <1>6, <1>7, <1>8 DEF StepOf, Local

\* UPDATE of a row t owns: the shared state stays consistent, t's bumps stand, and
\* a visible change is bumped.
LEMMA UpdateEffect ==
  ASSUME SystemInv, NEW t \in Txns, NEW s \in Slots, rowLock[s] = t, NEW new \in SecretRow, UpdateRow(t, s, new),
         UNCHANGED <<committed, newestVersions, rowLock, readVars>>
  PROVE  /\ Shared'
         /\ newest' = [newest EXCEPT ![s] = new]
         /\ \A r \in Slots : rowLock[r] \notin {NoTxn, t} => newest'[r] = newest[r]
         /\ \A e \in Envs : envLock[e] \notin {NoTxn, t} => envLock'[e] = envLock[e] /\ newestEnv'[e] = newestEnv[e]
         /\ \A e \in Envs : Bumped(t, e) => Bumped(t, e)'
         /\ Bumps(newest[s], new) => Bumped(t, s[1])'
  <1>0. /\ newest \in [Slots -> SecretRow] /\ newestEnv \in [Envs -> EnvRow] /\ envs \in [Envs -> EnvRow]
        /\ envLock \in [Envs -> Owners] /\ s[1] \in Envs /\ Shared /\ t # NoTxn
    BY NoTxnAssumption DEF SystemInv, TypeOK, RowsOK, EnvsOK, LocksOK, Slots
  <1>1. newest' = [newest EXCEPT ![s] = new]
    BY DEF UpdateRow
  <1>2. /\ envs' = envs
        /\ \/ UNCHANGED <<envLock, newestEnv>> /\ ~Bumps(newest[s], new)
           \/ /\ CanLockEnv(t, s[1]) /\ envLock' = [envLock EXCEPT ![s[1]] = t]
              /\ newestEnv' = [newestEnv EXCEPT ![s[1]].ver = newestEnv[s[1]].ver + 1]
    BY DEF UpdateRow, committed
  <1>3. \A e \in Envs :
          /\ envLock[e] \notin {NoTxn, t} => envLock'[e] = envLock[e] /\ newestEnv'[e] = newestEnv[e]
          /\ envLock'[e] = NoTxn => envLock[e] = NoTxn /\ newestEnv'[e] = newestEnv[e]
          /\ envLock[e] = t => envLock'[e] = t
          /\ newestEnv'[e].ver >= newestEnv[e].ver
    BY <1>0, <1>2 DEF CanLockEnv, EnvRow
  <1>4. EnvsGuarded'
    <2>1. \A e \in Envs : newestEnv'[e].ver \in Nat /\ newestEnv[e].ver \in Nat /\ envs[e].ver \in Nat
      BY <1>0, <1>2 DEF EnvRow
    <2> QED BY <1>0, <1>2, <1>3, <2>1 DEF Shared, EnvsGuarded
  <1>5. RowsGuarded'
    BY <1>0, <1>1 DEF Shared, RowsGuarded, committed
  <1>6. VersionsKept' /\ CommittedWhole' /\ ExpectationsMet' /\ ReadersBehind'
    BY <1>0 DEF Shared, VersionsKept, CommittedWhole, Whole, ExpectationsMet, Follows, ReadersBehind, committed, readVars
  <1>7. EtagSound'
    BY <1>0 DEF Shared, EtagSound, Body, Live, committed, readVars
  <1>8. Shared'
    BY <1>4, <1>5, <1>6, <1>7 DEF Shared
  <1>9. \A e \in Envs : Bumped(t, e) => Bumped(t, e)'
    <2>1. \A e \in Envs : newestEnv'[e].ver \in Nat /\ newestEnv[e].ver \in Nat /\ envs[e].ver \in Nat
      BY <1>0, <1>2 DEF EnvRow
    <2> QED BY <1>2, <1>3, <2>1 DEF Bumped
  <1>10. Bumps(newest[s], new) => Bumped(t, s[1])'
    <2> SUFFICES ASSUME Bumps(newest[s], new) PROVE Bumped(t, s[1])'
      OBVIOUS
    <2>1. newestEnv'[s[1]].ver = newestEnv[s[1]].ver + 1 /\ envLock'[s[1]] = t
      BY <1>0, <1>2 DEF EnvRow
    <2>2. newestEnv[s[1]].ver >= envs[s[1]].ver /\ newestEnv[s[1]].ver \in Nat /\ envs[s[1]].ver \in Nat
      BY <1>0 DEF Shared, EnvsGuarded, EnvRow
    <2> QED BY <1>2, <2>1, <2>2 DEF Bumped
  <1> QED BY <1>0, <1>1, <1>3, <1>8, <1>9, <1>10

\* The UPDATE statements on secrets.
LEMMA UpdateStep ==
  ASSUME SystemInv, NEW t \in Txns, WriteMetadata(t) \/ SoftDelete(t) \/ Undelete(t) \/ WriteVersion(t)
  PROVE  StepOf(t)
  <1>s. PICK s \in Slots : s = tx[t].item
    BY DEF SystemInv, TypeOK, LocalsOK, Locals
  <1>0. /\ TypeOK /\ Shared /\ Local(t) /\ tx[t] \in Locals /\ tx[t].n \in Nat /\ tx[t].seen[s] \in Nat
        /\ tx[t].todo \subseteq Slots /\ pc \in [Txns -> Labels] /\ tx \in [Txns -> Locals]
        /\ newest \in [Slots -> SecretRow] /\ newest[s] \in SecretRow /\ s[1] \in Envs
    BY DEF SystemInv, TypeOK, LocalsOK, RowsOK, Locals, Slots
  <1>1. Mine(t, s)
    BY <1>0, <1>s DEF Local, ItemHeld, WriteMetadata, SoftDelete, Undelete, WriteVersion
  <1>2. UNCHANGED <<committed, newestVersions, rowLock, readVars>>
    BY DEF WriteMetadata, SoftDelete, Undelete, WriteVersion
  <1>3. PICK new \in SecretRow :
          /\ UpdateRow(t, s, new) /\ new.present = newest[s].present
          /\ new.cur = IF WriteVersion(t) THEN newest[s].cur + 1 ELSE newest[s].cur
    <2>1. CASE WriteMetadata(t)
      BY <1>0, <1>s, <2>1 DEF WriteMetadata, WriteVersion
    <2>2. CASE SoftDelete(t) \/ Undelete(t)
      <3>1. PICK n \in Nat : UpdateRow(t, s, [newest[s] EXCEPT !.delAt = n])
        BY <1>0, <1>s, <2>2 DEF SoftDelete, Undelete
      <3>2. ~WriteVersion(t)
        BY <2>2 DEF SoftDelete, Undelete, WriteVersion
      <3>3. LET new == [newest[s] EXCEPT !.delAt = n] IN
              new \in SecretRow /\ new.present = newest[s].present /\ new.cur = newest[s].cur
        BY <1>0 DEF SecretRow
      <3> QED BY <3>1, <3>2, <3>3
    <2>3. CASE WriteVersion(t)
      <3>1. UpdateRow(t, s, [newest[s] EXCEPT !.cur = tx[t].seen[s] + 1])
        BY <1>s, <2>3 DEF WriteVersion
      <3>2. LET new == [newest[s] EXCEPT !.cur = tx[t].seen[s] + 1] IN
              new \in SecretRow /\ new.present = newest[s].present /\ new.cur = newest[s].cur + 1
        BY <1>0, <1>1 DEF SecretRow, Mine
      <3> QED BY <2>3, <3>1, <3>2
    <2> QED BY <2>1, <2>2, <2>3
  <1>4. rowLock[s] = t
    BY <1>1 DEF Mine
  <1>5. /\ Shared'
        /\ newest' = [newest EXCEPT ![s] = new]
        /\ \A r \in Slots : rowLock[r] \notin {NoTxn, t} => newest'[r] = newest[r]
        /\ \A e \in Envs : envLock[e] \notin {NoTxn, t} => envLock'[e] = envLock[e] /\ newestEnv'[e] = newestEnv[e]
        /\ \A e \in Envs : Bumped(t, e) => Bumped(t, e)'
        /\ Bumps(newest[s], new) => Bumped(t, s[1])'
    BY <1>s, <1>0, <1>2, <1>3, <1>4, UpdateEffect
  <1>6. Respects(t)
    <2>1. \A u \in Txns \ {t} : pc'[u] = pc[u] /\ tx'[u] = tx[u]
      BY <1>0 DEF WriteMetadata, SoftDelete, Undelete, WriteVersion, Goto
    <2> QED BY <1>2, <1>5, <2>1 DEF Respects, committed
  <1>7. ASSUME NEW r \in Slots, rowLock'[r] = t
        PROVE  Quiet(t, r)'
    <2>0. rowLock[r] = t /\ r[1] \in Envs /\ newestVersions' = newestVersions /\ secrets' = secrets
      BY <1>2, <1>7 DEF committed, Slots
    <2>1. CASE r # s
      <3>1. Quiet(t, r)
        BY <1>s, <1>0, <2>0, <2>1 DEF Local, OwnedWhole, Dirty, Writing, Quiet, Whole, WriteMetadata, SoftDelete, Undelete, WriteVersion
      <3>2. newest'[r] = newest[r]
        BY <1>s, <1>0, <1>5, <2>1
      <3> QED BY <1>5, <2>0, <3>1, <3>2 DEF Quiet, Whole, Same
    <2>2. CASE r = s /\ ~WriteVersion(t)
      <3>1. Quiet(t, s)
        BY <1>s, <1>0, <1>4, <2>2 DEF Local, OwnedWhole, Dirty, Writing, Quiet, Whole, WriteMetadata, SoftDelete, Undelete, WriteVersion
      <3>2. newest'[s] = new
        BY <1>s, <1>0, <1>5
      <3>3. Whole(newest[s], newestVersions[s])'
        BY <1>3, <2>0, <2>2, <3>1, <3>2 DEF Quiet, Whole
      <3>4. Same(s)' \/ Bumped(t, s[1])'
        <4>1. CASE Bumps(newest[s], new)
          BY <4>1, <1>5
        <4>2. CASE ~Bumps(newest[s], new)
          BY <4>2, <1>0, <1>3, <1>5, <2>0, <3>1, <3>2 DEF Bumps, Quiet, Same
        <4> QED BY <4>1, <4>2
      <3> QED BY <2>2, <3>3, <3>4 DEF Quiet
    <2>3. CASE r = s /\ WriteVersion(t)
      <3>1. /\ DOMAIN newestVersions[s] = 1 .. (newest[s].cur + 1) /\ newest[s].present /\ newest[s].cur \in Nat
        BY <1>s, <1>0, <1>4, <2>3 DEF Local, OwnedWhole, WriteVersion, Live, SecretRow
      <3>2. newest'[s] = new /\ new.cur = newest[s].cur + 1
        BY <1>s, <1>0, <1>3, <1>5, <2>3
      <3>3. Bumps(newest[s], new)
        BY <3>1, <3>2 DEF Bumps
      <3>4. Whole(newest[s], newestVersions[s])'
        <4>1. new.present = TRUE
          BY <1>0, <1>3, <3>1 DEF SecretRow
        <4>2. newest'[s].present /\ newest'[s].cur = newest[s].cur + 1 /\ newest'[s].cur # 0
          BY <4>1, <3>1, <3>2
        <4> QED BY <2>0, <3>1, <4>2 DEF Whole
      <3> QED BY <1>5, <2>3, <3>3, <3>4 DEF Quiet
    <2> QED BY <2>1, <2>2, <2>3
  <1>8. pc'[t] \in {"commit", "encrypt", "item"}
    BY <1>0 DEF WriteMetadata, SoftDelete, Undelete, WriteVersion, Goto
  <1>9. \A r \in Slots : rowLock'[r] = t => OwnedWhole(t, r)' /\ Dirty(t, r)'
    BY <1>7, <1>8, QuietAfter
  <1>10. ItemHeld(t)' /\ SeenHeld(t)' /\ Starts(t)' /\ Expects(t)' /\ CascadeScoped(t)'
    <2> USE DEF ItemHeld, SeenHeld, Starts, Expects, CascadeScoped, Looping, Mine
    <2>1. CASE WriteMetadata(t) \/ SoftDelete(t)
      <3>1. pc'[t] = "commit"
        BY <1>s, <1>0, <2>1 DEF WriteMetadata, SoftDelete, Goto
      <3> QED BY <3>1
    <2>2. CASE Undelete(t)
      <3>1. pc[t] = "undelete" /\ pc'[t] = "encrypt" /\ tx' = tx /\ rowLock' = rowLock /\ ~WriteVersion(t)
        BY <1>s, <1>0, <2>2 DEF Undelete, Goto, WriteVersion
      <3>2. \A r \in Slots : newest'[r].cur = newest[r].cur
        BY <1>s, <1>0, <1>3, <1>5, <3>1
      <3> QED BY <1>s, <1>0, <3>1, <3>2 DEF Local
    <2>3. CASE WriteVersion(t)
      <3>1. /\ pc[t] = "write" /\ pc'[t] \in {"commit", "item"} /\ rowLock' = rowLock
            /\ tx' = [tx EXCEPT ![t].todo = tx[t].todo \ {s}]
            /\ pc'[t] = "item" => tx[t].todo \ {s} # {}
        BY <1>s, <1>0, <2>3 DEF WriteVersion, Goto
      <3>2. tx'[t].todo = tx[t].todo \ {s} /\ tx'[t].seen = tx[t].seen /\ tx'[t].expect = tx[t].expect
        BY <1>s, <1>0, <3>1 DEF Locals
      <3>3. \A r \in Slots : r # s => newest'[r] = newest[r]
        BY <1>s, <1>0, <1>5
      <3> QED BY <1>s, <1>0, <3>1, <3>2, <3>3 DEF Local
    <2> QED BY <2>1, <2>2, <2>3
  <1> QED BY <1>5, <1>6, <1>9, <1>10 DEF StepOf, Local

\* INSERT of a new row: no other reader sees it, and #writeVersion follows.
LEMMA InsertStep == ASSUME SystemInv, NEW t \in Txns, Insert(t) PROVE StepOf(t)
  <1>s. PICK s \in Slots : s = tx[t].item
    BY DEF SystemInv, TypeOK, LocalsOK, Locals
  <1>0. /\ TypeOK /\ Shared /\ Local(t) /\ tx[t] \in Locals /\ tx[t].todo \subseteq Slots /\ t # NoTxn
        /\ pc \in [Txns -> Labels] /\ tx \in [Txns -> Locals] /\ rowLock \in [Slots -> Owners]
        /\ newest \in [Slots -> SecretRow] /\ newest[s] \in SecretRow
    BY NoTxnAssumption DEF SystemInv, TypeOK, LocalsOK, RowsOK, LocksOK, Locals
  <1>1. /\ pc[t] = "insert" /\ pc'[t] = "encrypt" /\ CanLockRow(t, s) /\ ~View(t, s).present
        /\ rowLock' = [rowLock EXCEPT ![s] = t]
        /\ newest' = [newest EXCEPT ![s] = [Absent EXCEPT !.present = TRUE]]
        /\ tx' = [tx EXCEPT ![t].seen[s] = 0]
        /\ UNCHANGED <<committed, newestVersions, newestEnv, envLock, readVars>>
    BY <1>s, <1>0 DEF Insert, Goto
  <1>2. newest'[s].present /\ newest'[s].cur = 0 /\ \A r \in Slots : r # s => newest'[r] = newest[r] /\ rowLock'[r] = rowLock[r]
    BY <1>0, <1>1 DEF Absent
  <1>3. /\ tx'[t].seen = [tx[t].seen EXCEPT ![s] = 0] /\ tx'[t].item = s /\ tx'[t].todo = tx[t].todo
        /\ tx'[t].expect = tx[t].expect /\ tx[t].seen \in [Slots -> Nat]
    BY <1>0, <1>s, <1>1 DEF Locals
  <1>4. Respects(t)
    <2>1. \A u \in Txns \ {t} : pc'[u] = pc[u] /\ tx'[u] = tx[u]
      BY <1>0 DEF Insert, Goto
    <2> QED BY <1>0, <1>1, <1>2, <2>1 DEF Respects, CanLockRow, committed
  <1>5. Shared'
    <2>1. RowsGuarded'
      BY <1>0, <1>1, <1>2 DEF Shared, RowsGuarded, committed
    <2>2. EnvsGuarded' /\ VersionsKept' /\ CommittedWhole' /\ ExpectationsMet' /\ ReadersBehind'
      BY <1>0, <1>1 DEF Shared, EnvsGuarded, VersionsKept, CommittedWhole, Whole, ExpectationsMet, Follows, ReadersBehind,
                        committed, readVars
    <2>3. EtagSound'
      BY <1>0, <1>1 DEF Shared, EtagSound, Body, Live, committed, readVars
    <2> QED BY <2>1, <2>2, <2>3 DEF Shared
  <1>6. ASSUME NEW r \in Slots, rowLock'[r] = t
        PROVE  OwnedWhole(t, r)' /\ Dirty(t, r)'
    <2>1. CASE r = s
      <3>1. Quiet(t, s)
        BY <1>1, QuietBefore
      <3>2. newest[s].cur = 0
        <4>1. View(t, s) = newest[s]
          BY <1>0, <1>1 DEF View, CanLockRow, Shared, RowsGuarded
        <4> QED BY <1>1, <3>1, <4>1 DEF Quiet, Whole
      <3>3. DOMAIN newestVersions'[s] = 1 .. 0
        BY <1>1, <3>1, <3>2 DEF Quiet, Whole
      <3>4. Writing(t, s)'
        BY <1>1, <1>3 DEF Writing
      <3> QED BY <1>1, <1>2, <2>1, <3>3, <3>4 DEF OwnedWhole, Dirty
    <2>2. CASE r # s
      <3>1. Quiet(t, r)
        BY <1>1, <1>2, <1>6, <2>2, QuietBefore DEF CanLockRow
      <3>2. Quiet(t, r)'
        BY <1>1, <1>2, <2>2, <3>1 DEF Quiet, Whole, Same, Bumped, committed
      <3> QED BY <1>1, <3>2, QuietAfter
    <2> QED BY <2>1, <2>2
  <1>7. ItemHeld(t)' /\ SeenHeld(t)' /\ Starts(t)' /\ Expects(t)' /\ CascadeScoped(t)'
    BY <1>0, <1>1, <1>2, <1>3 DEF Local, ItemHeld, SeenHeld, Starts, Expects, CascadeScoped, Looping, Mine
  <1> QED BY <1>4, <1>5, <1>6, <1>7 DEF StepOf, Local

\* INSERT of the next version: one on top of the row's current version.
LEMMA EncryptStep == ASSUME SystemInv, NEW t \in Txns, Encrypt(t) PROVE StepOf(t)
  <1>s. PICK s \in Slots : s = tx[t].item
    BY DEF SystemInv, TypeOK, LocalsOK, Locals
  <1>v. PICK v \in Nat : v = tx[t].seen[s] + 1
    BY <1>s DEF SystemInv, TypeOK, LocalsOK, Locals
  <1>0. /\ TypeOK /\ Shared /\ Local(t) /\ tx[t] \in Locals /\ tx[t].seen[s] \in Nat /\ tx[t].todo \subseteq Slots /\ t # NoTxn
        /\ pc \in [Txns -> Labels] /\ tx \in [Txns -> Locals] /\ newest[s] \in SecretRow
        /\ DOMAIN newestVersions = Slots
    BY NoTxnAssumption DEF SystemInv, TypeOK, LocalsOK, RowsOK, HistoriesOK, Locals
  <1>1. PICK row :
          /\ row.exp = tx[t].expect
          /\ newestVersions' = [newestVersions EXCEPT ![s] = InsertVersion(newestVersions[s], v, row)]
    <2> DEFINE row == Seal(Plaintext(t), ActiveVersion(EnsureActive(newestDeks)), s, v, tx[t].expect)
    <2>1. row.exp = tx[t].expect
      BY DEF Seal
    <2>2. newestVersions' = [newestVersions EXCEPT ![s] = InsertVersion(newestVersions[s], v, row)]
      BY <1>s, <1>v DEF Encrypt
    <2> HIDE DEF row
    <2> QED BY <2>1, <2>2
  <1>2. /\ pc[t] = "encrypt" /\ pc'[t] = "write" /\ tx' = tx /\ v \notin DOMAIN newestVersions[s]
        /\ UNCHANGED <<committed, newest, newestEnv, rowLock, envLock, readVars>>
    BY <1>s, <1>v, <1>0 DEF Encrypt, Goto
  <1>3. rowLock[s] = t /\ newest[s].cur = tx[t].seen[s] /\ OwnedWhole(t, s)
    BY <1>0, <1>s, <1>2 DEF Local, ItemHeld, Mine
  <1>4. /\ DOMAIN newestVersions'[s] = DOMAIN newestVersions[s] \cup {v}
        /\ newestVersions'[s][v] = row
        /\ \A i \in DOMAIN newestVersions[s] : newestVersions'[s][i] = newestVersions[s][i]
        /\ \A r \in Slots : r # s => newestVersions'[r] = newestVersions[r]
    BY <1>0, <1>1, <1>2 DEF InsertVersion
  <1>5. Respects(t)
    <2>1. \A u \in Txns \ {t} : pc'[u] = pc[u] /\ tx'[u] = tx[u]
      BY <1>0 DEF Encrypt, Goto
    <2>2. \A r \in Slots : rowLock[r] \notin {NoTxn, t} => newestVersions'[r] = newestVersions[r]
      BY <1>3, <1>4
    <2> QED BY <1>2, <2>1, <2>2 DEF Respects, committed
  <1>6. Shared'
    <2>1. RowsGuarded'
      BY <1>0, <1>2, <1>3, <1>4 DEF Shared, RowsGuarded, committed
    <2>2. VersionsKept'
      BY <1>0, <1>2, <1>4 DEF Shared, VersionsKept, committed
    <2>3. ExpectationsMet'
      <3>1. row.exp \in {0, v - 1}
        BY <1>0, <1>s, <1>v, <1>1, <1>2 DEF Local, Expects
      <3>2. Follows(newestVersions[s])'
        BY <1>0, <1>4, <3>1 DEF Shared, ExpectationsMet, Follows
      <3> QED BY <1>0, <1>2, <1>4, <3>2 DEF Shared, ExpectationsMet, Follows, committed
    <2>4. EnvsGuarded' /\ CommittedWhole' /\ ReadersBehind'
      BY <1>0, <1>2 DEF Shared, EnvsGuarded, CommittedWhole, Whole, ReadersBehind, committed, readVars
    <2>5. EtagSound'
      BY <1>0, <1>2 DEF Shared, EtagSound, Body, Live, committed, readVars
    <2> QED BY <2>1, <2>2, <2>3, <2>4, <2>5 DEF Shared
  <1>7. ASSUME NEW r \in Slots, rowLock'[r] = t
        PROVE  OwnedWhole(t, r)' /\ Dirty(t, r)'
    <2>1. CASE r = s
      <3>1. newest[s].cur \in Nat /\ DOMAIN newestVersions[s] = 1 .. newest[s].cur
        BY <1>0, <1>2, <1>3 DEF OwnedWhole, SecretRow
      <3>2. DOMAIN newestVersions'[s] = 1 .. (newest[s].cur + 1)
        BY <1>v, <1>3, <1>4, <3>1
      <3>3. Writing(t, s)' /\ Writing(t, s)
        BY <1>s, <1>2 DEF Writing
      <3> QED BY <1>s, <1>2, <1>3, <2>1, <3>2, <3>3 DEF OwnedWhole, Dirty
    <2>2. CASE r # s
      BY <1>0, <1>s, <1>2, <1>4, <1>7, <2>2 DEF Local, OwnedWhole, Dirty, Writing, Same, Bumped, committed
    <2> QED BY <2>1, <2>2
  <1>8. ItemHeld(t)' /\ SeenHeld(t)' /\ Starts(t)' /\ Expects(t)' /\ CascadeScoped(t)'
    BY <1>0, <1>2 DEF Local, ItemHeld, SeenHeld, Starts, Expects, CascadeScoped, Looping, Mine
  <1> QED BY <1>5, <1>6, <1>7, <1>8 DEF StepOf, Local

\* UPDATE environments of delete and restore, and the rotation of the data key,
\* which no row depends on.
LEMMA MarkStep == ASSUME SystemInv, NEW t \in Txns, EnvMark(t) \/ (Rotate(t) /\ UNCHANGED readVars) PROVE StepOf(t)
  <1>e. PICK e \in Envs : e = tx[t].env
    BY DEF SystemInv, TypeOK, LocalsOK, Locals
  <1>0. /\ TypeOK /\ Shared /\ Local(t) /\ t # NoTxn /\ pc \in [Txns -> Labels] /\ tx \in [Txns -> Locals]
        /\ newestEnv \in [Envs -> EnvRow] /\ envLock \in [Envs -> Owners]
    BY NoTxnAssumption DEF SystemInv, TypeOK, LocalsOK, EnvsOK, LocksOK
  <1>1. /\ pc[t] \in {"envMark", "rotate"} /\ pc'[t] \in {"cascadeSnap", "commit"} /\ tx' = tx
        /\ UNCHANGED <<committed, newest, newestVersions, rowLock, readVars>>
        /\ \/ UNCHANGED <<envLock, newestEnv>>
           \/ /\ CanLockEnv(t, e) /\ envLock' = [envLock EXCEPT ![e] = t]
              /\ \E n : newestEnv' = [newestEnv EXCEPT ![e].delAt = n]
    BY <1>e, <1>0 DEF EnvMark, Rotate, Goto, committed
  <1>2. \A x \in Envs :
          /\ envLock[x] \notin {NoTxn, t} => envLock'[x] = envLock[x] /\ newestEnv'[x] = newestEnv[x]
          /\ envLock'[x] = NoTxn => envLock[x] = NoTxn /\ newestEnv'[x] = newestEnv[x]
          /\ envLock[x] = t => envLock'[x] = t
          /\ newestEnv'[x].ver = newestEnv[x].ver
    BY <1>0, <1>1 DEF CanLockEnv, EnvRow
  <1>3. Respects(t)
    <2>1. \A u \in Txns \ {t} : pc'[u] = pc[u]
      BY <1>0 DEF EnvMark, Rotate, Goto
    <2> QED BY <1>1, <1>2, <2>1 DEF Respects, committed
  <1>4. Shared'
    <2>1. EnvsGuarded'
      BY <1>0, <1>1, <1>2 DEF Shared, EnvsGuarded, committed
    <2>2. RowsGuarded' /\ VersionsKept' /\ CommittedWhole' /\ ExpectationsMet' /\ ReadersBehind'
      BY <1>0, <1>1 DEF Shared, RowsGuarded, VersionsKept, CommittedWhole, Whole, ExpectationsMet, Follows, ReadersBehind,
                        committed, readVars
    <2>3. EtagSound'
      BY <1>0, <1>1 DEF Shared, EtagSound, Body, Live, committed, readVars
    <2> QED BY <2>1, <2>2, <2>3 DEF Shared
  <1>5. ASSUME NEW r \in Slots, rowLock'[r] = t
        PROVE  OwnedWhole(t, r)' /\ Dirty(t, r)'
    <2>1. Quiet(t, r) /\ r[1] \in Envs
      BY <1>1, <1>5, QuietBefore DEF CanLockRow, Slots
    <2>2. Quiet(t, r)'
      BY <1>1, <1>2, <2>1 DEF Quiet, Whole, Same, Bumped, committed
    <2> QED BY <1>1, <2>2, QuietAfter
  <1>6. ItemHeld(t)' /\ SeenHeld(t)' /\ Starts(t)' /\ Expects(t)' /\ CascadeScoped(t)'
    BY <1>1 DEF ItemHeld, SeenHeld, Starts, Expects, CascadeScoped, Looping
  <1> QED BY <1>3, <1>4, <1>5, <1>6 DEF StepOf, Local

\* One row of the cascade: a row that is hit counts, so its bump is still to come.
LEMMA CascadeStep == ASSUME SystemInv, NEW t \in Txns, Cascade(t) PROVE StepOf(t)
  <1>0. /\ TypeOK /\ Shared /\ Local(t) /\ tx[t] \in Locals /\ tx[t].queue \subseteq Slots /\ tx[t].count \in Nat /\ t # NoTxn
        /\ pc \in [Txns -> Labels] /\ tx \in [Txns -> Locals] /\ rowLock \in [Slots -> Owners]
        /\ newest \in [Slots -> SecretRow]
    BY NoTxnAssumption DEF SystemInv, TypeOK, LocalsOK, RowsOK, LocksOK, Locals
  <1>1. PICK s \in tx[t].queue, hit \in BOOLEAN, stamp \in Nat :
          /\ pc[t] = "cascade" /\ CanLockRow(t, s) /\ rowLock' = [rowLock EXCEPT ![s] = t]
          /\ newest' = IF hit THEN [newest EXCEPT ![s] = [newest[s] EXCEPT !.delAt = stamp, !.byEnv = stamp]] ELSE newest
          /\ tx' = [tx EXCEPT ![t] = [tx[t] EXCEPT !.queue = tx[t].queue \ {s},
                                       !.count = IF hit THEN tx[t].count + 1 ELSE tx[t].count]]
          /\ Goto(t, IF tx[t].queue = {s} THEN "cascadeEnd" ELSE "cascade")
          /\ UNCHANGED <<committed, newestVersions, newestEnv, envLock, readVars>>
    <2>1. PICK s \in tx[t].queue :
            LET stamp == IF tx[t].op = "envDelete" THEN tx[t].n ELSE 0
                hit   == Cascades(t, View(t, s)) IN
            /\ pc[t] = "cascade" /\ CanLockRow(t, s) /\ rowLock' = [rowLock EXCEPT ![s] = t]
            /\ newest' = IF hit THEN [newest EXCEPT ![s] = [newest[s] EXCEPT !.delAt = stamp, !.byEnv = stamp]] ELSE newest
            /\ tx' = [tx EXCEPT ![t] = [tx[t] EXCEPT !.queue = tx[t].queue \ {s},
                                         !.count = IF hit THEN tx[t].count + 1 ELSE tx[t].count]]
            /\ Goto(t, IF tx[t].queue = {s} THEN "cascadeEnd" ELSE "cascade")
            /\ UNCHANGED <<committed, newestVersions, newestEnv, envLock, readVars>>
      BY DEF Cascade
    <2>2. (IF tx[t].op = "envDelete" THEN tx[t].n ELSE 0) \in Nat
      BY <1>0 DEF Locals
    <2>3. CASE Cascades(t, View(t, s))
      BY <2>1, <2>2, <2>3
    <2>4. CASE ~Cascades(t, View(t, s))
      BY <2>1, <2>2, <2>4
    <2> QED BY <2>3, <2>4
  <1>2. /\ s \in Slots /\ s[1] = tx[t].env /\ pc'[t] \in {"cascade", "cascadeEnd"}
        /\ tx'[t].queue = tx[t].queue \ {s} /\ tx'[t].env = tx[t].env
        /\ tx'[t].count = IF hit THEN tx[t].count + 1 ELSE tx[t].count
    <2>1. s \in {tx[t].env} \X Keys
      BY <1>0, <1>1 DEF Local, CascadeScoped
    <2>2. s \in Slots /\ s[1] = tx[t].env
      BY <1>0, <1>1, <2>1
    <2>3. tx'[t] = [tx[t] EXCEPT !.queue = tx[t].queue \ {s}, !.count = IF hit THEN tx[t].count + 1 ELSE tx[t].count]
      BY <1>0, <1>1
    <2>4. pc'[t] \in {"cascade", "cascadeEnd"}
      BY <1>0, <1>1 DEF Goto
    <2> QED BY <1>0, <2>2, <2>3, <2>4 DEF Locals
  <1>3. /\ \A r \in Slots : r # s => newest'[r] = newest[r] /\ rowLock'[r] = rowLock[r]
        /\ newest'[s].cur = newest[s].cur /\ newest'[s].present = newest[s].present
        /\ ~hit => newest' = newest
        /\ rowLock'[s] = t
    BY <1>0, <1>1, <1>2 DEF SecretRow
  <1>4. Respects(t)
    <2>1. \A u \in Txns \ {t} : pc'[u] = pc[u] /\ tx'[u] = tx[u]
      BY <1>0, <1>1 DEF Goto
    <2> QED BY <1>0, <1>1, <1>2, <1>3, <2>1 DEF Respects, CanLockRow, committed
  <1>5. Shared'
    <2>1. RowsGuarded'
      BY <1>0, <1>1, <1>2, <1>3 DEF Shared, RowsGuarded, committed
    <2>2. EnvsGuarded' /\ VersionsKept' /\ CommittedWhole' /\ ExpectationsMet' /\ ReadersBehind'
      BY <1>0, <1>1 DEF Shared, EnvsGuarded, VersionsKept, CommittedWhole, Whole, ExpectationsMet, Follows, ReadersBehind,
                        committed, readVars
    <2>3. EtagSound'
      BY <1>0, <1>1 DEF Shared, EtagSound, Body, Live, committed, readVars
    <2> QED BY <2>1, <2>2, <2>3 DEF Shared
  <1>6. ASSUME NEW r \in Slots, rowLock'[r] = t
        PROVE  OwnedWhole(t, r)' /\ Dirty(t, r)'
    <2>1. Whole(newest[r], newestVersions[r]) /\ (Same(r) \/ Bumped(t, r[1]) \/ (tx[t].count # 0 /\ tx[t].env = r[1]))
      <3>1. CASE rowLock[r] = t
        BY <1>0, <1>1, <3>1 DEF Local, OwnedWhole, Dirty, Writing, Whole
      <3>2. CASE rowLock[r] = NoTxn
        BY <1>0, <3>2 DEF Shared, RowsGuarded, CommittedWhole, Same
      <3> QED BY <1>1, <1>3, <1>6, <3>1, <3>2 DEF CanLockRow
    <2>2. OwnedWhole(t, r)'
      BY <1>1, <1>2, <1>3, <2>1 DEF OwnedWhole, Whole
    <2>3. Dirty(t, r)'
      <3>1. CASE r = s /\ hit
        BY <1>0, <1>2, <3>1 DEF Dirty
      <3>2. CASE ~(r = s /\ hit)
        <4>1. newest'[r] = newest[r]
          BY <1>3, <3>2
        <4>2. tx[t].count # 0 => tx'[t].count # 0
          BY <1>0, <1>2
        <4> QED BY <1>1, <1>2, <2>1, <4>1, <4>2 DEF Dirty, Same, Bumped, committed
      <3> QED BY <3>1, <3>2
    <2> QED BY <2>2, <2>3
  <1>7. ItemHeld(t)' /\ SeenHeld(t)' /\ Starts(t)' /\ Expects(t)' /\ CascadeScoped(t)'
    BY <1>0, <1>1, <1>2 DEF Local, ItemHeld, SeenHeld, Starts, Expects, CascadeScoped, Looping, Mine
  <1> QED BY <1>4, <1>5, <1>6, <1>7 DEF StepOf, Local

\* The end of the cascade: every counted row is bumped at once.
LEMMA CascadeEndStep == ASSUME SystemInv, NEW t \in Txns, CascadeEnd(t) PROVE StepOf(t)
  <1>e. PICK e \in Envs : e = tx[t].env
    BY DEF SystemInv, TypeOK, LocalsOK, Locals
  <1>0. /\ TypeOK /\ Shared /\ Local(t) /\ t # NoTxn /\ pc \in [Txns -> Labels] /\ tx \in [Txns -> Locals]
        /\ newestEnv \in [Envs -> EnvRow] /\ envs \in [Envs -> EnvRow] /\ envLock \in [Envs -> Owners] /\ tx[t].count \in Nat
    BY NoTxnAssumption DEF SystemInv, TypeOK, LocalsOK, EnvsOK, LocksOK, Locals
  <1>1. /\ pc[t] = "cascadeEnd" /\ pc'[t] \in {"commit", "envReload"} /\ tx' = tx
        /\ UNCHANGED <<committed, newest, newestVersions, rowLock, readVars>>
        /\ \/ UNCHANGED <<envLock, newestEnv>> /\ tx[t].count = 0
           \/ /\ CanLockEnv(t, e) /\ envLock' = [envLock EXCEPT ![e] = t] /\ tx[t].count # 0
              /\ newestEnv' = [newestEnv EXCEPT ![e].ver = newestEnv[e].ver + tx[t].count]
    BY <1>e, <1>0 DEF CascadeEnd, Goto, committed
  <1>2. \A x \in Envs :
          /\ envLock[x] \notin {NoTxn, t} => envLock'[x] = envLock[x] /\ newestEnv'[x] = newestEnv[x]
          /\ envLock'[x] = NoTxn => envLock[x] = NoTxn /\ newestEnv'[x] = newestEnv[x]
          /\ envLock[x] = t => envLock'[x] = t
          /\ newestEnv'[x].ver \in Nat /\ newestEnv[x].ver \in Nat /\ envs[x].ver \in Nat
          /\ newestEnv'[x].ver >= newestEnv[x].ver
    BY <1>0, <1>1 DEF CanLockEnv, EnvRow
  <1>3. Respects(t)
    <2>1. \A u \in Txns \ {t} : pc'[u] = pc[u]
      BY <1>0 DEF CascadeEnd, Goto
    <2> QED BY <1>1, <1>2, <2>1 DEF Respects, committed
  <1>4. Shared'
    <2>1. EnvsGuarded'
      BY <1>0, <1>1, <1>2 DEF Shared, EnvsGuarded, committed
    <2>2. RowsGuarded' /\ VersionsKept' /\ CommittedWhole' /\ ExpectationsMet' /\ ReadersBehind'
      BY <1>0, <1>1 DEF Shared, RowsGuarded, VersionsKept, CommittedWhole, Whole, ExpectationsMet, Follows, ReadersBehind,
                        committed, readVars
    <2>3. EtagSound'
      BY <1>0, <1>1 DEF Shared, EtagSound, Body, Live, committed, readVars
    <2> QED BY <2>1, <2>2, <2>3 DEF Shared
  <1>5. ASSUME NEW r \in Slots, rowLock'[r] = t
        PROVE  OwnedWhole(t, r)' /\ Dirty(t, r)'
    <2>1. /\ Whole(newest[r], newestVersions[r]) /\ r[1] \in Envs
          /\ Same(r) \/ Bumped(t, r[1]) \/ (tx[t].count # 0 /\ e = r[1])
      BY <1>0, <1>e, <1>1, <1>5 DEF Local, OwnedWhole, Dirty, Writing, Whole, Slots
    <2>2. Same(r)' \/ Bumped(t, r[1])'
      <3>1. CASE Same(r)
        BY <1>1, <3>1 DEF Same, committed
      <3>2. CASE Bumped(t, r[1])
        BY <1>1, <1>2, <2>1, <3>2 DEF Bumped, committed
      <3>3. CASE tx[t].count # 0 /\ e = r[1]
        <4>1. envLock'[e] = t /\ newestEnv'[e].ver = newestEnv[e].ver + tx[t].count
          BY <1>0, <1>1, <3>3 DEF EnvRow
        <4>2. newestEnv[e].ver >= envs[e].ver
          BY <1>0 DEF Shared, EnvsGuarded
        <4>3. newestEnv[e].ver \in Nat /\ envs[e].ver \in Nat /\ tx[t].count \in Nat /\ tx[t].count # 0
          BY <1>0, <1>2, <3>3
        <4>4. newestEnv'[e].ver > envs[e].ver
          BY <4>1, <4>2, <4>3
        <4> QED BY <1>1, <3>3, <4>1, <4>4 DEF Bumped, committed
      <3> QED BY <2>1, <3>1, <3>2, <3>3
    <2>3. Quiet(t, r)'
      BY <1>1, <2>1, <2>2 DEF Quiet, Whole
    <2> QED BY <1>1, <2>3, QuietAfter
  <1>6. ItemHeld(t)' /\ SeenHeld(t)' /\ Starts(t)' /\ Expects(t)' /\ CascadeScoped(t)'
    BY <1>1 DEF ItemHeld, SeenHeld, Starts, Expects, CascadeScoped, Looping
  <1> QED BY <1>3, <1>4, <1>5, <1>6 DEF StepOf, Local

-----------------------------------------------------------------------------
(* The end of a transaction. *)

\* A transaction that has ended owns nothing and relies on nothing.
LEMMA EndLocal ==
  ASSUME SystemInv, NEW t \in Txns, Release(t)
  PROVE  /\ Local(t)'
         /\ \A u \in Txns \ {t} : pc'[u] = pc[u] /\ tx'[u] = tx[u]
         /\ \A s \in Slots : rowLock'[s] = IF rowLock[s] = t THEN NoTxn ELSE rowLock[s]
         /\ \A e \in Envs : envLock'[e] = IF envLock[e] = t THEN NoTxn ELSE envLock[e]
  <1>1. pc \in [Txns -> Labels] /\ tx \in [Txns -> Locals] /\ t # NoTxn
    BY NoTxnAssumption DEF SystemInv, TypeOK, LocalsOK
  <1>2. pc'[t] = "idle" /\ \A u \in Txns \ {t} : pc'[u] = pc[u] /\ tx'[u] = tx[u]
    BY <1>1 DEF Release, Goto
  <1>3. /\ \A s \in Slots : rowLock'[s] = IF rowLock[s] = t THEN NoTxn ELSE rowLock[s]
        /\ \A e \in Envs : envLock'[e] = IF envLock[e] = t THEN NoTxn ELSE envLock[e]
    BY DEF Release
  <1>4. \A s \in Slots : rowLock'[s] # t
    BY <1>1, <1>3
  <1>5. ItemHeld(t)' /\ SeenHeld(t)' /\ Starts(t)' /\ Expects(t)' /\ CascadeScoped(t)'
    BY <1>2 DEF ItemHeld, SeenHeld, Starts, Expects, CascadeScoped, Looping
  <1> QED BY <1>2, <1>3, <1>4, <1>5 DEF Local

\* What COMMIT does to the committed tables.
LEMMA CommitTables ==
  ASSUME SystemInv, NEW t \in Txns, Commit(t)
  PROVE  /\ \A s \in Slots : Whole(secrets'[s], versions'[s])
         /\ \A s \in Slots : \A v \in DOMAIN versions[s] : v \in DOMAIN versions'[s] /\ versions'[s][v] = versions[s][v]
         /\ \A e \in Envs : envs'[e].ver >= envs[e].ver
         /\ \A s \in Slots : envs'[s[1]].ver = envs[s[1]].ver =>
              /\ secrets'[s].present = secrets[s].present
              /\ secrets'[s].cur = secrets[s].cur
              /\ secrets'[s].delAt = secrets[s].delAt
  <1>0. Shared /\ Local(t) /\ envs \in [Envs -> EnvRow] /\ newestEnv \in [Envs -> EnvRow] /\ pc[t] = "commit"
    BY DEF SystemInv, TypeOK, EnvsOK, Commit
  <1>1. /\ \A s \in Slots : secrets'[s] = IF rowLock[s] = t THEN newest[s] ELSE secrets[s]
        /\ \A s \in Slots : versions'[s] = IF rowLock[s] = t THEN newestVersions[s] ELSE versions[s]
        /\ \A e \in Envs : envs'[e] = IF envLock[e] = t THEN newestEnv[e] ELSE envs[e]
    BY DEF Commit
  <1>2. \A s \in Slots : rowLock[s] = t => Quiet(t, s)
    BY <1>0, QuietBefore DEF CanLockRow
  <1>3. \A s \in Slots : Whole(secrets'[s], versions'[s])
    BY <1>0, <1>1, <1>2 DEF Quiet, Shared, CommittedWhole
  <1>4. \A s \in Slots : \A v \in DOMAIN versions[s] : v \in DOMAIN versions'[s] /\ versions'[s][v] = versions[s][v]
    BY <1>0, <1>1 DEF Shared, VersionsKept
  <1>5. \A e \in Envs : envs'[e].ver >= envs[e].ver
    BY <1>0, <1>1 DEF Shared, EnvsGuarded, EnvRow
  <1>6. ASSUME NEW s \in Slots, envs'[s[1]].ver = envs[s[1]].ver
        PROVE  /\ secrets'[s].present = secrets[s].present
               /\ secrets'[s].cur = secrets[s].cur
               /\ secrets'[s].delAt = secrets[s].delAt
    <2>1. CASE rowLock[s] = t
      <3>1. s[1] \in Envs
        BY DEF Slots
      <3>2. envs[s[1]].ver \in Nat /\ newestEnv[s[1]].ver \in Nat
        BY <1>0, <3>1 DEF EnvRow
      <3>3. ~Bumped(t, s[1])
        BY <1>1, <1>6, <3>1, <3>2 DEF Bumped
      <3>4. Same(s)
        BY <1>2, <2>1, <3>3 DEF Quiet
      <3> QED BY <1>1, <2>1, <3>4 DEF Same
    <2>2. CASE rowLock[s] # t
      BY <1>1, <2>2
    <2> QED BY <2>1, <2>2
  <1> QED BY <1>3, <1>4, <1>5, <1>6

\* A commit that leaves an environment's config_version alone leaves the body a
\* full fetch returns alone.
LEMMA CommitBody ==
  ASSUME SystemInv, NEW t \in Txns, Commit(t), NEW e \in Envs, envs'[e].ver = envs[e].ver
  PROVE  Body(e)' = Body(e)
  <1>1. ASSUME NEW k \in Keys
        PROVE  /\ Live(secrets'[<<e, k>>]) <=> Live(secrets[<<e, k>>])
               /\ Live(secrets[<<e, k>>]) =>
                    versions'[<<e, k>>][secrets'[<<e, k>>].cur].val = versions[<<e, k>>][secrets[<<e, k>>].cur].val
    <2> PICK s \in Slots : s = <<e, k>>
      BY DEF Slots
    <2>1. s[1] = e
      OBVIOUS
    <2>2. /\ secrets'[s].present = secrets[s].present /\ secrets'[s].cur = secrets[s].cur
          /\ secrets'[s].delAt = secrets[s].delAt
      BY <2>1, CommitTables
    <2>3. Live(secrets'[s]) <=> Live(secrets[s])
      BY <2>2 DEF Live
    <2>4. ASSUME Live(secrets[s])
          PROVE  secrets[s].cur \in DOMAIN versions[s]
      <3>1. Whole(secrets[s], versions[s]) /\ secrets[s].cur \in Nat
        BY DEF SystemInv, Shared, CommittedWhole, TypeOK, RowsOK, SecretRow
      <3> QED BY <2>4, <3>1 DEF Whole, Live
    <2>5. Live(secrets[s]) => versions'[s][secrets'[s].cur].val = versions[s][secrets[s].cur].val
      BY <2>2, <2>4, CommitTables
    <2> QED BY <2>3, <2>5
  <1>2. {k \in Keys : Live(secrets'[<<e, k>>])} = {k \in Keys : Live(secrets[<<e, k>>])}
    BY <1>1
  <1> DEFINE K == {k \in Keys : Live(secrets[<<e, k>>])}
  <1>3. [k \in K |-> versions'[<<e, k>>][secrets'[<<e, k>>].cur].val] = [k \in K |-> versions[<<e, k>>][secrets[<<e, k>>].cur].val]
    BY <1>1
  <1>4. Body(e) = [k \in K |-> versions[<<e, k>>][secrets[<<e, k>>].cur].val]
    BY DEF Body
  <1>5. Body(e)' = [k \in K |-> versions'[<<e, k>>][secrets'[<<e, k>>].cur].val]
    BY <1>2 DEF Body, Live
  <1> QED BY <1>3, <1>4, <1>5

\* COMMIT.
LEMMA CommitStep == ASSUME SystemInv, NEW t \in Txns, Commit(t), UNCHANGED readVars PROVE StepOf(t)
  <1>0. Shared /\ TypeOK /\ t # NoTxn
    BY NoTxnAssumption DEF SystemInv
  <1>1. /\ \A s \in Slots : secrets'[s] = IF rowLock[s] = t THEN newest[s] ELSE secrets[s]
        /\ \A s \in Slots : versions'[s] = IF rowLock[s] = t THEN newestVersions[s] ELSE versions[s]
        /\ \A e \in Envs : envs'[e] = IF envLock[e] = t THEN newestEnv[e] ELSE envs[e]
        /\ UNCHANGED <<newest, newestVersions, newestEnv>> /\ Release(t)
    BY DEF Commit
  <1>2. /\ Local(t)'
        /\ \A u \in Txns \ {t} : pc'[u] = pc[u] /\ tx'[u] = tx[u]
        /\ \A s \in Slots : rowLock'[s] = IF rowLock[s] = t THEN NoTxn ELSE rowLock[s]
        /\ \A e \in Envs : envLock'[e] = IF envLock[e] = t THEN NoTxn ELSE envLock[e]
    BY <1>1, EndLocal
  <1>3. Respects(t)
    BY <1>1, <1>2 DEF Respects
  <1>4. RowsGuarded' /\ VersionsKept'
    BY <1>0, <1>1, <1>2 DEF Shared, RowsGuarded, VersionsKept
  <1>5. EnvsGuarded'
    <2>1. \A e \in Envs : newestEnv[e].ver \in Nat
      BY <1>0 DEF TypeOK, EnvsOK, EnvRow
    <2> QED BY <1>0, <1>1, <1>2, <2>1 DEF Shared, EnvsGuarded
  <1>6. CommittedWhole'
    BY CommitTables DEF CommittedWhole, Whole
  <1>7. ExpectationsMet'
    BY <1>0, <1>1 DEF Shared, ExpectationsMet, Follows
  <1>8. \A e \in Envs : /\ envs[e].ver \in Nat /\ envs'[e].ver \in Nat /\ poll[e].ver \in Nat /\ cache[e].ver \in Nat
                        /\ envs'[e].ver >= envs[e].ver
    BY <1>0, <1>1, CommitTables DEF TypeOK, EnvsOK, EnvRow, ReadersOK
  <1>9. ReadersBehind'
    BY <1>0, <1>8 DEF Shared, ReadersBehind, readVars
  <1>10. EtagSound'
    <2> SUFFICES ASSUME NEW e \in Envs, cache[e].has, cache[e].ver = envs'[e].ver
                 PROVE  cache[e].body = Body(e)'
      BY DEF EtagSound, readVars
    <2>1. cache[e].ver <= envs[e].ver
      BY <1>0 DEF Shared, ReadersBehind
    <2>2. envs'[e].ver = envs[e].ver
      BY <1>8, <2>1
    <2>3. cache[e].body = Body(e)
      BY <1>0, <2>2 DEF Shared, EtagSound
    <2> QED BY <2>2, <2>3, CommitBody
  <1> QED BY <1>2, <1>3, <1>4, <1>5, <1>6, <1>7, <1>9, <1>10 DEF StepOf, Shared

\* ROLLBACK, whoever asked for it.
LEMMA AbortStep == ASSUME SystemInv, NEW t \in Txns, Abort(t) PROVE StepOf(t)
  <1>0. Shared /\ TypeOK /\ t # NoTxn
    BY NoTxnAssumption DEF SystemInv
  <1>1. /\ \A s \in Slots : newest'[s] = IF rowLock[s] = t THEN secrets[s] ELSE newest[s]
        /\ \A s \in Slots : newestVersions'[s] = IF rowLock[s] = t THEN versions[s] ELSE newestVersions[s]
        /\ \A e \in Envs : newestEnv'[e] = IF envLock[e] = t THEN envs[e] ELSE newestEnv[e]
        /\ UNCHANGED <<committed, readVars>> /\ Release(t)
    BY DEF Abort, Rollback
  <1>2. /\ Local(t)'
        /\ \A u \in Txns \ {t} : pc'[u] = pc[u] /\ tx'[u] = tx[u]
        /\ \A s \in Slots : rowLock'[s] = IF rowLock[s] = t THEN NoTxn ELSE rowLock[s]
        /\ \A e \in Envs : envLock'[e] = IF envLock[e] = t THEN NoTxn ELSE envLock[e]
    BY <1>1, EndLocal
  <1>3. Respects(t)
    BY <1>1, <1>2 DEF Respects, committed
  <1>4. RowsGuarded' /\ VersionsKept'
    BY <1>0, <1>1, <1>2 DEF Shared, RowsGuarded, VersionsKept, committed
  <1>5. EnvsGuarded'
    <2>1. \A e \in Envs : envs[e].ver \in Nat
      BY <1>0 DEF TypeOK, EnvsOK, EnvRow
    <2> QED BY <1>0, <1>1, <1>2, <2>1 DEF Shared, EnvsGuarded, committed
  <1>6. CommittedWhole' /\ ExpectationsMet' /\ ReadersBehind'
    BY <1>0, <1>1 DEF Shared, CommittedWhole, Whole, ExpectationsMet, Follows, ReadersBehind, committed, readVars
  <1>7. EtagSound'
    BY <1>0, <1>1 DEF Shared, EtagSound, Body, Live, committed, readVars
  <1> QED BY <1>2, <1>3, <1>4, <1>5, <1>6, <1>7 DEF StepOf, Shared

\* A consumer's poll: it stores what it read under a version read no later.
LEMMA ReaderStep ==
  ASSUME SystemInv, NEW e \in Envs, RuntimeScope(e) \/ NotModified(e) \/ RuntimeRows(e) \/ RuntimeError(e)
  PROVE  Shared' /\ \A t \in Txns : Local(t)'
  <1>0. /\ Shared /\ UNCHANGED dbVars /\ poll \in [Envs -> [pc : {"idle", "rows"}, ver : Nat]] /\ DOMAIN cache = Envs
        /\ \A x \in Envs : envs[x].ver \in Nat
    BY DEF SystemInv, RuntimeScope, NotModified, RuntimeRows, RuntimeError, TypeOK, ReadersOK, EnvsOK, EnvRow
  <1>1. RowsGuarded' /\ EnvsGuarded' /\ VersionsKept' /\ CommittedWhole' /\ ExpectationsMet'
    BY <1>0 DEF Shared, RowsGuarded, EnvsGuarded, VersionsKept, CommittedWhole, Whole, ExpectationsMet, Follows, dbVars
  <1>2. \A t \in Txns : Local(t)'
    <2>1. ASSUME NEW t \in Txns PROVE Local(t)'
      <3>1. Local(t)
        BY DEF SystemInv
      <3>2. ItemHeld(t)' /\ SeenHeld(t)' /\ Starts(t)' /\ Expects(t)' /\ CascadeScoped(t)'
        BY <1>0, <3>1 DEF Local, ItemHeld, SeenHeld, Starts, Expects, CascadeScoped, Mine, dbVars
      <3>3. \A s \in Slots : rowLock'[s] = t => OwnedWhole(t, s)' /\ Dirty(t, s)'
        BY <1>0, <3>1 DEF Local, OwnedWhole, Dirty, Writing, Same, Bumped, dbVars
      <3> QED BY <3>2, <3>3 DEF Local
    <2> QED BY <2>1
  <1>3. \A x \in Envs : Body(x)' = Body(x)
    BY <1>0 DEF Body, Live, dbVars
  <1>4. ReadersBehind' /\ EtagSound'
    <2>1. CASE RuntimeScope(e)
      BY <1>0, <1>3, <2>1 DEF Shared, ReadersBehind, EtagSound, RuntimeScope, dbVars
    <2>2. CASE NotModified(e)
      BY <1>0, <1>3, <2>2 DEF Shared, ReadersBehind, EtagSound, NotModified, dbVars, readVars
    <2>3. CASE RuntimeRows(e)
      <3>1. /\ cache'[e].ver = poll[e].ver /\ cache'[e].body = Body(e) /\ poll[e].ver <= envs[e].ver
            /\ \A x \in Envs \ {e} : cache'[x] = cache[x] /\ poll'[x] = poll[x]
            /\ poll'[e].pc = "idle" /\ envs' = envs
        BY <1>0, <2>3 DEF Shared, ReadersBehind, RuntimeRows, dbVars
      <3> QED BY <1>0, <1>3, <3>1 DEF Shared, ReadersBehind, EtagSound
    <2>4. CASE RuntimeError(e)
      BY <1>0, <1>3, <2>4 DEF Shared, ReadersBehind, EtagSound, RuntimeError, dbVars
    <2> QED BY <2>1, <2>2, <2>3, <2>4
  <1> QED BY <1>1, <1>2, <1>4 DEF Shared

-----------------------------------------------------------------------------
(* The invariant. *)

\* It holds initially: nothing is locked, and a seeded secret has its first version.
LEMMA InitInv == ASSUME Init PROVE SystemInv
  <1>1. TypeOK
    BY InitType
  <1>2. newest = secrets /\ newestVersions = versions /\ newestEnv = envs
    BY DEF Init, DbInit
  <1>3. ASSUME NEW s \in Slots
        PROVE  Whole(secrets[s], versions[s]) /\ Follows(versions[s])
    <2>1. CASE s \in Seeded
      <3>1. secrets[s] = Fresh /\ versions[s] = [v \in {1} |-> FirstVersion(s)]
        BY <2>1 DEF Init, DbInit
      <3> QED BY <3>1 DEF Whole, Follows, Fresh, FirstVersion
    <2>2. CASE s \notin Seeded
      <3>1. secrets[s] = Absent /\ DOMAIN versions[s] = {}
        BY <2>2 DEF Init, DbInit
      <3> QED BY <3>1 DEF Whole, Follows, Absent
    <2> QED BY <2>1, <2>2
  <1>4. RowsGuarded /\ VersionsKept /\ CommittedWhole /\ ExpectationsMet
    BY <1>2, <1>3 DEF RowsGuarded, VersionsKept, CommittedWhole, ExpectationsMet
  <1>5. EnvsGuarded
    BY <1>1, <1>2 DEF EnvsGuarded, TypeOK, EnvsOK, EnvRow
  <1>6. ReadersBehind /\ EtagSound
    BY DEF Init, ReadInit, ReadersBehind, EtagSound
  <1>7. ASSUME NEW t \in Txns PROVE Local(t)
    <2>1. pc[t] = "idle" /\ \A s \in Slots : rowLock[s] # t
      BY NoTxnAssumption DEF Init, DbInit
    <2> QED BY <2>1 DEF Local, ItemHeld, SeenHeld, Starts, Expects, CascadeScoped, Looping
  <1> QED BY <1>1, <1>4, <1>5, <1>6, <1>7 DEF SystemInv, Shared

\* A step of one transaction is one of the steps above.
LEMMA TransactionStep ==
  ASSUME SystemInv, NEW t \in Txns, Begin(t) \/ Statement(t) \/ Reject(t) \/ Victim(t) \/ Crash(t)
  PROVE  StepOf(t)
  <1>1. CASE Begin(t)
    BY <1>1, BeginStep
  <1>2. CASE Reject(t) \/ Victim(t) \/ Crash(t)
    BY <1>2, AbortStep DEF Reject, Victim, Crash
  <1>3. CASE Statement(t)
    BY <1>3, ReadStep, LockStep, UpdateStep, InsertStep, EncryptStep, MarkStep, CascadeStep, CascadeEndStep, CommitStep
    DEF Statement
  <1> QED BY <1>1, <1>2, <1>3

\* The invariant is inductive.
LEMMA NextInv == ASSUME SystemInv, [Next]_vars PROVE SystemInv'
  <1>1. TypeOK'
    BY NextType DEF SystemInv
  <1>2. CASE UNCHANGED vars
    <2>1. Shared'
      BY <1>2, LockShared DEF SystemInv, vars, dbVars, tables
    <2>2. ASSUME NEW t \in Txns PROVE Local(t)'
      <3>1. Local(t)
        BY DEF SystemInv
      <3>2. ItemHeld(t)' /\ SeenHeld(t)' /\ Starts(t)' /\ Expects(t)' /\ CascadeScoped(t)'
        BY <1>2, <3>1 DEF Local, ItemHeld, SeenHeld, Starts, Expects, CascadeScoped, Mine, vars, dbVars
      <3>3. \A s \in Slots : rowLock'[s] = t => OwnedWhole(t, s)' /\ Dirty(t, s)'
        BY <1>2, <3>1 DEF Local, OwnedWhole, Dirty, Writing, Same, Bumped, vars, dbVars
      <3> QED BY <3>2, <3>3 DEF Local
    <2> QED BY <1>1, <2>1, <2>2 DEF SystemInv
  <1>3. CASE \E t \in Txns : Begin(t) \/ Statement(t) \/ Reject(t) \/ Victim(t) \/ Crash(t)
    <2>1. PICK t \in Txns : StepOf(t)
      BY <1>3, TransactionStep
    <2>2. \A u \in Txns : Local(u)'
      BY <2>1, OthersKept DEF StepOf
    <2> QED BY <1>1, <2>1, <2>2 DEF StepOf, SystemInv
  <1>4. CASE \E e \in Polled : RuntimeScope(e) \/ NotModified(e) \/ RuntimeRows(e) \/ RuntimeError(e)
    <2>1. Shared' /\ \A t \in Txns : Local(t)'
      BY <1>4, ReaderStep, PolledAssumption
    <2> QED BY <1>1, <2>1 DEF SystemInv
  <1> QED BY <1>2, <1>3, <1>4 DEF Next

\* SystemInv holds in every reachable state, for every set of environments, keys and
\* transactions and every number of operations.
THEOREM SystemInvariant == Spec => []SystemInv
  <1>1. Init => SystemInv
    BY InitInv
  <1>2. SystemInv /\ [Next]_vars => SystemInv'
    BY NextInv
  <1> QED BY <1>1, <1>2, PTL DEF Spec

\* A 304 is truthful: a consumer whose version equals the environment's config_version
\* holds what a full fetch would return (runtimeConfig and the config_version trigger).
THEOREM EtagsSound == Spec => []EtagSound
  <1>1. SystemInv => EtagSound
    BY DEF SystemInv, Shared
  <1> QED BY <1>1, SystemInvariant, PTL

\* Committed histories have no gap and end at current_version (#writeVersion).
THEOREM HistoriesContiguous == Spec => []HistoryContiguous
  <1>1. SystemInv => HistoryContiguous
    BY DEF SystemInv, Shared, CommittedWhole, Whole, HistoryContiguous
  <1> QED BY <1>1, SystemInvariant, PTL

\* A version written under If-Match follows the version its caller named (update,
\* rollback): no concurrent writer comes in between.
THEOREM NoUpdateLost == Spec => []NoLostUpdate
  <1>1. SystemInv => NoLostUpdate
    BY DEF SystemInv, Shared, ExpectationsMet, Follows, NoLostUpdate
  <1> QED BY <1>1, SystemInvariant, PTL

\* Only COMMIT changes the committed tables.
LEMMA CommittedBy ==
  ASSUME [Next]_vars, \A t \in Txns : ~Commit(t)
  PROVE  UNCHANGED committed
  <1>1. CASE UNCHANGED vars
    BY <1>1 DEF vars, dbVars, committed
  <1>2. CASE \E e \in Polled : RuntimeScope(e) \/ NotModified(e) \/ RuntimeRows(e) \/ RuntimeError(e)
    BY <1>2 DEF RuntimeScope, NotModified, RuntimeRows, RuntimeError, dbVars, committed
  <1>3. ASSUME NEW t \in Txns, Begin(t)
        PROVE  UNCHANGED committed
    <2> USE DEF Call, Start, tables, committed
    <2>1. CASE BeginUpdate(t) \/ BeginUpdateNotes(t) \/ BeginRollback(t) \/ BeginDelete(t) \/ BeginCreate(t)
      BY <2>1 DEF BeginUpdate, BeginUpdateNotes, BeginRollback, BeginDelete, BeginCreate
    <2>2. CASE BeginBulkSet(t) \/ BeginImport(t) \/ BeginPromote(t) \/ BeginRotate(t) \/ BeginEnvDelete(t) \/ BeginEnvRestore(t)
      BY <2>2 DEF BeginBulkSet, BeginImport, BeginPromote, BeginRotate, BeginEnvDelete, BeginEnvRestore
    <2> QED BY <1>3, <2>1, <2>2 DEF Begin
  <1>4. ASSUME NEW t \in Txns, Statement(t)
        PROVE  UNCHANGED committed
    <2> USE DEF tables, committed
    <2>1. CASE MetadataRow(t) \/ Check(t) \/ WriteMetadata(t) \/ SoftDelete(t) \/ Encrypt(t) \/ WriteVersion(t)
      BY <2>1 DEF MetadataRow, Check, WriteMetadata, SoftDelete, Encrypt, WriteVersion
    <2>2. CASE CreateEnvironment(t) \/ Recover(t) \/ Undelete(t) \/ Insert(t) \/ Environment(t) \/ Select(t)
      BY <2>2 DEF CreateEnvironment, Recover, Undelete, Insert, Environment, Select
    <2>3. CASE LockRow(t) \/ PromotionPreview(t) \/ NextItem(t) \/ BulkRow(t) \/ Rotate(t)
      BY <2>3 DEF LockRow, PromotionPreview, NextItem, BulkRow, Rotate
    <2>4. CASE EnvGet(t) \/ EnvCount(t) \/ EnvMark(t) \/ CascadeSnap(t) \/ Cascade(t) \/ CascadeEnd(t) \/ EnvReload(t)
      BY <2>4 DEF EnvGet, EnvCount, EnvMark, CascadeSnap, Cascade, CascadeEnd, EnvReload
    <2> QED BY <1>4, <2>1, <2>2, <2>3, <2>4 DEF Statement
  <1>5. ASSUME NEW t \in Txns, Reject(t) \/ Victim(t) \/ Crash(t)
        PROVE  UNCHANGED committed
    BY <1>5 DEF Reject, Victim, Crash, Abort, Rollback
  <1> QED BY <1>1, <1>2, <1>3, <1>4, <1>5 DEF Next

\* No step rewrites or drops a committed version or lowers a config_version.
THEOREM HistoriesGrow == Spec => HistoryGrows
  <1> DEFINE Grows == /\ \A s \in Slots : \A v \in DOMAIN versions[s] :
                           v \in DOMAIN versions'[s] /\ versions'[s][v] = versions[s][v]
                      /\ \A e \in Envs : envs'[e].ver >= envs[e].ver
  <1>1. SystemInv /\ [Next]_vars => [Grows]_vars
    <2> SUFFICES ASSUME SystemInv, [Next]_vars PROVE Grows
      OBVIOUS
    <2>1. CASE \E t \in Txns : Commit(t)
      BY <2>1, CommitTables
    <2>2. CASE \A t \in Txns : ~Commit(t)
      <3>1. UNCHANGED committed
        BY <2>2, CommittedBy
      <3>2. \A e \in Envs : envs[e].ver \in Nat
        BY DEF SystemInv, TypeOK, EnvsOK, EnvRow
      <3> QED BY <3>1, <3>2 DEF committed
    <2> QED BY <2>1, <2>2
  <1>2. Spec => [][Next]_vars
    BY PTL DEF Spec
  <1> QED BY <1>1, <1>2, SystemInvariant, PTL DEF HistoryGrows

-----------------------------------------------------------------------------
(* SecretSystem implements VersionedStore: initial states are initial      *)
(* states, a COMMIT is a Transact, the second statement of a fetch is a    *)
(* Fetch, and no other step shows.                                         *)

\* The body runtimeConfig returns is the abstract image of the environment.
LEMMA ImageIsBody == ASSUME NEW e \in Envs PROVE Store!Image(e) = Body(e)
  <1>1. \A k \in Keys : <<e, k>> \in Slots
    BY DEF Slots
  <1> QED BY <1>1 DEF Store!Image, Body, Live

\* So is the image of the next state.
LEMMA NextImageIsBody == ASSUME NEW e \in Envs PROVE Store!Image(e)' = Body(e)'
  <1>1. \A k \in Keys : <<e, k>> \in Slots
    BY DEF Slots
  <1> QED BY <1>1 DEF Store!Image, Body, Live

\* The invariant keeps the secrets well.
LEMMA InvWellKept == ASSUME SystemInv, NEW s \in Slots PROVE Store!WellKept(s)
  BY DEF SystemInv, Shared, CommittedWhole, Whole, ExpectationsMet, Follows, Store!WellKept

\* In the next state as well.
LEMMA NextWellKept == ASSUME SystemInv', NEW s \in Slots PROVE Store!WellKept(s)'
  BY DEF SystemInv, Shared, CommittedWhole, Whole, ExpectationsMet, Follows, Store!WellKept

\* Only the second statement of a fetch changes what a consumer holds.
LEMMA CacheKept ==
  ASSUME [Next]_vars, \A e \in Polled : ~RuntimeRows(e)
  PROVE  UNCHANGED cache
  <1> USE DEF readVars
  <1>1. CASE UNCHANGED vars
    BY <1>1 DEF vars
  <1>2. CASE \E e \in Polled : RuntimeScope(e) \/ NotModified(e) \/ RuntimeRows(e) \/ RuntimeError(e)
    BY <1>2 DEF RuntimeScope, NotModified, RuntimeError
  <1>3. ASSUME NEW t \in Txns, Begin(t)
        PROVE  UNCHANGED cache
    <2> USE DEF Call
    <2>1. CASE BeginUpdate(t) \/ BeginUpdateNotes(t) \/ BeginRollback(t) \/ BeginDelete(t) \/ BeginCreate(t)
      BY <2>1 DEF BeginUpdate, BeginUpdateNotes, BeginRollback, BeginDelete, BeginCreate
    <2>2. CASE BeginBulkSet(t) \/ BeginImport(t) \/ BeginPromote(t) \/ BeginEnvDelete(t) \/ BeginEnvRestore(t)
      BY <2>2 DEF BeginBulkSet, BeginImport, BeginPromote, BeginEnvDelete, BeginEnvRestore
    <2> QED BY <1>3, <2>1, <2>2 DEF Begin
  <1>4. ASSUME NEW t \in Txns, Statement(t)
        PROVE  UNCHANGED cache
    <2>1. CASE MetadataRow(t) \/ Check(t) \/ WriteMetadata(t) \/ SoftDelete(t) \/ Encrypt(t) \/ WriteVersion(t)
      BY <2>1 DEF MetadataRow, Check, WriteMetadata, SoftDelete, Encrypt, WriteVersion
    <2>2. CASE CreateEnvironment(t) \/ Recover(t) \/ Undelete(t) \/ Insert(t) \/ Environment(t) \/ Select(t)
      BY <2>2 DEF CreateEnvironment, Recover, Undelete, Insert, Environment, Select
    <2>3. CASE LockRow(t) \/ PromotionPreview(t) \/ NextItem(t) \/ BulkRow(t)
      BY <2>3 DEF LockRow, PromotionPreview, NextItem, BulkRow
    <2>4. CASE EnvGet(t) \/ EnvCount(t) \/ EnvMark(t) \/ CascadeSnap(t) \/ Cascade(t) \/ CascadeEnd(t) \/ EnvReload(t)
      BY <2>4 DEF EnvGet, EnvCount, EnvMark, CascadeSnap, Cascade, CascadeEnd, EnvReload
    <2> QED BY <1>4, <2>1, <2>2, <2>3, <2>4 DEF Statement
  <1>5. ASSUME NEW t \in Txns, Reject(t) \/ Victim(t) \/ Crash(t)
        PROVE  UNCHANGED cache
    BY <1>5 DEF Reject, Victim, Crash, Abort
  <1> QED BY <1>1, <1>2, <1>3, <1>4, <1>5 DEF Next

\* A COMMIT takes effect at once.
LEMMA CommitTransacts ==
  ASSUME SystemInv, SystemInv', NEW t \in Txns, Commit(t), UNCHANGED cache
  PROVE  Store!Transact
  <1>1. \A s \in Slots : Store!WellKept(s)'
    BY NextWellKept
  <1>2. \A s \in Slots : \A v \in DOMAIN versions[s] : v \in DOMAIN versions'[s] /\ versions'[s][v] = versions[s][v]
    BY CommitTables
  <1>3. ASSUME NEW e \in Envs
        PROVE  envs'[e].ver >= envs[e].ver /\ (envs'[e].ver = envs[e].ver => Store!Image(e)' = Store!Image(e))
    BY CommitTables, CommitBody, ImageIsBody, NextImageIsBody
  <1> QED BY <1>1, <1>2, <1>3 DEF Store!Transact, Store!Slots, Slots

\* The rows of a fetch come with a version that is not newer.
LEMMA RowsFetch ==
  ASSUME SystemInv, NEW e \in Envs, RuntimeRows(e)
  PROVE  Store!Fetch(e)
  <1>1. UNCHANGED <<secrets, versions, envs>>
    BY DEF RuntimeRows, dbVars
  <1>2. poll[e].ver \in 0 .. envs[e].ver
    BY DEF RuntimeRows, SystemInv, Shared, ReadersBehind, TypeOK, ReadersOK, EnvsOK, EnvRow
  <1>3. cache' = [cache EXCEPT ![e] = [has |-> TRUE, ver |-> poll[e].ver, body |-> Store!Image(e)]]
    BY ImageIsBody DEF RuntimeRows
  <1> QED BY <1>1, <1>2, <1>3 DEF Store!Fetch

\* SecretSystem implements the store: each accepted call, a batch of any size
\* included, takes effect at one moment, and a fetch sees one moment (withOrg,
\* runtimeConfig).
THEOREM SystemImplementsStore == Spec => ImplementsStore
  <1>1. Init => Store!StoreInit
    <2> SUFFICES ASSUME Init PROVE Store!StoreInit
      OBVIOUS
    <2>1. \A s \in Slots : Store!WellKept(s)
      BY InitInv, InvWellKept
    <2>2. \A e \in Envs : ~cache[e].has
      BY DEF Init, ReadInit
    <2> QED BY <2>1, <2>2 DEF Store!StoreInit, Store!Slots, Slots
  <1>2. SystemInv /\ SystemInv' /\ [Next]_vars => [Store!StoreNext]_(Store!storeVars)
    <2> SUFFICES ASSUME SystemInv, SystemInv', [Next]_vars PROVE [Store!StoreNext]_(Store!storeVars)
      OBVIOUS
    <2>1. CASE \E e \in Polled : RuntimeRows(e)
      BY <2>1, RowsFetch, PolledAssumption DEF Store!StoreNext
    <2>2. CASE (\A e \in Polled : ~RuntimeRows(e)) /\ \E t \in Txns : Commit(t)
      BY <2>2, CacheKept, CommitTransacts DEF Store!StoreNext
    <2>3. CASE (\A e \in Polled : ~RuntimeRows(e)) /\ \A t \in Txns : ~Commit(t)
      <3>1. UNCHANGED committed /\ UNCHANGED cache
        BY <2>3, CacheKept, CommittedBy
      <3> QED BY <3>1 DEF committed, Store!storeVars
    <2> QED BY <2>1, <2>2, <2>3
  <1>3. Spec => [][Next]_vars
    BY PTL DEF Spec
  <1>4. Spec => Init
    BY DEF Spec
  <1> QED BY <1>1, <1>2, <1>3, <1>4, SystemInvariant, PTL DEF ImplementsStore, Store!StoreSpec
=============================================================================
