------------------------------ MODULE DataKeys ------------------------------
(***************************************************************************)
(* The organization's data-encryption keys (packages/crypto): the store    *)
(* bound to a tenant transaction, and what sealing and opening a value     *)
(* under a key version and an authenticated context amount to.             *)
(***************************************************************************)
EXTENDS Database

KeyStatus == {"active", "retired"}

\* #selectActive: the versions with status 'active'.
Active(ks) == {v \in DOMAIN ks : ks[v] = "active"}

\* Mutant: the old key stays active.
ActivateKeepsOld(ks) == Append(ks, "active")

\* The part of #activate after the advisory lock: retire the active key, insert
\* version max + 1 as active.  Rows are never deleted, so max(version) = Len.
Activate(ks) == Append([v \in DOMAIN ks |-> "retired"], "active")

\* ensureActive: the existing active key, else the first one.
EnsureActive(ks) == IF Active(ks) # {} THEN ks ELSE Activate(ks)

\* The version of the record #selectActive returns.
ActiveVersion(ks) == CHOOSE v \in DOMAIN ks : ks[v] = "active"

\* Mutant: the context names the version before the one written.
SealPrevious(value, d, s, v, expected) == [val |-> value, dek |-> d, aad |-> <<s, v - 1>>, exp |-> expected]

\* encrypt: a fresh ciphertext under key version d, bound to secret s and record version v.
Seal(value, d, s, v, expected) == [val |-> value, dek |-> d, aad |-> <<s, v>>, exp |-> expected]

\* decrypt succeeds: the key version is known and the context is the sealed one.
Opens(sealed, ks, s, v) == sealed.dek \in DOMAIN ks /\ sealed.aad = <<s, v>>

\* What a statement of t sees of org_encryption_keys.
KeyView(t) == IF orgLock = t THEN newestDeks ELSE deks

-----------------------------------------------------------------------------
\* rotateDataKey: its transaction takes the organization's advisory lock ...
BeginRotate(t) == Start(t, "rotate", [Blank EXCEPT !.op = "rotate"])

\* ... and, holding it, activates the next version.
Rotate(t) ==
  /\ pc[t] = "rotate"
  /\ CanLockOrg(t)
  /\ orgLock' = t
  /\ newestDeks' = Activate(newestDeks)
  /\ Goto(t, "commit")
  /\ UNCHANGED <<committed, newest, newestVersions, newestEnv, rowLock, envLock, tx, ops>>
=============================================================================
