# Himitsu: a TLA+ model

Himitsu is a self-hosted secrets manager: a TypeScript API over PostgreSQL
(`apps/api`, `packages/*`), a CLI and a web console, and Go integrations that
consume the runtime configuration of an environment. This directory models four
parts of it, each where it can go wrong in a way no unit test reaches:

- the **secret store**: what tenant transactions do to secrets, versions,
  environments and data keys, statement by statement, and what a consumer that
  polls with an ETag may conclude from the answers;
- the **Kubernetes operator**, the most intricate of those consumers;
- **access**: accounts, sessions, tokens, invitations, members, API keys,
  projects and environments, as requests of one API server that run together;
- the **web console**: a page with optimistic edits and calls in flight.

## Inventory

| Part | State | Operations | Hard because | Correct when |
| --- | --- | --- | --- | --- |
| Tenant transactions (`packages/tenancy`, `withOrg`) | one pooled connection, row and advisory locks | BEGIN, work, COMMIT, ROLLBACK on any error | READ COMMITTED: each statement has its own snapshot; a waiting statement re-tests changed rows | all or nothing; every transaction ends |
| Secret store (`packages/secrets`) | `secrets`, `secret_versions` | create, update, rollback, delete, bulkSet, importBatch, promote, runtimeConfig | versions computed from earlier reads; batches over many rows; contradictory lock orders | histories gap-free and append-only, no lost update, batches complete, imports respect their strategy |
| `config_version` trigger (`migrations/0013`) | `environments.config_version` | bump on a visible change of a secret | fires inside every writer's transaction, at the end of its statement | a 304 is truthful |
| Environments (`packages/environments`) | `environments`, cascade stamps on `secrets` | create, update, reorder, delete, restore | checks on unlocked reads; a cascade that races with writers | deletions and recoveries undo each other exactly; one environment remains |
| Data keys (`packages/crypto`) | `org_encryption_keys` | ensureActive, rotate, encrypt, decrypt | first use and rotation race with writers | one active key; everything stored decrypts; rotation is a fence |
| Projects (`packages/projects`) | `projects`, cascade stamps on two levels | create, update, archive, delete, restore | a second cascade over the rows of the first | as for environments |
| Accounts, sessions, limiter (`packages/auth`) | users, sessions, tokens; failure buckets in memory | signup, login, verify, reset, logout | an asynchronous password check between test and count; single-use tokens | tokens used once; the limit overshot by no more than the parallel attempts |
| Organizations, members, invitations (`packages/tenancy`, member routes of `apps/api`) | memberships, invitations, active organization of a session | create, switch, invite, accept, revoke, change, remove | a removal against a switch; two connections for one invitation | one owner; changes as validated; invitations used once |
| API keys, roles (`packages/api-keys`, `packages/authz`) | keys, project roles | create, revoke, authenticate; set and remove a role | authentication in one transaction, use in another | a project role only lowers |
| Consistency reports (`packages/consistency`) | cached report with a fingerprint | compute, setDisposition | several statements behind one fingerprint | a cached report matches its fingerprint |
| Audit log (`packages/audit`) | `audit_events` | record, list, export | cursor paging | no action without its event |
| Operator (`integrations/operator`) | resource status, target Secret | reconcile | stale caches, conflicts, failed passes, conditional fetch | the target converges to the configuration; foreign keys survive |
| Web console (`apps/web`) | rows, revealed values, timers, dialogs, tabs | edit, add, reveal, roll back, import, promote, manage environments | answers in any order, or none, for rows shown as if saved | rows show what the server has; nothing is overwritten unseen; what is revealed is masked again |
| CLI, Go client, Terraform provider, GitHub action, import parsers, deployment | none shared | client calls, parsing | | |

The service packages share the database and nothing else: the API opens a
transaction (`withTenant` → `withOrg`), passes it to a service, and the service
runs its statements in it. Services call each other inside that transaction
(secrets → crypto, secrets → audit). Consumers see the store only through
`runtimeConfig`; the console sees it through the routes.

## Modules

### The secret store

Each module extends the one above it; the variables live in the module of the
part that owns them.

- **Database** – tables, locks and transactions. Every table has a committed
  copy and a newest copy. The newest tuple differs from the committed one only
  under its row lock, whose owner is its author; a statement reads its own
  newest tuples and everybody else's committed ones. `Start`, `Commit`,
  `Rollback` are `withOrg`; `UpdateRow` is an UPDATE of a secrets row together
  with the trigger, which takes the environment's row lock.
- **DataKeys** – `org_encryption_keys` as a sequence of statuses; `Activate`,
  `EnsureActive`, `Seal`, `Opens`; the rotation transaction.
- **Secrets** – the calls of `SecretService`, one action per statement that
  reads or writes shared rows. The label in `pc` names the next statement:
  `MetadataRow` is `#metadataRow(lock)`, `Check` the tests that follow,
  `Encrypt` and `WriteVersion` the two halves of `#writeVersion`,
  `CreateEnvironment`, `Recover`, `Undelete`, `Insert` the statements of
  `#create`, `Select`, `LockRow`, `PromotionPreview`, `NextItem` those of the
  batches. `RuntimeScope`, `NotModified` and `RuntimeRows` are `runtimeConfig`.
- **Environments** – `delete` and `restore` of `EnvironmentService` with the
  cascade: the UPDATE takes its snapshot (`CascadeSnap`), locks and re-tests
  row by row (`Cascade`), and fires the row triggers at the end (`CascadeEnd`).
- **SecretSystem** – the composition: callers, statements, errors (`Reject`),
  deadlock victims (`Victim`), crashes (`Crash`), consumers; the properties.
- **VersionedStore**, **StoreRefinement** – what the store promises its callers
  in half a page: every accepted call, a batch of any size included, takes
  effect at one moment, and a fetch reads one moment. `StoreRefinement` maps
  the committed tables to it and states `ImplementsStore`.
- **SecretInvariant** – the inductive invariant behind the properties, in four
  parts: `SystemInv` (tables and noted versions), `KeyInv` (data keys), `RowInv`
  (deletion stamps), `BatchInv` (progress of batches); together `StoreInv`.
- **SecretSystemProofs** (types), **SecretInvariantProofs** (`SystemInv`, what
  follows from it, the refinement), **SecretKeyProofs** (`KeyInv`),
  **SecretRowProofs** (`RowInv`, `BatchInv`) – theorems.

### The operator

- **Operator** – the Kubernetes operator by itself, over versions of each
  environment's configuration that appear as `config_version` grows. What it
  needs of the store is `EtagSound`. A pass goes through `Load` (the informer
  cache, whose copy may be old by the time it is used), `LoadTarget` (the live
  target, `checkOwnership`, the choice of `knownVersion`), `Fetch` (304 or
  everything), `WriteTarget` and `Succeed` or `Fail`, each of which is one call
  to the API server or to Himitsu. `Prepared` and `Merged` are the Secret
  `writeTarget` builds under either policy. `freshTarget` and `freshRes` stand
  for resourceVersions: what the pass read is still the current object.
  `WriteOther` is anybody else who sets or removes a key of the target, one of
  the configuration too, or makes the Secret; `Unstamp` removes the
  config-version annotation. `altered` is a history variable: the keys that
  others changed since a pass wrote the target, its stamp left in place. `mix`
  names the passes, resources and users of a behaviour and bounds their actions.
- **OperatorProofs** – theorems about Operator: its invariants for all instances,
  for the mixes in which nobody edits specs, and for one leader without faults.

### Access

Each module extends the one above it.

- **Authz** – the permission matrix, `effectiveRole`, the rules for protected
  environments, the permission each route asks for.
- **AccessTables** – the tables, the requests with the row locks and pooled
  connections they hold, the limiter's counters. A transaction's last statement
  is one step with its COMMIT; before that others know of it by its row locks.
- **Accounts** – `packages/auth`: login with the limiter (`Login`,
  `SelectAccount`, `VerifyPassword`, which is where the asynchronous Argon2
  check answers, `InsertSession`), `Authenticate` and `Touch` in front of every
  session route, sign-up, emailed tokens (`LockToken`), reset (`LockAccount`,
  `FindSessions`, `LockSession`, `ResetPassword`), logout.
- **Members** – `withOrg` (`Enter`), the permission check of a route (`Permit`),
  switching and creating organizations, member changes (`ReadActor`,
  `LockTarget`, `ApplyRole`, `RemoveMember`), invitations (`OpenInvitation`
  takes the second connection, `LockInvitation`, `Join`), project roles, keys.
- **Projects** – projects and environments with the two-level cascade
  (`FindEnvironments`, `FindSecrets`, `LockRow`, `CommitCascade`) and reorder.
- **Access** – the composition: clients call, requests step, things expire, a
  statement fails (`Fail`), a deadlock is broken (`Victim`), the server
  restarts; the promises, and the inductive invariant `ServerInv`, made of
  `AccessInv`, `SessionInv` and `ProjectInv`.
- **AccessProofs** (`AccessInv`, `SessionInv`), **ProjectProofs** (`ProjectInv`,
  the types) – theorems.

### The console

- **ConsoleCalls** – one project as the server keeps it, and the calls a page
  has in flight. A request is one step of the server (`Serve`); its answer may
  be handled in any order with others, or be lost after or before the effect.
- **SecretWorkspace** – the table: `save` with its optimistic row and what
  replaces or restores it (`SaveEdit`, `SaveAdd`, `UpdateAnswered`,
  `CreateAnswered`), `reveal` with its 15-second timer, listings.
- **ConsoleDialogs** – the import sheet, the version drawer, the promotion.
- **EnvironmentManager** – the manager's calls and `applyEnvironments`.
- **Console** – one page: clicks, timers, answers and the world; the promises.
- **ConsoleInvariant** – the inductive invariant `ConsoleInv`.
- **ConsoleProofs** – theorems about Console.

**MCSecretSystem**, **MCOperator**, **MCAccess** and **MCConsole** are the
instances for TLC.

### What the database does

Two things of PostgreSQL matter and are modelled from how the code uses them.
A `SELECT ... FOR UPDATE` or an UPDATE that meets a locked row waits and then
tests the row again on its new tuple (`LockRow`, `Cascade`, `EnvMark`); for
`promote`, whose SELECT joins `secret_versions`, the joined row is the one of
the old snapshot, so a source row updated in between drops out of the result.
And a cycle of waiting transactions is broken by aborting one of them
(`Victim`). A statement that waits is an action that is not enabled; a
statement that waits on a row and then finds it no longer matching takes its
other branch (`Reject`, or the row is skipped).

### Abstractions

*Store.* A timestamp is the number of the operation that wrote it (0 for NULL),
so no two deletions carry the same one; a plaintext is the number of the
operation that first wrote it. A ciphertext is its plaintext, its key version
and the context it was sealed under, which is what decryption checks.
Permissions are a refusal that may come at any statement (`Crash` aborts from
every label). A consumer sends the version it keeps, or none; a request with
`If-None-Match: *` asks nothing of the body and is left out. Notes, tags and
audit rows of the same transaction are left out: no modelled statement reads
them. Projects are live throughout.

*Operator.* A value is the environment and version it was fetched at; every
environment has been written at least once, so its version is positive; the
auth Secret, the template's format and an invalid key are among the failures
`Fault` stands for. Of the annotations others remove only config-version; they
do not forge one, and owner and managed-keys are changed by the operator alone. A
`refreshInterval: 0`, which asks for one pass only, is left out.

*Access.* A password is a number and its hash is the password. Mail is never
lost in a way a request notices, as in the code. The CSRF token presented is
the right one; the HTTP rate limiter is left out. A waiting statement outside a
transaction does not hold its connection while it waits. Since the last
statement of a transaction is one step with COMMIT, the key-share lock a
foreign key takes there is not visible to others. Times of deletion are only
compared for equality, and no two deletions take the same one; a recovery
window may be over at any time. Slug 1 is `production` or `prod`; only the
first project has roles of its own. Names, descriptions, settings and tags of
projects, keys scoped to a project, and audit rows are left out. `setArchived`,
both restores and the project roles have no route: they are called as the
services they are, behind the same permission check. `restoreProject` updates
the project's row by its id alone, with a deletion time it read without a lock
(`packages/projects/src/index.ts:381`), so that one that comes late, after
another restore and a new deletion, leaves a live project whose environments
stay deleted. `DeletionsKept` therefore speaks of the rows of environments and
secrets, which a restore picks by their stamps.

*Console.* Keys are numbers, rows a set (their order is layout), a file chosen
for import is text typed. A list names an environment once, so that filtering
one out is taking it from its place (`Without`). A health report, a comparison
of environments, notices, copying and exporting change nothing the properties
speak of and are left out. The version drawer offers every version but the
current one.

## Checks

| Run | Instance | Checks |
| --- | --- | --- |
| `store` | 1 environment, 1 key, 2 connections, 3 operations, a consumer | `EtagSound`, `HistoryContiguous`, `NoLostUpdate`, `Decryptable`, `OneActiveKey`; `HistoryGrows`, `RotationFences`; `ImplementsStore` |
| `batch` | 2 environments, 2 keys, 2 connections, 2 operations, fairness | `StoreInv` (the inductive invariant), `BulkComplete`, `PromoteSelected`, `ImportKeeps`; `EveryTransactionEnds` |
| `lifecycle` | 2 environments, 1 key, 2 connections, 4 operations, a consumer | `StoreInv`, `CascadeStamped`, `NoSilentRevival` |
| `access` | 14 mixes of calls, 2 requests at a time, 4 in all, fairness | `ServerInv` (the inductive invariant, types in it), `GuessBound`, `OneOwner`, `RemovalNeverRefused`, `OverrideOnlyLowers`; `TokenOnce`, `InvitationOnce`, `MemberChangeChecked`, `DeletionsKept`; `RequestsEnd` |
| `operator` | 6 mixes: 1 or 2 overlapping passes, 1 or 2 resources with one target, 2 environments, up to 2 user actions, 1 fault, fairness | `ConditionalInv` (the inductive invariant), `ConditionalSafe`; `ForeignKept`, `OwnerKept`, `Converges` |
| `console` | 12 mixes of clicks, 2 or 3 of which send calls, 1 write of another client | `ConsoleInv` (the inductive invariant), `RowsCommitted`, `NoBlindOverwrite`, `SelectionKept`, `TabsAgree`; `Remasks` |
| `promote_all` | as `batch`, update and promote | `PromoteAll` is violated |
| `last_environment` | 2 environments, deletions | `LastEnvironment` is violated |
| `cascade_restored` | 3 connections, create, delete, restore | `CascadeRestored` is violated |
| `operator_stale` | 1 pass, 1 resource, 2 environments, 1 edit, 1 fault | `ConditionalSafe` is violated |
| `operator_hand` | 1 pass, 1 resource, 1 write of another party | `EditsNoticed` is violated |
| `console_import` | one user of the import sheet | `ImportReviewed` is violated |

**Bounds.** In the store, `MaxOps` bounds the transactions a behaviour starts;
every interleaving of their statements, refusals, crashes and lock waits is
explored. Three operations on one key let a secret be written twice while a
rotation or a deletion is under way; the four of `lifecycle` cover delete –
create – restore chains of an environment. Two keys are what a batch needs to
be half done and what two batches need to lock in opposite orders, and two
connections are enough for every pairwise race. `cascade_restored` needs three:
a create and two deletions in flight. Connections are interchangeable, so the
runs of safety properties use their symmetry.

In `access` a behaviour draws its requests from one mix of calls, so that calls
that can hurt each other meet without the whole product: guessing beside a
reset, an invitation accepted, revoked and replaced, a member changed, removed
and switching, cascades of projects and environments, and so on (`Clients`).
Four requests, two at a time, cover a call that is overtaken and one that comes
after; three connections are what two requests can hold plus one, two failures
block an identity, and three environments are one more than the project has.
`mix` also names what may go wrong: expiry, a restart, faults.

In `console` a behaviour draws the user's clicks from one mix in the same way.
A page of one secret is smaller than an environment with two, so that listings
are cut; one write of another client is what a version conflict needs.

The operator's instances have versions 1 and 2 of each environment, which is
enough for a status, a stamp and the upstream to differ pairwise, one key that
comes and goes and one foreign key. A behaviour draws who takes part from one
mix (`MCOperator`): `Shared` has the passes of two leaders for one resource and
two actions of users (a deletion, a write, a lost stamp, a removed resource in
any order), `Faulty` the same with one write or deletion and one fault (a failed
call, a lost answer or a crash at any point), `Repeated` one leader with two
actions and a fault, `Contended` two leaders that work for different resources of
one target, which is what `OwnerKept` is about, `Edited` and `EditedTwo` one
leader while users edit specs: one resource with two actions of any kind, and
two resources of one target with an edit or a deletion. Two passes at once and edits
of the spec are not combined, for the reason given under Disagreements.

TLC's deadlock check is off where the system really may stop: the bound on
operations, requests or clicks is reached, or a cluster's only resource was
removed.

**Fairness.** Of the store, `FairSpec` assumes weak fairness of each
connection's `Statement \/ Reject \/ Victim`: a driver that has an open
transaction sends its next statement, and PostgreSQL grants free locks and runs
its deadlock detector (`deadlock_timeout`). Of access, the same of each
request's `Step \/ Victim`; whether a connection of the pool is free is part of
the step, so that `RequestsEnd` also says that the pool never runs dry for
ever. It holds because the pool is larger than the number of requests at work:
`inviteMember` takes a second connection while it holds one, and with as many
invitations as connections all of them would wait. Nothing is assumed of
callers, and crashes, restarts and faults are never forced. Of the console,
timers fire.

For the operator, a pass that runs takes its next step (weak fairness of
`Continue`), the garbage collector runs, and every existing resource is taken
up again and again by some leader (strong fairness of its `Load`, since leaders
that are busy with another resource disable it): the work queue holds each
resource once, and every outcome of a pass requeues it (`RequeueAfter`,
`Requeue`, or the error of a refused status update). Edits, faults and
publications are bounded and never forced; `Converges` is about what happens
once they are over.

### Disagreements the runs show

- `promote_all`: without a key list, `promote` can commit without a secret that
  was updated while it waited (`packages/secrets/src/index.ts:873`), although
  the API reference promises "selected/all" copies. With a key list the missing
  key is an error, which `PromoteSelected` confirms.
- `last_environment`: two concurrent deletions remove the last two environments
  (`packages/environments/src/index.ts:301`).
- `cascade_restored`: a deletion whose UPDATE of the environment changed no row
  still cascades with its own stamp; a secret created in between stays deleted
  after the restore, and its key cannot be created again
  (`packages/environments/src/index.ts:318`).
- `operator_stale`: a failed pass records the generation it did not sync
  (`himitsusecret_controller.go:499`), which defeats the test that forces a full
  fetch after a spec change. If both environments are at the same version, the
  target keeps the data of the old one until its version changes. The same
  confusion of versions of different environments arises without a fault when an
  old leader writes after the spec changed, because the stamp on the target does
  not say which environment it counts (`:138`); hence one leader in `Edited` and
  `EditedTwo`.
- `operator_hand`: a pass looks at the target's annotations and never at its data
  (`himitsusecret_controller.go:138`), so a key that is changed by hand, the
  config-version annotation left alone, is answered with a 304 until the
  environment's next version. `:239` says that a target "edited by hand, reports 0
  and therefore forces a full re-fetch", `:543` that a manual edit is re-synced,
  and the operator's README.md:66 names the annotation as what tells "someone
  edited it". `ConditionalSafe` and `Converges` state what remains true: they
  excuse the keys in `altered`, and no others; a target that lost its stamp, or
  was deleted, is repaired in full.
- `console_import`: the text of an import can be edited while its preview is
  awaited; the preview of the old text then arrives, and the commit sends the
  new one (`apps/web/src/SecretWorkspace.tsx:804`), although README.md:34
  promises a preview "before anything is written". `SelectionKept` is what
  remains true: a merge writes only keys that were shown.

## Proofs

TLAPS checks, for every value of the constants that the modules' assumptions
allow, that each part's invariant is inductive and what follows from it:

| Invariant | Theorem | What follows |
| --- | --- | --- |
| `StoreInv` | `StoreInvariant` | |
| – `SystemInv` | `SystemInvariant`, `TypeCorrect` | `EtagsSound`, `HistoriesContiguous`, `NoUpdateLost`, `HistoriesGrow`; the refinement `SystemImplementsStore` |
| – `KeyInv` | | `VersionsDecryptable`, `OneKeyActive`, `RotationsFence` |
| – `RowInv` | | `CascadesStamped`, `NothingRevivedSilently` |
| – `BatchInv` | | `BulkCompletes`, `PromotionsSelected`, `ImportsKeep` |
| `OperatorInv` | `OperatorInvariant` | `OwnersKept`, `ForeignKeysKept` |
| `ConditionalInv` | `ConditionalInvariant` | `ConditionalRequestsSafe` |
| – `UneditedInv`, when no spec is edited | | |
| – `OneLeaderInv`, with one leader and no fault | | |
| `ServerInv` | `ServerInvariant` | `AccessTypes` |
| – `AccessInv` | `AccessInvariant` | `GuessBoundHolds`, `OneOwnerHolds`, `OverrideOnlyLowersHolds`, `TokenOnceHolds`, `MemberChangeCheckedHolds`, `InvitationOnceHolds` |
| – `SessionInv` | | `RemovalNeverRefusedHolds` |
| – `ProjectInv` | | `DeletionsKeptHolds` |
| `ConsoleInv` | `ConsoleInvariant` | `ConsoleTypes`, `RowsCommittedHolds`, `NoBlindOverwriteHolds`, `SelectionKeptHolds`, `TabsAgreeHolds` |

**Store.** None of the properties is inductive by itself. A committed table is
only as good as what a transaction is about to commit, and that depends on what
it read and locked statements ago. `SystemInv` therefore adds

- about the tables (`Shared`): an unlocked row or environment has no
  uncommitted tuple; uncommitted versions extend the committed ones; readers
  are not ahead of the environment;
- about each transaction (`Local`): while a label may use a version noted
  earlier (`tx.seen`), the row is locked by it and still has that version
  (`ItemHeld`, `SeenHeld`); a locked row's newest history is whole, except
  between the two halves of `#writeVersion` (`OwnedWhole`); a visible change of
  a locked row is already bumped on an environment it has locked, or a
  statement before COMMIT will bump it (`Dirty`). The last conjunct is the heart
  of `EtagSound`: at COMMIT a changed row implies a raised `config_version`.

Steps are grouped by what they touch: a step that only reads, one that takes a
lock, an UPDATE of a row, an INSERT, the encryption, the environment's mark and
cascade, COMMIT, ROLLBACK, and the reader. `OthersKept` shows that a step of
one transaction leaves `Local` of the others alone because locks exclude each
other; each group has one lemma. The refinement needs nothing more: a COMMIT is
a `Transact` because `Shared` and `Dirty` say so of the tables it publishes,
`RuntimeRows` is a `Fetch`, and every other step leaves the committed tables.

The other three parts stand on `SystemInv`.

- *Keys.* A version is encrypted under the key that is active at that statement,
  and committed statements later, when it must still not have been retired.
  `KeyInv` says why: versions that are not committed exist only while their
  author holds the organization's advisory lock, and are sealed under the active
  key (`PendingSealed`); uncommitted keys need the same lock (`KeysGuarded`),
  and a transaction that rotates writes no secret (`RotatesAlone`). So a rotation
  never commits between an encryption and its COMMIT.
- *Stamps and revivals.* The statement that deletes or recovers a row relies on
  the state the locking SELECT saw (`ItemState`), and a cascade on its rows being
  as others committed them (`CascadeClean`). A recoverable secret becomes live
  under a row lock only with a new version, or while its `#writeVersion` is under
  way (`Revived`).
- *Batches.* At COMMIT all that is left of a batch is what it wrote. `BatchInv`
  follows the list: what has been taken off it has its value in the newest copy
  of a row that is still locked (`BulkDone`, `PromoteDone`), the sources of a
  promotion are locked and as they were, and the current item of an import is
  one its strategy allows (`ImportDone`).

**Operator.** A pass checks ownership and computes the merged data from a copy
of the target it read calls ago. `OperatorInv` says what that copy is worth at
the write: it was not refused, it is the target itself as long as nothing wrote
to it since (`PassSound`), and a target that does not exist holds no key. With
the API server's refusal of stale writes (`AcceptedIsFresh`) both properties
follow, and `WritesOnlyItsOwn` shows that no other step of the system writes on
a pass's behalf.

That a 304 leaves the right data in place is false of the code in general, for
three causes. `operator_stale` finds an edit of the spec followed by a failed
pass. Two passes with an edit between their reads break it without any fault,
since the stamp names a version and not its environment. And a key changed by
hand is not noticed at all (`operator_hand`). `ConditionalRequestsSafe` says what
holds beside them: its hypothesis, on every mix, excludes the first two, and
`ConditionalSafe` itself excuses the keys of the third.

The proof rests on `Recorded`: what passes wrote into a Secret is listed as
managed and a stamp has an owner, so that a write leaves exactly the fetched
configuration, under Merge beside what other parties put where the configuration
has nothing (`PreparedHolds`), and what was published stays right while others
write around it or take the stamp away (`StampKept`, `OthersKeepStamp`). Without
edits, a pass's spec is its resource's and the owner's target holds what its stamp
says (`UneditedInv`), with any number of passes and faults. With edits, one
leader observes a generation only once it is in the target (`OneLeaderInv`): an
edit leaves `observed` below `generation`, and the pass that raises it either
wrote the target itself or was told 304 for a generation observed before.
`ConditionalInv` puts the two beside each other, each for its kind of mix.

**Access.** A request acts on what it read statements ago. `AccessInv` says what
stays true until it acts, and why: a request that goes on knows who it works for
(`Formed`); the role a member change validated is the one the member has, under
its row lock (`Decided`); the invitation about to be accepted is pending and
for this account and role (`Accepting`), the token about to be consumed is not
consumed (`Consuming`), both under their locks; whoever invites works in an
organization that has an owner (`Inviting`); no row is locked twice
(`Exclusive`); failures counted and attempts under way stay below the limit
together (`GuessesCounted`, the strengthening behind `GuessBound`). The argument
is rely–guarantee: every step of a request is shown to be `Gentle` (what others
rely on changes only where no one else holds the row), to be taken `Alone`, and
to leave its own facts true (`Settled`); `KeptPreserves` turns the three into
`AccessInv'`. `Writers` names the few statements that write accounts,
members and invitations; the three action properties follow from it.

`SessionInv` adds what a removal needs: the sessions it waits for or has locked
are all that point at the membership (`Unreferenced`). Its first SELECT saw
every one of them, and no other can come: a login, a switch or an accepted
invitation names a member row that the removal holds locked. `ProjectInv` does
the same for cascades: rows that a cascade has locked satisfy its WHERE still
(`Cascading`), because whoever would change them waits for the lock, so that its
COMMIT undoes the deletion it read and no other.

**Console.** The page and the server share nothing but calls, so `ConsoleInv`
has a part for each and for what is in flight. `Sound` says that a settled row is
of a version the server has had, `Seen` that it was on the page when it settled;
both last, because versions and sightings are only added (`Grows`). Every call
carries what its answer may put on the page: an update the sound row to restore
when it is refused, an edit a version that was seen, an import keys of its
preview, the manager's call the list it proposes (`AskSound`). Each handler then
has one lemma: it leaves a part of the page alone or fills it from something
sound (`PageStep`). `TabsFollow` relates the manager's one call to both lists:
they agree before the server has answered, and the project's is the call's
proposal after; when two calls overlap or one is lost nothing is claimed.

**Assumptions.** They are those the modules state on their constants, which TLC
evaluates in every run: finite non-empty sets of naturals for environments and
keys (their order is what ORDER BY uses), an owner value that is no
transaction, seeds that are slots; for the operator, disjoint configuration and
foreign keys, some resource and environment, and an absent value that is no
resource and no data; for access, a finite set of requests, a positive limit,
absent values that are no account and no organization, calls that passed
validation (`CallsAssumption`) and tables the code left (`StartAssumption`); for
the console, keys in an order, texts that assign keys, and a project with an
environment to open.

**Only model-checked.** `EveryTransactionEnds`, `RequestsEnd`, `Converges` and
`Remasks` are liveness under fairness, which is outside what the proof system
handles. Every safety property of a passing run is a theorem; `ConditionalSafe`
is one under the hypothesis above, which every mix of its passing run meets.

## Not modelled

- **Consistency reports**: string analysis behind a cache. The one race of the
  cache, values read after the fingerprint, is a hazard in PROJECT.json.
- **Audit log**: one INSERT in the transaction it describes, which the models
  merge with that transaction's COMMIT, and a filtered list whose cursor keeps
  milliseconds of a column with microseconds.
- **Import parsers**: text parsing of unbounded strings.
- **CLI, Go client, Terraform provider, GitHub action**: sequential clients that
  keep no state another actor changes. The Go client's runtime call is part of
  Operator.
- **Rest of the console**: the pages of `App.tsx` for accounts, audit and
  settings show what one call returned.
- **HTTP schemas, tag routes, rate limiter, row-level security policies,
  deployment scripts.**

What remains worth doing: an abstract specification of the server's memberships
which `Access` implements, as `VersionedStore` is for the store.
