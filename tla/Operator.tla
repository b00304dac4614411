------------------------------ MODULE Operator ------------------------------
(***************************************************************************)
(* The Kubernetes operator (integrations/operator): reconcile passes that  *)
(* copy the runtime configuration of an environment into a target Secret.  *)
(*                                                                         *)
(* Several HimitsuSecret resources of a namespace name the same target,    *)
(* and several passes may be under way: an old leader that still runs, or  *)
(* a pass that started from the informer cache's old copy of its resource. *)
(* The API server refuses a write whose resourceVersion is not the current *)
(* one; a pass records whether what it read is still that (fresh).         *)
(***************************************************************************)
EXTENDS Naturals, Sequences, FiniteSets

CONSTANTS
  Envs,        \* environments a resource may point at
  Keys,        \* keys of the runtime configuration
  Foreign,     \* keys other parties keep in the target
  Names,       \* HimitsuSecret resources
  NoName,      \* value of an absent owner annotation or controller reference
  Passes,      \* reconcile passes that may be under way together
  Mixes,       \* who may take part in a behaviour
  MaxVersion   \* bound: config_version of an environment

ASSUME NamesAssumption == Names # {} /\ NoName \notin Names
ASSUME EnvironmentsAssumption == Envs # {} /\ Keys \cap Foreign = {}
ASSUME NoNameAssumption == NoName \notin {<<>>} \cup (Envs \X Nat)
ASSUME BoundsAssumption == MaxVersion \in Nat

\* A mix: the passes, resources and environments of a behaviour, what users of the
\* cluster do in it, and bounds on their actions and on faults.
Users == {"spec", "remove", "delete", "write", "unstamp"}
ASSUME MixesAssumption ==
  Mixes \subseteq [passes : SUBSET Passes, names : SUBSET Names, envs : SUBSET Envs, users : SUBSET Users, edits : Nat, faults : Nat]

VARIABLES
  upstream,  \* key set of each version of each environment's configuration
  res,       \* the HimitsuSecret resources: spec and status
  target,    \* the target Secret
  altered,   \* history: keys others changed since a pass wrote the target, its stamp left in place
  pass,      \* the reconcile passes
  edits,     \* user actions so far
  faults,    \* failed reads, fetches and writes so far
  mix        \* who takes part in this behaviour

vars == <<upstream, res, target, altered, pass, edits, faults, mix>>

-----------------------------------------------------------------------------
(* Objects. *)

Policies == {"Owner", "Merge"}

\* A resource: metadata.generation, the spec, and of the status ConfigVersion and
\* ObservedGeneration.
Resource == [exists : BOOLEAN, gen : Nat, env : Envs, policy : Policies, ver : Nat, observed : Nat]

\* A data key is absent (NoName), or holds a value: the environment and version it
\* was fetched at, or what another party wrote.
DataKeys == Keys \cup Foreign
Other == <<>>
Values == {NoName, Other} \cup (Envs \X Nat)
Present(data) == {k \in DataKeys : data[k] # NoName}

\* The target: annotations owner, config-version and managed-keys, the data, and
\* the controller reference.
Owners == Names \cup {NoName}
Secret == [exists : BOOLEAN, owner : Owners, stamp : Nat, managed : SUBSET Keys, data : [DataKeys -> Values], ctrl : Owners]
NoTarget == [exists |-> FALSE, owner |-> NoName, stamp |-> 0, managed |-> {}, data |-> [k \in DataKeys |-> NoName], ctrl |-> NoName]

\* RuntimeConfig: the current version of an environment and its secrets.
Version(e) == Len(upstream[e])
Config(e, v) == [k \in DataKeys |-> IF v # 0 /\ k \in upstream[e][v] THEN <<e, v>> ELSE NoName]

\* A pass that has read nothing.
Unread == [exists |-> FALSE, gen |-> 0, env |-> CHOOSE e \in Envs : TRUE, policy |-> "Owner", ver |-> 0, observed |-> 0]
Idle == [pc |-> "idle", name |-> NoName, snap |-> Unread, seen |-> NoTarget, known |-> 0, got |-> 0,
         freshRes |-> FALSE, freshTarget |-> FALSE]

-----------------------------------------------------------------------------
(* Writes. *)

\* The target becomes new, in which others have altered keys; passes that read
\* something else now hold a stale copy.
SetTarget(new, keys, others) ==
  /\ target' = new
  /\ altered' = keys
  /\ pass' = [p \in Passes |-> [others[p] EXCEPT !.freshTarget = @ /\ new = target]]

\* Resource n becomes new.
SetResource(n, new, others) ==
  /\ res' = [res EXCEPT ![n] = new]
  /\ pass' = [p \in Passes |-> [others[p] EXCEPT !.freshRes = @ /\ others[p].name # n]]

Goto(p, label) == pass' = [pass EXCEPT ![p].pc = label]

-----------------------------------------------------------------------------
(* Reconcile. *)

\* r.Get of the resource.
Load(p, n) ==
  /\ p \in mix.passes
  /\ pass[p].pc = "idle"
  /\ res[n].exists
  /\ pass' = [pass EXCEPT ![p] = [Idle EXCEPT !.pc = "target", !.name = n, !.snap = res[n], !.freshRes = TRUE]]
  /\ UNCHANGED <<upstream, res, target, altered, edits, faults, mix>>

\* checkOwnership: another resource's annotation is a conflict.
Conflicts(p, t) == t.exists /\ t.owner \notin {NoName, pass[p].name}

\* Mutants: the target's stamp is not compared; the generation is not.
KnownVersionAnySpec(p, t) ==
  LET r == pass[p].snap IN
  IF t.exists /\ r.ver > 0 /\ t.stamp = r.ver THEN r.ver ELSE 0

KnownVersionUnstamped(p, t) ==
  LET r == pass[p].snap IN
  IF t.exists /\ r.ver > 0 /\ r.observed = r.gen THEN r.ver ELSE 0

\* The version a conditional request may name, 0 for a full fetch.
KnownVersion(p, t) ==
  LET r == pass[p].snap IN
  IF t.exists /\ r.ver > 0 /\ r.observed = r.gen /\ t.stamp = r.ver THEN r.ver ELSE 0

\* loadTarget, checkOwnership, knownVersion.
LoadTarget(p) ==
  /\ pass[p].pc = "target"
  /\ pass' = [pass EXCEPT ![p] = [@ EXCEPT !.pc = IF Conflicts(p, target) THEN "fail" ELSE "fetch",
                                            !.seen = target, !.freshTarget = TRUE,
                                            !.known = KnownVersion(p, target)]]
  /\ UNCHANGED <<upstream, res, target, altered, edits, faults, mix>>

\* RuntimeConfig answers 304 or the whole configuration.
Fetch(p) ==
  LET v == Version(pass[p].snap.env) IN
  /\ pass[p].pc = "fetch"
  /\ pass' = [pass EXCEPT ![p] = [@ EXCEPT !.got = v, !.pc = IF pass[p].known # 0 /\ pass[p].known = v THEN "succeed" ELSE "write"]]
  /\ UNCHANGED <<upstream, res, target, altered, edits, faults, mix>>

\* Mutant: keys an earlier pass wrote are never dropped.
MergedKeepsStale(old, rendered, policy) ==
  [k \in DataKeys |-> IF k \in Present(rendered) \/ policy = "Owner" THEN rendered[k] ELSE old.data[k]]

\* The data after a write of rendered: all of it under Owner; under Merge, what
\* was there without the previously managed keys that are gone upstream.
Merged(old, rendered, policy) ==
  [k \in DataKeys |-> IF k \in Present(rendered) \cup old.managed \/ policy = "Owner" THEN rendered[k] ELSE old.data[k]]

\* The Secret writeTarget prepares from what loadTarget read.  Under Merge the
\* controller reference is left as it was.
Prepared(p) ==
  LET q == pass[p]
      rendered == Config(q.snap.env, q.got) IN
  [exists |-> TRUE, owner |-> q.name, stamp |-> q.got, managed |-> Present(rendered),
   data |-> Merged(q.seen, rendered, q.snap.policy),
   ctrl |-> IF q.snap.policy = "Owner" THEN q.name ELSE q.seen.ctrl]

\* Mutant: a forced update.
AcceptedForced(p) == pass[p].seen.exists => target.exists

\* The API server accepts the write: a Create when there is no Secret, an Update
\* of the Secret that was read.
Accepted(p) == IF pass[p].seen.exists THEN target.exists /\ pass[p].freshTarget ELSE ~target.exists

\* writeTarget: the write, a conflict that is retried at once, or, for an Update
\* of a Secret that is gone, an error.
WriteTarget(p) ==
  /\ pass[p].pc = "write"
  /\ \/ Accepted(p) /\ SetTarget(Prepared(p), {}, [pass EXCEPT ![p].pc = "succeed"])
     \/ ~Accepted(p) /\ target.exists /\ pass' = [pass EXCEPT ![p] = Idle] /\ UNCHANGED <<target, altered>>
     \/ ~Accepted(p) /\ ~target.exists /\ Goto(p, "fail") /\ UNCHANGED <<target, altered>>
  /\ UNCHANGED <<upstream, res, edits, faults, mix>>

\* Status().Update with the resource as read: dropped when it changed or is gone.
SetStatus(p, status) ==
  /\ \/ /\ pass[p].freshRes
        /\ SetResource(pass[p].name, status, [pass EXCEPT ![p] = Idle])
     \/ /\ ~pass[p].freshRes
        /\ pass' = [pass EXCEPT ![p] = Idle]
        /\ UNCHANGED res
  /\ UNCHANGED <<upstream, target, altered, edits, faults, mix>>

Succeed(p) ==
  /\ pass[p].pc = "succeed"
  /\ SetStatus(p, [pass[p].snap EXCEPT !.ver = pass[p].got, !.observed = pass[p].snap.gen])

Fail(p) ==
  /\ pass[p].pc = "fail"
  /\ SetStatus(p, [pass[p].snap EXCEPT !.observed = pass[p].snap.gen])

\* A read, the fetch or the write fails.
Fault(p) ==
  /\ pass[p].pc \in {"target", "fetch", "write"}
  /\ faults < mix.faults
  /\ faults' = faults + 1
  /\ Goto(p, "fail")
  /\ UNCHANGED <<upstream, res, target, altered, edits, mix>>

\* The write is made, but its answer is lost: the pass takes it for a failure.
LoseAnswer(p) ==
  /\ pass[p].pc = "write"
  /\ Accepted(p)
  /\ faults < mix.faults
  /\ faults' = faults + 1
  /\ SetTarget(Prepared(p), {}, [pass EXCEPT ![p].pc = "fail"])
  /\ UNCHANGED <<upstream, res, edits, mix>>

\* The operator stops in the middle of a pass.
Crash(p) ==
  /\ pass[p].pc # "idle"
  /\ faults < mix.faults
  /\ faults' = faults + 1
  /\ pass' = [pass EXCEPT ![p] = Idle]
  /\ UNCHANGED <<upstream, res, target, altered, edits, mix>>

-----------------------------------------------------------------------------
(* Himitsu, users and Kubernetes. *)

\* The environment's configuration changes, and with it its config_version.
Publish(e) ==
  /\ e \in mix.envs
  /\ Version(e) < MaxVersion
  /\ \E ks \in SUBSET Keys : upstream' = [upstream EXCEPT ![e] = Append(@, ks)]
  /\ UNCHANGED <<res, target, altered, pass, edits, faults, mix>>

Edit(user) == user \in mix.users /\ edits < mix.edits /\ edits' = edits + 1

EditSpec(n) ==
  /\ Edit("spec")
  /\ res[n].exists
  /\ \E e \in mix.envs, policy \in Policies :
       /\ <<e, policy>> # <<res[n].env, res[n].policy>>
       /\ SetResource(n, [res[n] EXCEPT !.gen = @ + 1, !.env = e, !.policy = policy], pass)
  /\ UNCHANGED <<upstream, target, altered, faults, mix>>

DeleteTarget ==
  /\ Edit("delete")
  /\ target.exists
  /\ SetTarget(NoTarget, {}, pass)
  /\ UNCHANGED <<upstream, res, faults, mix>>

\* Another party sets or removes a key, its own or one of the configuration, or
\* makes a new Secret; the annotations stay.
WriteOther ==
  /\ Edit("write")
  /\ \E k \in DataKeys, value \in {NoName, Other} :
       /\ target.data[k] # value
       /\ SetTarget([target EXCEPT !.exists = TRUE, !.data[k] = value], IF target.stamp = 0 THEN {} ELSE altered \cup {k}, pass)
  /\ UNCHANGED <<upstream, res, faults, mix>>

\* Somebody removes the config-version annotation.
Unstamp ==
  /\ Edit("unstamp")
  /\ target.stamp # 0
  /\ SetTarget([target EXCEPT !.stamp = 0], {}, pass)
  /\ UNCHANGED <<upstream, res, faults, mix>>

RemoveResource(n) ==
  /\ Edit("remove")
  /\ res[n].exists
  /\ SetResource(n, [res[n] EXCEPT !.exists = FALSE], pass)
  /\ UNCHANGED <<upstream, target, altered, faults, mix>>

\* Kubernetes deletes a Secret whose controller is gone.
CollectGarbage ==
  /\ target.ctrl # NoName
  /\ ~res[target.ctrl].exists
  /\ SetTarget(NoTarget, {}, pass)
  /\ UNCHANGED <<upstream, res, edits, faults, mix>>

-----------------------------------------------------------------------------
Continue(p) == LoadTarget(p) \/ Fetch(p) \/ WriteTarget(p) \/ Succeed(p) \/ Fail(p)

Next ==
  \/ \E p \in Passes : (\E n \in Names : Load(p, n)) \/ Continue(p) \/ Fault(p) \/ LoseAnswer(p) \/ Crash(p)
  \/ \E e \in Envs : Publish(e)
  \/ \E n \in Names : EditSpec(n) \/ RemoveResource(n)
  \/ DeleteTarget \/ WriteOther \/ Unstamp \/ CollectGarbage

Created == [exists : {TRUE}, gen : {1}, env : Envs, policy : Policies, ver : {0}, observed : {0}]

Init ==
  /\ upstream = [e \in Envs |-> <<Keys>>]
  /\ mix \in Mixes
  /\ res \in [Names -> Created \cup {Unread}]
  /\ \A n \in Names : IF n \in mix.names THEN res[n] \in Created /\ res[n].env \in mix.envs ELSE res[n] = Unread
  /\ target = NoTarget
  /\ altered = {}
  /\ pass = [p \in Passes |-> Idle]
  /\ edits = 0
  /\ faults = 0

Spec == Init /\ [][Next]_vars

\* A pass that runs goes on, the work queue brings up every resource again and
\* again (RequeueAfter) for one of the passes, and the garbage collector runs.
FairSpec ==
  /\ Spec
  /\ \A p \in Passes : WF_vars(Continue(p))
  /\ \A n \in Names : SF_vars(\E p \in Passes : Load(p, n))
  /\ WF_vars(CollectGarbage)

-----------------------------------------------------------------------------
(* Properties. *)

Labels == {"idle", "target", "fetch", "write", "succeed", "fail"}
Pass == [pc : Labels, name : Owners, snap : Resource, seen : Secret, known : Nat, got : Nat,
         freshRes : BOOLEAN, freshTarget : BOOLEAN]

\* Every variable has its type.
OperatorTypeOK ==
  /\ upstream \in [Envs -> Seq(SUBSET Keys)]
  /\ res \in [Names -> Resource]
  /\ target \in Secret
  /\ altered \subseteq DataKeys
  /\ pass \in [Passes -> Pass]
  /\ edits \in Nat /\ faults \in Nat
  /\ mix \in Mixes

\* A pass that may write saw a Secret it need not refuse, and while its copy is
\* fresh that is still the Secret; what it fetched has been published.
PassSound(p) ==
  /\ pass[p].pc \in {"fetch", "write"} =>
       /\ ~Conflicts(p, pass[p].seen)
       /\ pass[p].freshTarget => pass[p].seen = target
       /\ ~pass[p].seen.exists => Present(pass[p].seen.data) = {}
  /\ pass[p].pc = "write" => pass[p].got <= Version(pass[p].snap.env)

\* The inductive invariant behind OwnerKept and ForeignKept.
OperatorInv ==
  /\ OperatorTypeOK
  /\ ~target.exists => Present(target.data) = {}
  /\ \A p \in Passes : PassSound(p)

\* A key has the value the configuration wants; under Merge another party's key may
\* stand where the configuration has none.
Agrees(value, wanted, policy) == value = wanted \/ (policy = "Merge" /\ wanted = NoName /\ value = Other)

\* Except for what others altered under its stamp, the target holds the configuration
\* at version v of the environment of r.
Holds(r, v) == \A k \in DataKeys \ altered : Agrees(target.data[k], Config(r.env, v)[k], r.policy)

\* A pass for n that reads resource and target now would send If-None-Match.
Conditional(n) ==
  /\ res[n].exists /\ target.exists /\ target.owner \in {NoName, n}
  /\ res[n].ver > 0 /\ res[n].observed = res[n].gen /\ target.stamp = res[n].ver

\* A conditional request is safe: it names a version whose configuration the target
\* holds, so that a 304 leaves the right data in place (knownVersion in Reconcile).
\* Keys others altered while the stamp stayed are excused; EditsNoticed is about them.
ConditionalSafe == \A n \in Names : Conditional(n) => Holds(res[n], res[n].ver)

\* What versionStampOf says of a target that was edited by hand: it forces a full
\* fetch, so no conditional request goes out while any key differs.
EditsNoticed ==
  \A n \in Names : Conditional(n) =>
    \A k \in DataKeys : Agrees(target.data[k], Config(res[n].env, res[n].ver)[k], res[n].policy)

-----------------------------------------------------------------------------
(* Why a conditional request is safe, where it is: when no spec is edited, or *)
(* when one leader runs without a fault.                                      *)

\* A Secret records what passes wrote: their keys are managed, a stamp has an owner.
Recorded(t) ==
  /\ \A k \in DataKeys : t.data[k] \in Envs \X Nat => k \in t.managed
  /\ t.owner = NoName => t.stamp = 0

\* So do the target and the copies of it that passes write from.
AllRecorded == Recorded(target) /\ \A p \in Passes : pass[p].pc \in {"fetch", "write"} => Recorded(pass[p].seen)

\* The target holds the configuration for r at the version it is stamped with.
StampedFor(r) == target.stamp # 0 => target.stamp <= Version(r.env) /\ Holds(r, target.stamp)

\* Two resources want the same data of a version.
SameSpec(r, s) == r.env = s.env /\ r.policy = s.policy

\* No spec is edited: a pass works by the spec its resource has, and the target holds
\* what its owner's asks for.
UneditedInv ==
  /\ AllRecorded
  /\ \A p \in Passes : pass[p].pc # "idle" => pass[p].name \in Names /\ SameSpec(pass[p].snap, res[pass[p].name])
  /\ target.owner # NoName => StampedFor(res[target.owner])

\* The pass of the only leader: unless its resource has a generation nobody observed,
\* it works by the resource's spec.  As long as the resource is the one it read, what
\* it is about to report as observed is what the target holds, if that is its own.
LeaderSound(p) ==
  LET q == pass[p]
      r == res[q.name] IN
  q.pc # "idle" =>
    /\ q.name \in Names
    /\ r.observed = r.gen => SameSpec(q.snap, r)
    /\ q.freshRes =>
         /\ q.snap = r
         /\ q.pc = "fetch" /\ q.known # 0 => r.observed = r.gen
         /\ q.pc = "succeed" /\ target.owner = q.name => StampedFor(r)
         /\ q.pc = "fail" => target.owner # q.name

\* One leader without faults: a generation that was observed is what the target holds.
OneLeaderInv ==
  /\ AllRecorded
  /\ ~target.exists => target.owner = NoName
  /\ \A p \in Passes : LeaderSound(p)
  /\ \A n \in Names :
       /\ res[n].observed <= res[n].gen
       /\ target.owner = n /\ res[n].observed = res[n].gen => StampedFor(res[n])

\* The two kinds of mixes, and the invariant: what holds in all, and in each.
Unedited(m) == "spec" \notin m.users
OneLeader(m) == m.faults = 0 /\ \E p \in Passes : m.passes = {p}

\* The inductive invariant behind ConditionalSafe (Reconcile, knownVersion).
ConditionalInv ==
  /\ OperatorInv
  /\ \A p \in Passes : pass[p].pc # "idle" => p \in mix.passes
  /\ Unedited(mix) => UneditedInv
  /\ OneLeader(mix) => OneLeaderInv

-----------------------------------------------------------------------------
(* Promises of single steps, and of what they come to. *)

\* In this step p writes the target and goes on.
Writes(p) == pass[p].pc = "write" /\ pass'[p].pc # "write" /\ target' # target

\* A pass writes a Secret that nobody manages, or that its own resource manages,
\* at the moment of the write (checkOwnership is made on an earlier read).
OwnerKept ==
  [][\A p \in Passes : Writes(p) /\ target.exists => target.owner \in {NoName, pass[p].name}]_vars

\* A pass under Merge keeps the keys of other parties, also those added since it
\* read the Secret (writeTarget).
ForeignKept ==
  [][\A p \in Passes : Writes(p) /\ pass[p].snap.policy = "Merge" =>
       \A k \in Foreign : target'.data[k] = target.data[k]]_vars

\* Once Himitsu, users and faults are quiet, the target comes to hold the current
\* configuration of the resource that manages it, and stays so (Reconcile, with its
\* conflicts, retries and conditional requests).  A target whose stamp is gone is
\* repaired in full; keys altered under the stamp are excused, as in ConditionalSafe.
Converges ==
  <>[]((\E n \in Names : res[n].exists) =>
        /\ target.exists /\ target.owner # NoName
        /\ LET r == res[target.owner] IN r.exists => Holds(r, Version(r.env)))
=============================================================================
