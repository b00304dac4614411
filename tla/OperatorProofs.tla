--------------------------- MODULE OperatorProofs ---------------------------
(***************************************************************************)
(* Theorems about Operator: its inductive invariant, what a write of a     *)
(* pass may do to a Secret that others manage or write to, and when a      *)
(* conditional request is safe.                                            *)
(***************************************************************************)
EXTENDS Operator, TLAPS

USE DEF DataKeys, Owners

-----------------------------------------------------------------------------
(* Lemmas about the operators. *)

\* A configuration is data of configuration keys only.
LEMMA ConfigType ==
  ASSUME upstream \in [Envs -> Seq(SUBSET Keys)], NEW e \in Envs, NEW v \in Nat, v <= Version(e)
  PROVE  /\ Config(e, v) \in [DataKeys -> Values]
         /\ Present(Config(e, v)) \subseteq Keys
<1>1. v # 0 => upstream[e][v] \subseteq Keys
  <2>1. upstream[e] \in Seq(SUBSET Keys) OBVIOUS
  <2>2. v # 0 => v \in 1 .. Len(upstream[e]) BY DEF Version
  <2> QED BY <2>1, <2>2
<1>2. <<e, v>> \in Envs \X Nat OBVIOUS
<1>3. Config(e, v) \in [DataKeys -> Values] BY <1>2 DEF Config, Values
<1>4. Present(Config(e, v)) \subseteq Keys BY <1>1 DEF Config, Present
<1> QED BY <1>3, <1>4

\* A write leaves data, and touches no key of another party under Merge.
LEMMA MergedType ==
  ASSUME NEW old \in Secret, NEW rendered \in [DataKeys -> Values], Present(rendered) \subseteq Keys, NEW policy
  PROVE  /\ Merged(old, rendered, policy) \in [DataKeys -> Values]
         /\ policy = "Merge" => \A k \in Foreign : Merged(old, rendered, policy)[k] = old.data[k]
<1>1. old.data \in [DataKeys -> Values] /\ old.managed \subseteq Keys BY DEF Secret
<1>2. Merged(old, rendered, policy) \in [DataKeys -> Values] BY <1>1 DEF Merged
<1>3. ASSUME policy = "Merge", NEW k \in Foreign PROVE Merged(old, rendered, policy)[k] = old.data[k]
  <2>1. k \notin Present(rendered) \cup old.managed BY <1>1, EnvironmentsAssumption
  <2> QED BY <1>3, <2>1 DEF Merged
<1> QED BY <1>2, <1>3

\* What a pass prepares is a Secret with the pass's own annotations.
LEMMA PreparedType ==
  ASSUME OperatorInv, NEW p \in Passes, pass[p].pc = "write"
  PROVE  /\ Prepared(p) \in Secret
         /\ Prepared(p).exists
         /\ pass[p].snap.policy = "Merge" => \A k \in Foreign : Prepared(p).data[k] = pass[p].seen.data[k]
<1> DEFINE q == pass[p]
           rendered == Config(q.snap.env, q.got)
<1>1. q \in Pass BY DEF OperatorInv, OperatorTypeOK
<1>2. q.snap \in Resource /\ q.seen \in Secret /\ q.got \in Nat /\ q.name \in Owners BY <1>1 DEF Pass
<1>3. q.snap.env \in Envs BY <1>2 DEF Resource
<1>4. q.got <= Version(q.snap.env) BY DEF OperatorInv, PassSound
<1>5. rendered \in [DataKeys -> Values] /\ Present(rendered) \subseteq Keys
  BY <1>2, <1>3, <1>4, ConfigType DEF OperatorInv, OperatorTypeOK
<1> DEFINE data == Merged(q.seen, rendered, q.snap.policy)
<1>6. /\ data \in [DataKeys -> Values]
      /\ q.snap.policy = "Merge" => \A k \in Foreign : data[k] = q.seen.data[k]
  <2> HIDE DEF rendered, q
  <2> QED BY <1>2, <1>5, MergedType
<1>7. Prepared(p) = [exists |-> TRUE, owner |-> q.name, stamp |-> q.got, managed |-> Present(rendered), data |-> data,
                     ctrl |-> IF q.snap.policy = "Owner" THEN q.name ELSE q.seen.ctrl]
  BY DEF Prepared
<1>8. q.seen.ctrl \in Owners BY <1>2 DEF Secret
<1> HIDE DEF q, rendered, data
<1>9. Prepared(p) \in Secret BY <1>2, <1>5, <1>6, <1>7, <1>8 DEF Secret
<1> QED BY <1>6, <1>7, <1>9 DEF q


LEMMA NoTargetType == NoTarget \in Secret /\ ~NoTarget.exists /\ Present(NoTarget.data) = {}
BY DEF NoTarget, Secret, Present, Values

LEMMA IdleType == Idle \in Pass /\ Idle.pc = "idle"
<1>1. Unread \in Resource BY EnvironmentsAssumption DEF Unread, Resource, Policies
<1>2. NoTarget \in Secret BY NoTargetType
<1> QED BY <1>1, <1>2 DEF Idle, Pass, Labels

-----------------------------------------------------------------------------
(* What a step does to the invariant. *)

\* The pass reads the same and has the same left to write.
SamePass(old, new) ==
  /\ new.pc = old.pc /\ new.name = old.name /\ new.snap = old.snap /\ new.seen = old.seen /\ new.got = old.got
  /\ new.freshTarget = old.freshTarget

\* A pass that is not about to write, or goes on as before, stays sound while the
\* target is left alone.
LEMMA StaysSound ==
  ASSUME OperatorInv, NEW p \in Passes, UNCHANGED <<target, upstream>>,
         SamePass(pass[p], pass'[p]) \/ pass'[p].pc \notin {"fetch", "write"}
  PROVE  PassSound(p)'
<1>1. CASE pass'[p].pc \notin {"fetch", "write"} BY <1>1 DEF PassSound
<1>2. CASE SamePass(pass[p], pass'[p])
  <2>1. PassSound(p) BY DEF OperatorInv
  <2> QED BY <1>2, <2>1 DEF PassSound, SamePass, Conflicts, Version
<1> QED BY <1>1, <1>2

\* A step that changes one pass and nothing it or others rely on.
LEMMA OnePassStep ==
  ASSUME OperatorInv, NEW p \in Passes, NEW q \in Pass,
         pass' = [pass EXCEPT ![p] = q], UNCHANGED <<upstream, target, altered, edits, mix>>,
         res' \in [Names -> Resource], faults' \in Nat, PassSound(p)'
  PROVE  OperatorInv'
<1>1. pass' \in [Passes -> Pass] BY DEF OperatorInv, OperatorTypeOK
<1>2. ASSUME NEW r \in Passes PROVE PassSound(r)'
  <2>1. CASE r = p BY <2>1
  <2>2. CASE r # p
    <3>1. pass'[r] = pass[r] BY <2>2 DEF OperatorInv, OperatorTypeOK
    <3> QED BY <3>1, StaysSound DEF SamePass
  <2> QED BY <2>1, <2>2
<1> QED BY <1>1, <1>2 DEF OperatorInv, OperatorTypeOK

\* A step that writes the target; a pass that read something else is stale now.
LEMMA TargetStep ==
  ASSUME OperatorInv, NEW new \in Secret, NEW keys \in SUBSET DataKeys, NEW others \in [Passes -> Pass],
         SetTarget(new, keys, others), UNCHANGED <<upstream, res, mix>>, edits' \in Nat, faults' \in Nat,
         ~new.exists => Present(new.data) = {},
         \A p \in Passes : others[p] = pass[p] \/ others[p].pc \notin {"fetch", "write"}
  PROVE  OperatorInv'
<1>1. ASSUME NEW p \in Passes
      PROVE  /\ pass'[p] \in Pass
             /\ pass'[p].freshTarget = (others[p].freshTarget /\ new = target)
             /\ pass'[p].pc = others[p].pc /\ pass'[p].name = others[p].name /\ pass'[p].snap = others[p].snap
             /\ pass'[p].seen = others[p].seen /\ pass'[p].got = others[p].got
  <2>1. pass'[p] = [others[p] EXCEPT !.freshTarget = @ /\ new = target] BY DEF SetTarget
  <2>2. others[p] \in Pass OBVIOUS
  <2>3. others[p].freshTarget \in BOOLEAN BY <2>2 DEF Pass
  <2>4. (others[p].freshTarget /\ new = target) \in BOOLEAN OBVIOUS
  <2> DEFINE fresh == others[p].freshTarget /\ new = target
  <2>5. pass'[p] = [others[p] EXCEPT !.freshTarget = fresh] BY <2>1
  <2> HIDE DEF fresh
  <2>6. fresh \in BOOLEAN BY <2>4 DEF fresh
  <2>7. pass'[p].freshTarget = fresh BY <2>2, <2>5 DEF Pass
  <2> QED BY <2>2, <2>5, <2>6, <2>7, Zenon DEF Pass, fresh
<1>2. pass' \in [Passes -> Pass] BY <1>1 DEF SetTarget
<1>3. target' = new /\ altered' \in SUBSET DataKeys BY DEF SetTarget
<1>4. ASSUME NEW p \in Passes PROVE PassSound(p)'
  <2>1. CASE others[p].pc \notin {"fetch", "write"} BY <1>1, <2>1 DEF PassSound
  <2>2. CASE others[p] = pass[p]
    <3>1. PassSound(p) BY DEF OperatorInv
    <3>2. pass'[p].freshTarget => pass[p].freshTarget /\ target' = target BY <1>1, <1>3, <2>2
    <3> QED BY <1>1, <2>2, <3>1, <3>2 DEF PassSound, Conflicts, Version
  <2> QED BY <2>1, <2>2
<1> QED BY <1>2, <1>3, <1>4 DEF OperatorInv, OperatorTypeOK

\* A step that writes a resource; the target and what passes saw of it stay.
LEMMA ResourceStep ==
  ASSUME OperatorInv, NEW n \in Owners, NEW new \in Resource, NEW others \in [Passes -> Pass],
         SetResource(n, new, others), UNCHANGED <<upstream, target, altered, faults, mix>>, edits' \in Nat,
         \A p \in Passes : others[p] = pass[p] \/ others[p].pc \notin {"fetch", "write"}
  PROVE  OperatorInv'
<1>1. ASSUME NEW p \in Passes
      PROVE  /\ pass'[p] \in Pass
             /\ SamePass(others[p], pass'[p])
  <2> DEFINE fresh == others[p].freshRes /\ others[p].name # n
  <2>1. pass'[p] = [others[p] EXCEPT !.freshRes = fresh] BY DEF SetResource
  <2>2. others[p] \in Pass OBVIOUS
  <2>3. fresh \in BOOLEAN OBVIOUS
  <2> HIDE DEF fresh
  <2>4. pass'[p] \in Pass BY <2>1, <2>2, <2>3 DEF Pass
  <2>5. SamePass(others[p], pass'[p]) BY <2>1, <2>2 DEF Pass, SamePass
  <2> QED BY <2>4, <2>5
<1>2. pass' \in [Passes -> Pass] BY <1>1 DEF SetResource
<1>3. res' \in [Names -> Resource] BY DEF SetResource, OperatorInv, OperatorTypeOK
<1>4. ASSUME NEW p \in Passes PROVE PassSound(p)'
  <2>1. SamePass(pass[p], pass'[p]) \/ pass'[p].pc \notin {"fetch", "write"} BY <1>1 DEF SamePass
  <2> QED BY <2>1, StaysSound
<1> QED BY <1>2, <1>3, <1>4 DEF OperatorInv, OperatorTypeOK


-----------------------------------------------------------------------------
(* Actions. *)

LEMMA PassType ==
  ASSUME OperatorInv, NEW p \in Passes
  PROVE  /\ pass[p] \in Pass /\ pass[p].snap \in Resource /\ pass[p].seen \in Secret /\ pass[p].name \in Owners
         /\ pass[p].got \in Nat
         /\ \A label \in Labels : [pass EXCEPT ![p].pc = label] \in [Passes -> Pass]
         /\ [pass EXCEPT ![p] = Idle] \in [Passes -> Pass]
BY IdleType DEF OperatorInv, OperatorTypeOK, Pass

LEMMA LoadInv == ASSUME OperatorInv, NEW p \in Passes, NEW n \in Names, Load(p, n) PROVE OperatorInv'
<1> DEFINE q == [Idle EXCEPT !.pc = "target", !.name = n, !.snap = res[n], !.freshRes = TRUE]
<1>1. res[n] \in Resource BY DEF OperatorInv, OperatorTypeOK
<1>2. q \in Pass BY <1>1, IdleType DEF Pass, Labels
<1>3. q.pc = "target" BY IdleType DEF Pass
<1>4. pass' = [pass EXCEPT ![p] = q] BY DEF Load
<1> HIDE DEF q
<1>5. pass'[p] = q BY <1>4 DEF OperatorInv, OperatorTypeOK
<1>6. PassSound(p)' BY <1>3, <1>5 DEF PassSound
<1> QED BY <1>2, <1>4, <1>6, OnePassStep DEF Load, OperatorInv, OperatorTypeOK

LEMMA LoadTargetInv == ASSUME OperatorInv, NEW p \in Passes, LoadTarget(p) PROVE OperatorInv'
<1> DEFINE label == IF Conflicts(p, target) THEN "fail" ELSE "fetch"
           known == KnownVersion(p, target)
           q == [pass[p] EXCEPT !.pc = label, !.seen = target, !.freshTarget = TRUE, !.known = known]
<1>1. pass[p] \in Pass /\ pass[p].snap \in Resource BY PassType
<1>2. target \in Secret BY DEF OperatorInv, OperatorTypeOK
<1>3. known \in Nat BY <1>1 DEF KnownVersion, Resource
<1>4. label \in Labels BY DEF Labels
<1>5. pass' = [pass EXCEPT ![p] = q] BY DEF LoadTarget
<1>6. label # "write" /\ (label = "fetch" => ~Conflicts(p, target)) OBVIOUS
<1> HIDE DEF known, label
<1>7. q \in Pass BY <1>1, <1>2, <1>3, <1>4 DEF Pass
<1>8. q.pc = label /\ q.seen = target /\ q.name = pass[p].name BY <1>1 DEF Pass
<1> HIDE DEF q
<1>9. pass'[p] = q /\ target' = target BY <1>5 DEF OperatorInv, OperatorTypeOK, LoadTarget
<1>10. ~target.exists => Present(target.data) = {} BY DEF OperatorInv
<1>11. PassSound(p)' BY <1>6, <1>8, <1>9, <1>10 DEF PassSound, Conflicts
<1> QED BY <1>5, <1>7, <1>11, OnePassStep DEF LoadTarget, OperatorInv, OperatorTypeOK

LEMMA FetchInv == ASSUME OperatorInv, NEW p \in Passes, Fetch(p) PROVE OperatorInv'
<1> DEFINE v == Version(pass[p].snap.env)
           label == IF pass[p].known # 0 /\ pass[p].known = v THEN "succeed" ELSE "write"
           q == [pass[p] EXCEPT !.got = v, !.pc = label]
<1>1. pass[p] \in Pass /\ pass[p].snap \in Resource BY PassType
<1>2. v \in Nat
  <2>1. pass[p].snap.env \in Envs BY <1>1 DEF Resource
  <2>2. upstream[pass[p].snap.env] \in Seq(SUBSET Keys) BY <2>1 DEF OperatorInv, OperatorTypeOK
  <2> QED BY <2>2 DEF Version
<1>3. label \in Labels BY DEF Labels
<1>4. pass' = [pass EXCEPT ![p] = q] BY DEF Fetch
<1> HIDE DEF label
<1>5. /\ q.got = v /\ q.name = pass[p].name /\ q.snap = pass[p].snap /\ q.seen = pass[p].seen
      /\ q.freshTarget = pass[p].freshTarget
  BY <1>1 DEF Pass
<1>6. q \in Pass BY <1>1, <1>2, <1>3 DEF Pass
<1> HIDE DEF q
<1>7. pass'[p] = q /\ UNCHANGED <<target, upstream>> BY <1>4 DEF OperatorInv, OperatorTypeOK, Fetch
<1>8. pass[p].pc = "fetch" /\ PassSound(p) BY DEF OperatorInv, Fetch
<1>9. PassSound(p)'
  <2>1. ~Conflicts(p, pass[p].seen)' BY <1>5, <1>7, <1>8 DEF PassSound, Conflicts
  <2>2. (pass[p].freshTarget => pass[p].seen = target)' BY <1>5, <1>7, <1>8 DEF PassSound
  <2>3. (~pass[p].seen.exists => Present(pass[p].seen.data) = {})' BY <1>5, <1>7, <1>8 DEF PassSound
  <2>4. (pass[p].got <= Version(pass[p].snap.env))' BY <1>2, <1>5, <1>7 DEF Version
  <2> QED BY <2>1, <2>2, <2>3, <2>4 DEF PassSound
<1> QED BY <1>4, <1>6, <1>9, OnePassStep DEF Fetch, OperatorInv, OperatorTypeOK

\* A pass that gives up or fails is not about to write.
LEMMA LeaveInv ==
  ASSUME OperatorInv, NEW p \in Passes, UNCHANGED <<upstream, res, target, altered, edits, mix>>, faults' \in Nat,
         pass' = [pass EXCEPT ![p] = Idle] \/ Goto(p, "fail")
  PROVE  OperatorInv'
<1>1. CASE pass' = [pass EXCEPT ![p] = Idle]
  <2>1. pass'[p] = Idle BY <1>1 DEF OperatorInv, OperatorTypeOK
  <2>2. PassSound(p)' BY <2>1, IdleType DEF PassSound
  <2> QED BY <1>1, <2>2, IdleType, OnePassStep DEF OperatorInv, OperatorTypeOK
<1>2. CASE Goto(p, "fail")
  <2> DEFINE q == [pass[p] EXCEPT !.pc = "fail"]
  <2>1. q \in Pass /\ q.pc = "fail" BY PassType DEF Pass, Labels
  <2>2. pass' = [pass EXCEPT ![p] = q] BY <1>2 DEF Goto
  <2> HIDE DEF q
  <2>3. pass'[p] = q BY <2>2 DEF OperatorInv, OperatorTypeOK
  <2>4. PassSound(p)' BY <2>1, <2>3 DEF PassSound
  <2> QED BY <2>1, <2>2, <2>4, OnePassStep DEF OperatorInv, OperatorTypeOK
<1> QED BY <1>1, <1>2

\* The API server accepts the write of p, which goes on to succeed or to fail.
LEMMA AcceptedInv ==
  ASSUME OperatorInv, NEW p \in Passes, pass[p].pc = "write", NEW label \in {"succeed", "fail"},
         SetTarget(Prepared(p), {}, [pass EXCEPT ![p].pc = label]), UNCHANGED <<upstream, res, edits, mix>>, faults' \in Nat
  PROVE  OperatorInv'
<1> DEFINE others == [pass EXCEPT ![p].pc = label]
<1>1. others \in [Passes -> Pass] BY PassType DEF Labels
<1>2. \A r \in Passes : others[r] = pass[r] \/ others[r].pc \notin {"fetch", "write"}
  BY PassType DEF OperatorInv, OperatorTypeOK, Pass
<1>3. Prepared(p) \in Secret /\ Prepared(p).exists BY PreparedType
<1> HIDE DEF others
<1>4. SetTarget(Prepared(p), {}, others) BY DEF others
<1> QED BY <1>1, <1>2, <1>3, <1>4, TargetStep DEF OperatorInv, OperatorTypeOK

LEMMA WriteTargetInv == ASSUME OperatorInv, NEW p \in Passes, WriteTarget(p) PROVE OperatorInv'
<1>1. CASE SetTarget(Prepared(p), {}, [pass EXCEPT ![p].pc = "succeed"])
  BY <1>1, AcceptedInv DEF WriteTarget, OperatorInv, OperatorTypeOK
<1>2. CASE UNCHANGED <<target, altered>> /\ (pass' = [pass EXCEPT ![p] = Idle] \/ Goto(p, "fail"))
  BY <1>2, LeaveInv DEF WriteTarget, OperatorInv, OperatorTypeOK
<1> QED BY <1>1, <1>2 DEF WriteTarget

LEMMA LoseAnswerInv == ASSUME OperatorInv, NEW p \in Passes, LoseAnswer(p) PROVE OperatorInv'
<1>1. /\ pass[p].pc = "write" /\ UNCHANGED <<upstream, res, edits, mix>> /\ faults' = faults + 1
      /\ SetTarget(Prepared(p), {}, [pass EXCEPT ![p].pc = "fail"])
  BY Zenon DEF LoseAnswer
<1>2. faults' \in Nat BY <1>1 DEF OperatorInv, OperatorTypeOK
<1> QED BY <1>1, <1>2, AcceptedInv, Zenon

LEMMA SetStatusInv ==
  ASSUME OperatorInv, NEW p \in Passes, NEW status \in Resource, SetStatus(p, status)
  PROVE  OperatorInv'
<1>1. CASE SetResource(pass[p].name, status, [pass EXCEPT ![p] = Idle])
  <2> DEFINE others == [pass EXCEPT ![p] = Idle]
  <2>1. others \in [Passes -> Pass] BY PassType
  <2>2. \A r \in Passes : others[r] = pass[r] \/ others[r].pc \notin {"fetch", "write"}
    BY IdleType DEF OperatorInv, OperatorTypeOK
  <2>3. pass[p].name \in Owners BY PassType
  <2> HIDE DEF others
  <2>4. SetResource(pass[p].name, status, others) BY <1>1 DEF others
  <2> QED BY <2>1, <2>2, <2>3, <2>4, ResourceStep DEF SetStatus, OperatorInv, OperatorTypeOK
<1>2. CASE pass' = [pass EXCEPT ![p] = Idle] /\ UNCHANGED res
  BY <1>2, LeaveInv DEF SetStatus, OperatorInv, OperatorTypeOK
<1> QED BY <1>1, <1>2 DEF SetStatus

LEMMA ReportInv == ASSUME OperatorInv, NEW p \in Passes, Succeed(p) \/ Fail(p) PROVE OperatorInv'
<1>1. pass[p].snap \in Resource /\ pass[p].got \in Nat BY PassType
<1> DEFINE synced == [pass[p].snap EXCEPT !.ver = pass[p].got, !.observed = pass[p].snap.gen]
           failed == [pass[p].snap EXCEPT !.observed = pass[p].snap.gen]
<1>2. synced \in Resource /\ failed \in Resource BY <1>1 DEF Resource
<1>3. SetStatus(p, synced) \/ SetStatus(p, failed) BY DEF Succeed, Fail
<1> HIDE DEF synced, failed
<1> QED BY <1>2, <1>3, SetStatusInv

LEMMA PublishInv == ASSUME OperatorInv, NEW e \in Envs, Publish(e) PROVE OperatorInv'
<1>1. PICK ks \in SUBSET Keys : upstream' = [upstream EXCEPT ![e] = Append(@, ks)] BY DEF Publish
<1>2. upstream \in [Envs -> Seq(SUBSET Keys)] BY DEF OperatorInv, OperatorTypeOK
<1>3. upstream' \in [Envs -> Seq(SUBSET Keys)] BY <1>1, <1>2
<1>4. \A f \in Envs : Version(f) \in Nat /\ Version(f)' >= Version(f) BY <1>1, <1>2 DEF Version
<1>5. ASSUME NEW p \in Passes PROVE PassSound(p)'
  <2>1. PassSound(p) /\ UNCHANGED <<pass, target>> BY DEF OperatorInv, Publish
  <2>2. pass[p].snap.env \in Envs /\ pass[p].got \in Nat BY PassType DEF Resource
  <2>3. (pass[p].got <= Version(pass[p].snap.env)) => (pass[p].got <= Version(pass[p].snap.env))'
    BY <1>4, <2>1, <2>2 DEF Version
  <2> QED BY <2>1, <2>3 DEF PassSound, Conflicts
<1> QED BY <1>3, <1>5 DEF Publish, OperatorInv, OperatorTypeOK

\* A mix is of this instance.
LEMMA MixType == ASSUME OperatorInv PROVE mix.envs \subseteq Envs /\ mix.faults \in Nat
BY MixesAssumption DEF OperatorInv, OperatorTypeOK

\* Another party writes the data of the target, or makes it: the annotations stay,
\* and a key that differs under a stamp is altered.
LEMMA OtherWrite ==
  ASSUME OperatorInv, WriteOther
  PROVE  \E new \in Secret, keys \in SUBSET DataKeys :
           /\ SetTarget(new, keys, pass)
           /\ new.exists /\ new.owner = target.owner /\ new.stamp = target.stamp /\ new.managed = target.managed
           /\ \A k \in DataKeys : new.data[k] = target.data[k] \/ new.data[k] \in {NoName, Other}
           /\ target.stamp # 0 => altered \subseteq keys /\ \A k \in DataKeys \ keys : new.data[k] = target.data[k]
<1>1. PICK k \in DataKeys, value \in {NoName, Other} :
        SetTarget([target EXCEPT !.exists = TRUE, !.data[k] = value], IF target.stamp = 0 THEN {} ELSE altered \cup {k}, pass)
  BY Zenon DEF WriteOther
<1> DEFINE data == [target.data EXCEPT ![k] = value]
           new == [target EXCEPT !.exists = TRUE, !.data = data]
           keys == IF target.stamp = 0 THEN {} ELSE altered \cup {k}
<1>2. target \in Secret /\ altered \subseteq DataKeys BY DEF OperatorInv, OperatorTypeOK
<1>3. /\ data \in [DataKeys -> Values]
      /\ \A l \in DataKeys : data[l] = IF l = k THEN value ELSE target.data[l]
  BY <1>2 DEF Secret, Values
<1>4. SetTarget(new, keys, pass) BY <1>1
<1>5. keys \in SUBSET DataKeys /\ (target.stamp # 0 => altered \subseteq keys /\ k \in keys) BY <1>2
<1> HIDE DEF data, keys
<1>6. /\ new \in Secret /\ new.exists /\ new.owner = target.owner /\ new.stamp = target.stamp
      /\ new.managed = target.managed /\ new.data = data
  BY <1>2, <1>3 DEF Secret
<1> HIDE DEF new
<1>7. \A l \in DataKeys : new.data[l] = target.data[l] \/ new.data[l] \in {NoName, Other} BY <1>3, <1>6
<1>8. target.stamp # 0 => altered \subseteq keys /\ \A l \in DataKeys \ keys : new.data[l] = target.data[l]
  BY <1>3, <1>5, <1>6
<1> QED BY <1>4, <1>5, <1>6, <1>7, <1>8

\* Somebody removes the stamp: the data and the other annotations stay.
LEMMA UnstampWrite ==
  ASSUME OperatorInv, Unstamp
  PROVE  \E new \in Secret, keys \in SUBSET DataKeys :
           /\ SetTarget(new, keys, pass)
           /\ new.exists = target.exists /\ new.owner = target.owner /\ new.stamp = 0 /\ new.managed = target.managed
           /\ new.data = target.data /\ (~new.exists => Present(new.data) = {})
<1> DEFINE new == [target EXCEPT !.stamp = 0]
<1>1. target \in Secret /\ (~target.exists => Present(target.data) = {}) BY DEF OperatorInv, OperatorTypeOK
<1>2. /\ new \in Secret /\ new.exists = target.exists /\ new.owner = target.owner /\ new.stamp = 0
      /\ new.managed = target.managed /\ new.data = target.data
  BY <1>1 DEF Secret
<1>3. SetTarget(new, {}, pass) BY DEF Unstamp
<1> HIDE DEF new
<1> QED BY <1>1, <1>2, <1>3

LEMMA UserInv ==
  ASSUME OperatorInv,
         \/ DeleteTarget \/ WriteOther \/ Unstamp \/ CollectGarbage
         \/ \E n \in Names : EditSpec(n) \/ RemoveResource(n)
  PROVE  OperatorInv'
<1> USE DEF Edit
<1>1. pass \in [Passes -> Pass] /\ target \in Secret /\ edits \in Nat /\ faults \in Nat
  BY DEF OperatorInv, OperatorTypeOK
<1>2. CASE DeleteTarget BY <1>1, <1>2, NoTargetType, TargetStep DEF DeleteTarget
<1>3. CASE CollectGarbage BY <1>1, <1>3, NoTargetType, TargetStep DEF CollectGarbage
<1>4. CASE WriteOther \/ Unstamp
  <2>1. PICK new \in Secret, keys \in SUBSET DataKeys :
          SetTarget(new, keys, pass) /\ (~new.exists => Present(new.data) = {})
    BY <1>4, OtherWrite, UnstampWrite
  <2>2. edits' = edits + 1 /\ UNCHANGED <<upstream, res, faults, mix>> BY <1>4, Zenon DEF WriteOther, Unstamp
  <2> QED BY <1>1, <2>1, <2>2, TargetStep
<1>5. ASSUME NEW n \in Names, EditSpec(n) PROVE OperatorInv'
  <2>1. PICK e \in Envs, policy \in Policies :
          SetResource(n, [res[n] EXCEPT !.gen = @ + 1, !.env = e, !.policy = policy], pass)
    BY <1>5, MixType, Zenon DEF EditSpec
  <2> DEFINE new == [res[n] EXCEPT !.gen = @ + 1, !.env = e, !.policy = policy]
  <2>2. res[n] \in Resource BY DEF OperatorInv, OperatorTypeOK
  <2>3. new \in Resource
    <3> DEFINE gen == res[n].gen + 1
    <3>1. gen \in Nat BY <2>2 DEF Resource
    <3>2. new = [[[res[n] EXCEPT !.gen = gen] EXCEPT !.env = e] EXCEPT !.policy = policy] OBVIOUS
    <3> HIDE DEF gen, new
    <3>3. [res[n] EXCEPT !.gen = gen] \in Resource BY <2>2, <3>1 DEF Resource
    <3>4. [[res[n] EXCEPT !.gen = gen] EXCEPT !.env = e] \in Resource BY <3>3 DEF Resource
    <3> QED BY <3>2, <3>4 DEF Resource
  <2>4. SetResource(n, new, pass) BY <2>1
  <2> HIDE DEF new
  <2>5. edits' = edits + 1 /\ UNCHANGED <<upstream, target, altered, faults, mix>> BY <1>5, Zenon DEF EditSpec
  <2> QED BY <1>1, <2>3, <2>4, <2>5, ResourceStep
<1>6. ASSUME NEW n \in Names, RemoveResource(n) PROVE OperatorInv'
  <2> DEFINE new == [res[n] EXCEPT !.exists = FALSE]
  <2>1. new \in Resource BY DEF OperatorInv, OperatorTypeOK, Resource
  <2>2. SetResource(n, new, pass) BY <1>6 DEF RemoveResource
  <2> HIDE DEF new
  <2> QED BY <1>1, <1>6, <2>1, <2>2, ResourceStep DEF RemoveResource
<1> QED BY <1>2, <1>3, <1>4, <1>5, <1>6


LEMMA InitInv == ASSUME Init PROVE OperatorInv
<1>1. upstream \in [Envs -> Seq(SUBSET Keys)]
  <2>1. <<Keys>> \in Seq(SUBSET Keys) OBVIOUS
  <2> QED BY <2>1 DEF Init
<1>2. res \in [Names -> Resource]
  <2>1. Unread \in Resource BY EnvironmentsAssumption DEF Unread, Resource, Policies
  <2>2. ASSUME NEW r \in Created PROVE r \in Resource
    <3> DEFINE One == {1}  Zero == {0}  True == {TRUE}
    <3>1. One \subseteq Nat /\ Zero \subseteq Nat /\ True \subseteq BOOLEAN OBVIOUS
    <3>2. r \in [exists : True, gen : One, env : Envs, policy : Policies, ver : Zero, observed : Zero] BY DEF Created
    <3> HIDE DEF One, Zero, True
    <3> QED BY <3>1, <3>2 DEF Resource
  <2>3. Created \cup {Unread} \subseteq Resource BY <2>1, <2>2
  <2> QED BY <2>3 DEF Init
<1>3. target \in Secret /\ Present(target.data) = {} BY NoTargetType DEF Init
<1>4. pass \in [Passes -> Pass] BY IdleType DEF Init
<1>5. ASSUME NEW p \in Passes PROVE PassSound(p) BY IdleType DEF Init, PassSound
<1> QED BY <1>1, <1>2, <1>3, <1>4, <1>5 DEF Init, OperatorInv, OperatorTypeOK

LEMMA NextInv == ASSUME OperatorInv, [Next]_vars PROVE OperatorInv'
<1>1. ASSUME NEW p \in Passes, Continue(p) PROVE OperatorInv'
  BY <1>1, LoadTargetInv, FetchInv, WriteTargetInv, ReportInv DEF Continue
<1>2. ASSUME NEW p \in Passes, Fault(p) \/ Crash(p) PROVE OperatorInv'
  <2>1. UNCHANGED <<upstream, res, target, altered, edits, mix>> /\ faults' = faults + 1 BY <1>2, Zenon DEF Fault, Crash
  <2>2. pass' = [pass EXCEPT ![p] = Idle] \/ Goto(p, "fail") BY <1>2, Zenon DEF Fault, Crash
  <2> QED BY <2>1, <2>2, LeaveInv DEF OperatorInv, OperatorTypeOK
<1>3. CASE UNCHANGED vars
  <2>1. \A p \in Passes : PassSound(p)' BY <1>3, StaysSound DEF vars, SamePass
  <2> QED BY <1>3, <2>1 DEF vars, OperatorInv, OperatorTypeOK
<1>4. CASE Next BY <1>1, <1>2, <1>4, LoadInv, LoseAnswerInv, PublishInv, UserInv, Zenon DEF Next
<1> QED BY <1>3, <1>4

\* OperatorInv holds in every state: a pass that may write read a Secret that it
\* need not refuse and, as long as nobody wrote to it since, still the one there is.
THEOREM OperatorInvariant == Spec => []OperatorInv
<1>1. Init => OperatorInv BY InitInv
<1>2. OperatorInv /\ [Next]_vars => OperatorInv' BY NextInv
<1> QED BY <1>1, <1>2, PTL DEF Spec

-----------------------------------------------------------------------------
(* Writes. *)

\* Writes to the target or to a resource leave the label of a pass.
LEMMA LabelsKept ==
  ASSUME NEW others \in [Passes -> Pass], NEW new, NEW keys, NEW n, NEW p \in Passes,
         SetTarget(new, keys, others) \/ SetResource(n, new, others)
  PROVE  pass'[p].pc = others[p].pc
<1>1. others[p] \in Pass OBVIOUS
<1>2. CASE SetTarget(new, keys, others)
  <2> DEFINE fresh == others[p].freshTarget /\ new = target
  <2>1. pass'[p] = [others[p] EXCEPT !.freshTarget = fresh] BY <1>2 DEF SetTarget
  <2> HIDE DEF fresh
  <2> QED BY <1>1, <2>1 DEF Pass
<1>3. CASE SetResource(n, new, others)
  <2> DEFINE fresh == others[p].freshRes /\ others[p].name # n
  <2>1. pass'[p] = [others[p] EXCEPT !.freshRes = fresh] BY <1>3 DEF SetResource
  <2> HIDE DEF fresh
  <2> QED BY <1>1, <2>1 DEF Pass
<1> QED BY <1>2, <1>3

\* A step that changes the target and the label of a pass about to write is the
\* API server's acceptance of that pass's own write.
LEMMA WritesOnlyItsOwn ==
  ASSUME OperatorInv, [Next]_vars, NEW p \in Passes, Writes(p)
  PROVE  pass[p].pc = "write" /\ Accepted(p) /\ target' = Prepared(p)
<1>1. pass \in [Passes -> Pass] BY DEF OperatorInv, OperatorTypeOK
<1>2. pass[p].pc = "write" /\ pass'[p].pc # pass[p].pc /\ target' # target BY DEF Writes
<1>3. ~ \E new, keys : SetTarget(new, keys, pass) BY <1>1, <1>2, LabelsKept
<1>4. ASSUME NEW r \in Passes, NEW label \in Labels, Accepted(r), SetTarget(Prepared(r), {}, [pass EXCEPT ![r].pc = label])
      PROVE  Accepted(p) /\ target' = Prepared(p)
  <2> DEFINE others == [pass EXCEPT ![r].pc = label]
  <2>1. others \in [Passes -> Pass] BY PassType
  <2>2. r # p => others[p] = pass[p] BY <1>1
  <2> HIDE DEF others
  <2>3. SetTarget(Prepared(r), {}, others) BY <1>4 DEF others
  <2>4. r = p BY <1>2, <2>1, <2>2, <2>3, LabelsKept
  <2> QED BY <1>4, <2>4 DEF SetTarget
<1>5. ASSUME NEW r \in Passes, WriteTarget(r) \/ LoseAnswer(r) PROVE Accepted(p) /\ target' = Prepared(p)
  BY <1>2, <1>4, <1>5 DEF WriteTarget, LoseAnswer, Labels
<1>6. CASE Next
  <2>1. \A r \in Passes : ~ (LoadTarget(r) \/ Fetch(r) \/ Succeed(r) \/ Fail(r) \/ Fault(r) \/ Crash(r))
    BY <1>2, Zenon DEF LoadTarget, Fetch, Succeed, Fail, SetStatus, Fault, Crash
  <2>2. ~ \E r \in Passes, n \in Names : Load(r, n) BY <1>2, Zenon DEF Load
  <2>3. ~ \E e \in Envs : Publish(e) BY <1>2, Zenon DEF Publish
  <2>4. ~ \E n \in Names : EditSpec(n) \/ RemoveResource(n) BY <1>2, Zenon DEF EditSpec, RemoveResource
  <2>5. ~ (DeleteTarget \/ WriteOther \/ Unstamp \/ CollectGarbage)
    BY <1>3, Zenon DEF DeleteTarget, WriteOther, Unstamp, CollectGarbage
  <2> QED BY <1>2, <1>5, <1>6, <2>1, <2>2, <2>3, <2>4, <2>5, Zenon DEF Next, Continue
<1> QED BY <1>2, <1>6 DEF vars

\* A write that is accepted found the Secret as the pass had read it.
LEMMA AcceptedIsFresh ==
  ASSUME OperatorInv, NEW p \in Passes, pass[p].pc = "write", Accepted(p)
  PROVE  /\ target.exists => pass[p].seen = target
         /\ \A k \in Foreign : pass[p].seen.data[k] = target.data[k]
<1>1. PassSound(p) BY DEF OperatorInv
<1>2. CASE pass[p].seen.exists
  <2>1. pass[p].seen = target BY <1>1, <1>2 DEF PassSound, Accepted
  <2> QED BY <2>1
<1>3. CASE ~pass[p].seen.exists
  <2>1. ~target.exists BY <1>3 DEF Accepted
  <2>2. Present(target.data) = {} /\ Present(pass[p].seen.data) = {} BY <1>1, <1>3, <2>1 DEF PassSound, OperatorInv
  <2>3. \A k \in Foreign : pass[p].seen.data[k] = NoName /\ target.data[k] = NoName BY <2>2 DEF Present
  <2> QED BY <2>1, <2>3
<1> QED BY <1>2, <1>3

\* A pass never takes over a Secret another resource manages: checkOwnership is
\* made on an earlier read, and the write goes through only while that is current.
THEOREM OwnersKept == Spec => OwnerKept
<1> DEFINE Step == \A p \in Passes : Writes(p) /\ target.exists => target.owner \in {NoName, pass[p].name}
<1>1. OperatorInv /\ [Next]_vars => Step
  <2> SUFFICES ASSUME OperatorInv, [Next]_vars, NEW p \in Passes, Writes(p), target.exists
               PROVE  target.owner \in {NoName, pass[p].name}
    OBVIOUS
  <2>1. pass[p].pc = "write" /\ Accepted(p) BY WritesOnlyItsOwn
  <2>2. pass[p].seen = target BY <2>1, AcceptedIsFresh
  <2>3. ~Conflicts(p, pass[p].seen) BY <2>1 DEF OperatorInv, PassSound
  <2> QED BY <2>2, <2>3 DEF Conflicts
<1> QED BY <1>1, OperatorInvariant, PTL DEF Spec, OwnerKept

\* A write under Merge leaves the keys of other parties as they are at the moment
\* of the write, whatever happened since the pass read the Secret.
THEOREM ForeignKeysKept == Spec => ForeignKept
<1> DEFINE Step == \A p \in Passes : Writes(p) /\ pass[p].snap.policy = "Merge" =>
                     \A k \in Foreign : target'.data[k] = target.data[k]
<1>1. OperatorInv /\ [Next]_vars => Step
  <2> SUFFICES ASSUME OperatorInv, [Next]_vars, NEW p \in Passes, Writes(p),
                      pass[p].snap.policy = "Merge", NEW k \in Foreign
               PROVE  target'.data[k] = target.data[k]
    OBVIOUS
  <2>1. pass[p].pc = "write" /\ Accepted(p) /\ target' = Prepared(p) BY WritesOnlyItsOwn
  <2>2. Prepared(p).data[k] = pass[p].seen.data[k] BY <2>1, PreparedType
  <2>3. pass[p].seen.data[k] = target.data[k] BY <2>1, AcceptedIsFresh
  <2> QED BY <2>1, <2>2, <2>3
<1> QED BY <1>1, OperatorInvariant, PTL DEF Spec, ForeignKept

-----------------------------------------------------------------------------
(* Conditional requests: what the target holds. *)

\* The pass is at the same point of the same work.
SameWork(old, new) ==
  /\ new.pc = old.pc /\ new.name = old.name /\ new.snap = old.snap /\ new.seen = old.seen
  /\ new.got = old.got /\ new.known = old.known
  /\ new.freshRes => old.freshRes

\* Writes to the target or to a resource leave the work of a pass; a pass of the
\* resource written holds a stale copy.
LEMMA WorkKept ==
  ASSUME NEW others \in [Passes -> Pass], NEW new, NEW keys, NEW n, NEW p \in Passes
  PROVE  /\ SetTarget(new, keys, others) => SameWork(others[p], pass'[p])
         /\ SetResource(n, new, others) => SameWork(others[p], pass'[p]) /\ (pass'[p].freshRes => pass'[p].name # n)
<1>1. others[p] \in Pass OBVIOUS
<1>2. ASSUME SetTarget(new, keys, others) PROVE SameWork(others[p], pass'[p])
  <2> DEFINE fresh == others[p].freshTarget /\ new = target
  <2>1. pass'[p] = [others[p] EXCEPT !.freshTarget = fresh] BY <1>2 DEF SetTarget
  <2> HIDE DEF fresh
  <2> QED BY <1>1, <2>1 DEF Pass, SameWork
<1>3. ASSUME SetResource(n, new, others)
      PROVE  SameWork(others[p], pass'[p]) /\ (pass'[p].freshRes => pass'[p].name # n)
  <2> DEFINE fresh == others[p].freshRes /\ others[p].name # n
  <2>1. pass'[p] = [others[p] EXCEPT !.freshRes = fresh] BY <1>3 DEF SetResource
  <2>2. fresh => others[p].freshRes /\ others[p].name # n OBVIOUS
  <2> HIDE DEF fresh
  <2>3. pass'[p].freshRes = fresh /\ pass'[p].name = others[p].name BY <1>1, <2>1 DEF Pass
  <2>4. SameWork(others[p], pass'[p]) BY <1>1, <2>1, <2>2 DEF Pass, SameWork
  <2> QED BY <2>2, <2>3, <2>4
<1> QED BY <1>2, <1>3

\* Nobody manages or stamps a Secret that is gone.
LEMMA NoTargetRecorded == Recorded(NoTarget) /\ NoTarget.owner = NoName
BY NoNameAssumption DEF NoTarget, Recorded

\* A write leaves the configuration that was fetched, also under Merge: the pass
\* read a Secret in which what passes wrote is managed.
LEMMA PreparedHolds ==
  ASSUME OperatorInv, NEW p \in Passes, pass[p].pc = "write", Recorded(pass[p].seen), pass[p].name \in Names
  PROVE  /\ Recorded(Prepared(p)) /\ Prepared(p).exists /\ Prepared(p).owner = pass[p].name
         /\ Prepared(p).stamp = pass[p].got /\ pass[p].got <= Version(pass[p].snap.env)
         /\ \A k \in DataKeys :
              Agrees(Prepared(p).data[k], Config(pass[p].snap.env, pass[p].got)[k], pass[p].snap.policy)
<1> DEFINE q == pass[p]
           rendered == Config(q.snap.env, q.got)
           data == Merged(q.seen, rendered, q.snap.policy)
<1>1. q.snap.policy \in Policies /\ q.seen.data \in [DataKeys -> Values] BY PassType DEF Resource, Secret
<1>2. ASSUME NEW k \in DataKeys
      PROVE  /\ Agrees(data[k], rendered[k], q.snap.policy)
             /\ data[k] \in Envs \X Nat => k \in Present(rendered)
  <2>1. CASE k \in Present(rendered) \cup q.seen.managed \/ q.snap.policy = "Owner"
    <3> HIDE DEF rendered
    <3>1. data[k] = rendered[k] BY <2>1 DEF Merged
    <3> HIDE DEF data
    <3> QED BY <3>1, NoNameAssumption DEF Agrees, Present
  <2>2. CASE ~(k \in Present(rendered) \cup q.seen.managed \/ q.snap.policy = "Owner")
    <3> HIDE DEF rendered
    <3>1. data[k] = q.seen.data[k] BY <2>2 DEF Merged
    <3>2. rendered[k] = NoName /\ q.snap.policy = "Merge" BY <1>1, <2>2 DEF Present, Policies
    <3>3. q.seen.data[k] \notin Envs \X Nat BY <2>2 DEF Recorded
    <3>4. q.seen.data[k] \in {NoName, Other} BY <1>1, <3>3 DEF Values
    <3> HIDE DEF data
    <3> QED BY <3>1, <3>2, <3>3, <3>4 DEF Agrees
  <2> QED BY <2>1, <2>2
<1>3. /\ Prepared(p).exists /\ Prepared(p).owner = q.name /\ Prepared(p).stamp = q.got
      /\ Prepared(p).managed = Present(rendered) /\ Prepared(p).data = data
  BY DEF Prepared
<1>4. q.got <= Version(q.snap.env) BY DEF OperatorInv, PassSound
<1> HIDE DEF rendered, data
<1>5. Recorded(Prepared(p)) BY <1>2, <1>3, NamesAssumption DEF Recorded
<1> QED BY <1>2, <1>3, <1>4, <1>5 DEF rendered

\* Once it is written, the target holds what its stamp says.
LEMMA StampWritten ==
  ASSUME OperatorInv, NEW p \in Passes, pass[p].pc = "write", Recorded(pass[p].seen), pass[p].name \in Names,
         target' = Prepared(p), UNCHANGED upstream, NEW r, SameSpec(r, pass[p].snap)
  PROVE  StampedFor(r)'
<1>1. /\ target'.stamp = pass[p].got /\ pass[p].got <= Version(r.env)
      /\ \A k \in DataKeys : Agrees(target'.data[k], Config(r.env, pass[p].got)[k], r.policy)
  BY PreparedHolds DEF SameSpec
<1>2. Config(r.env, pass[p].got) = Config(r.env, target.stamp)' BY <1>1 DEF Config
<1> QED BY <1>1, <1>2 DEF StampedFor, Holds, Version

\* The stamp goes, or stays with the keys that count as the target's own.
StampStays ==
  target'.stamp # 0 =>
    /\ target'.stamp = target.stamp
    /\ altered \subseteq altered' /\ \A k \in DataKeys \ altered' : target'.data[k] = target.data[k]

\* Versions that were published stay: what the target holds of one is still right.
LEMMA StampKept ==
  ASSUME OperatorInv, UNCHANGED upstream \/ \E f \in Envs : Publish(f), StampStays, NEW r \in Resource, StampedFor(r)
  PROVE  StampedFor(r)'
<1> SUFFICES ASSUME target'.stamp # 0 PROVE StampedFor(r)' BY DEF StampedFor
<1> DEFINE e == r.env
<1>1. e \in Envs /\ upstream[e] \in Seq(SUBSET Keys) /\ target.stamp \in Nat
  BY DEF OperatorInv, OperatorTypeOK, Secret, Resource
<1> HIDE DEF e
<1>2. Len(upstream'[e]) >= Len(upstream[e]) /\ \A v \in 1 .. Len(upstream[e]) : upstream'[e][v] = upstream[e][v]
  <2>1. CASE UNCHANGED upstream BY <1>1, <2>1
  <2>2. ASSUME NEW f \in Envs, Publish(f)
        PROVE  Len(upstream'[e]) >= Len(upstream[e]) /\ \A v \in 1 .. Len(upstream[e]) : upstream'[e][v] = upstream[e][v]
    <3>1. PICK ks \in SUBSET Keys : upstream' = [upstream EXCEPT ![f] = Append(@, ks)] BY <2>2 DEF Publish
    <3>2. upstream'[e] = upstream[e] \/ upstream'[e] = Append(upstream[e], ks)
      BY <1>1, <3>1 DEF OperatorInv, OperatorTypeOK
    <3> QED BY <1>1, <3>2
  <2> QED BY <2>1, <2>2
<1>3. /\ target'.stamp = target.stamp /\ altered \subseteq altered'
      /\ \A k \in DataKeys \ altered' : target'.data[k] = target.data[k]
  BY DEF StampStays
<1>4. target.stamp <= Len(upstream[e]) /\ Holds(r, target.stamp) BY <1>3 DEF StampedFor, Version, e
<1>5. target'.stamp <= Len(upstream'[e]) BY <1>1, <1>2, <1>3, <1>4
<1>6. ASSUME NEW k \in DataKeys \ altered' PROVE Agrees(target'.data[k], Config(e, target.stamp)'[k], r.policy)
  <2>1. Agrees(target.data[k], Config(e, target.stamp)[k], r.policy) BY <1>3, <1>4 DEF Holds, e
  <2>2. upstream'[e][target.stamp] = upstream[e][target.stamp] BY <1>1, <1>2, <1>3, <1>4
  <2>3. Config(e, target.stamp)'[k] = Config(e, target.stamp)[k] BY <1>3, <2>2 DEF Config
  <2> QED BY <1>3, <2>1, <2>3
<1> QED BY <1>5, <1>6 DEF StampedFor, Holds, Version, e

\* What others do to the target leaves its owner and its stamp, or takes the stamp away.
LEMMA OthersKeepStamp ==
  ASSUME OperatorInv, Recorded(target), WriteOther \/ Unstamp
  PROVE  \E new \in Secret, keys \in SUBSET DataKeys :
           /\ SetTarget(new, keys, pass) /\ Recorded(new) /\ StampStays
           /\ new.owner = target.owner /\ (~new.exists => ~target.exists)
<1>1. CASE WriteOther
  <2>1. PICK new \in Secret, keys \in SUBSET DataKeys :
           /\ SetTarget(new, keys, pass)
           /\ new.exists /\ new.owner = target.owner /\ new.stamp = target.stamp /\ new.managed = target.managed
           /\ \A k \in DataKeys : new.data[k] = target.data[k] \/ new.data[k] \in {NoName, Other}
           /\ target.stamp # 0 => altered \subseteq keys /\ \A k \in DataKeys \ keys : new.data[k] = target.data[k]
    BY <1>1, OtherWrite
  <2>2. target' = new /\ altered' = keys BY <2>1 DEF SetTarget
  <2>3. Other \notin Envs \X Nat /\ NoName \notin Envs \X Nat BY NoNameAssumption DEF Other
  <2>4. Recorded(new) BY <2>1, <2>3 DEF Recorded
  <2>5. StampStays BY <2>1, <2>2 DEF StampStays
  <2> QED BY <2>1, <2>4, <2>5
<1>2. CASE Unstamp
  <2>1. PICK new \in Secret, keys \in SUBSET DataKeys :
           /\ SetTarget(new, keys, pass)
           /\ new.exists = target.exists /\ new.owner = target.owner /\ new.stamp = 0 /\ new.managed = target.managed
           /\ new.data = target.data
    BY <1>2, UnstampWrite
  <2>2. Recorded(new) BY <2>1 DEF Recorded
  <2>3. StampStays BY <2>1 DEF StampStays, SetTarget
  <2> QED BY <2>1, <2>2, <2>3
<1> QED BY <1>1, <1>2

\* Where the target holds what its stamp says for its owner, a conditional request of
\* the owner is safe; nobody else sends one.
LEMMA StampMakesSafe ==
  ASSUME OperatorInv, Recorded(target),
         \A n \in Names : target.owner = n /\ res[n].observed = res[n].gen => StampedFor(res[n])
  PROVE  ConditionalSafe
<1> SUFFICES ASSUME NEW n \in Names, Conditional(n) PROVE Holds(res[n], res[n].ver) BY DEF ConditionalSafe
<1>1. res[n].ver \in Nat /\ res[n].ver # 0 /\ target.stamp = res[n].ver
  BY DEF Conditional, OperatorInv, OperatorTypeOK, Resource
<1>2. target.owner = n /\ res[n].observed = res[n].gen BY <1>1 DEF Conditional, Recorded
<1>3. StampedFor(res[n]) BY <1>2
<1> QED BY <1>1, <1>3 DEF StampedFor

-----------------------------------------------------------------------------
(* Conditional requests when no spec is edited. *)

\* What a pass q knows is right: it works by the spec its resource has, from a
\* copy of the Secret that records what passes wrote.
Faithful(q) ==
  q.pc # "idle" =>
    /\ q.name \in Names /\ SameSpec(q.snap, res[q.name])
    /\ q.pc \in {"fetch", "write"} => Recorded(q.seen)

LEMMA UneditedParts ==
  ASSUME OperatorInv, UneditedInv, NEW p \in Passes
  PROVE  Faithful(pass[p]) /\ Recorded(target)
BY DEF UneditedInv, AllRecorded, Faithful

\* What the next states have to show.
LEMMA UneditedStep ==
  ASSUME OperatorInv, UneditedInv, [Next]_vars, \A n \in Names : SameSpec(res'[n], res[n]),
         \A p \in Passes : \E q : Faithful(q) /\ SameWork(q, pass'[p]), Recorded(target'),
         target'.owner # NoName => \A r \in Resource : SameSpec(r, res[target'.owner]) => StampedFor(r)'
  PROVE  UneditedInv'
<1>1. OperatorInv' BY NextInv
<1>2. ASSUME NEW p \in Passes
      PROVE  /\ (pass[p].pc # "idle" => pass[p].name \in Names /\ SameSpec(pass[p].snap, res[pass[p].name]))'
             /\ (pass[p].pc \in {"fetch", "write"} => Recorded(pass[p].seen))'
  <2>1. PICK q : Faithful(q) /\ SameWork(q, pass'[p]) OBVIOUS
  <2>2. pass'[p].pc # "idle" => pass'[p].name \in Names /\ SameSpec(pass'[p].snap, res'[pass'[p].name])
    BY <2>1 DEF Faithful, SameWork, SameSpec
  <2>3. pass'[p].pc \in {"fetch", "write"} => Recorded(pass'[p].seen) BY <2>1 DEF Faithful, SameWork
  <2> QED BY <2>2, <2>3 DEF SameSpec, Recorded
<1>3. AllRecorded' BY <1>2 DEF AllRecorded, Recorded
<1>4. ASSUME target'.owner # NoName PROVE StampedFor(res[target.owner])'
  <2>1. PICK n \in Names : n = target'.owner BY <1>1, <1>4 DEF OperatorInv, OperatorTypeOK, Secret
  <2>2. PICK r \in Resource : r = res'[n] BY <1>1 DEF OperatorInv, OperatorTypeOK
  <2>3. SameSpec(r, res[n]) BY <2>2
  <2>4. StampedFor(r)' BY <1>4, <2>1, <2>3
  <2> QED BY <2>1, <2>2, <2>4 DEF StampedFor, Holds, Config, Version
<1> QED BY <1>2, <1>3, <1>4 DEF UneditedInv

\* The target keeps for its owner what it holds.
LEMMA TargetKept ==
  ASSUME OperatorInv, UneditedInv, target'.owner = target.owner, StampStays,
         UNCHANGED upstream \/ \E f \in Envs : Publish(f)
  PROVE  target'.owner # NoName => \A r \in Resource : SameSpec(r, res[target'.owner]) => StampedFor(r)'
<1> SUFFICES ASSUME target.owner # NoName, NEW r \in Resource, SameSpec(r, res[target.owner]) PROVE StampedFor(r)'
  OBVIOUS
<1>1. StampedFor(res[target.owner]) BY DEF UneditedInv
<1>2. StampedFor(r) BY <1>1 DEF StampedFor, Holds, SameSpec, Version, Config
<1> QED BY <1>2, StampKept

\* A step of one pass that writes nothing.
LEMMA UneditedPass ==
  ASSUME OperatorInv, UneditedInv, [Next]_vars, NEW p \in Passes, NEW q, Faithful(q), pass' = [pass EXCEPT ![p] = q],
         UNCHANGED <<upstream, res, target, altered>>
  PROVE  UneditedInv'
<1>1. ASSUME NEW r \in Passes PROVE \E w : Faithful(w) /\ SameWork(w, pass'[r])
  <2>1. pass'[r] = IF r = p THEN q ELSE pass[r] BY DEF OperatorInv, OperatorTypeOK
  <2>2. Faithful(pass'[r]) BY <2>1, UneditedParts
  <2> QED BY <2>2 DEF SameWork
<1>2. StampStays /\ Recorded(target') BY DEF StampStays, UneditedInv, AllRecorded
<1>3. \A n \in Names : SameSpec(res'[n], res[n]) BY DEF SameSpec
<1> QED BY <1>1, <1>2, <1>3, TargetKept, UneditedStep

\* A write to the target.
LEMMA UneditedWrite ==
  ASSUME OperatorInv, UneditedInv, [Next]_vars, NEW new, NEW keys, NEW others \in [Passes -> Pass], SetTarget(new, keys, others),
         UNCHANGED <<upstream, res>>, \A r \in Passes : Faithful(others[r]), Recorded(new),
         new.owner # NoName => \A r \in Resource : SameSpec(r, res[new.owner]) => StampedFor(r)'
  PROVE  UneditedInv'
<1>1. target' = new BY DEF SetTarget
<1>2. \A r \in Passes : \E w : Faithful(w) /\ SameWork(w, pass'[r]) BY WorkKept
<1>3. \A n \in Names : SameSpec(res'[n], res[n]) BY DEF SameSpec
<1> QED BY <1>1, <1>2, <1>3, UneditedStep

\* A write to a resource that leaves its spec.
LEMMA UneditedResource ==
  ASSUME OperatorInv, UneditedInv, [Next]_vars, NEW n \in Names, NEW new, SameSpec(new, res[n]), NEW others \in [Passes -> Pass],
         SetResource(n, new, others), UNCHANGED <<upstream, target, altered>>, \A r \in Passes : Faithful(others[r])
  PROVE  UneditedInv'
<1>1. res' = [res EXCEPT ![n] = new] BY DEF SetResource
<1>2. \A m \in Names : SameSpec(res'[m], res[m]) BY <1>1 DEF OperatorInv, OperatorTypeOK, SameSpec
<1>3. \A r \in Passes : \E w : Faithful(w) /\ SameWork(w, pass'[r]) BY WorkKept
<1>4. StampStays /\ Recorded(target') BY DEF StampStays, UneditedInv, AllRecorded
<1> QED BY <1>2, <1>3, <1>4, TargetKept, UneditedStep

LEMMA UneditedReads ==
  ASSUME OperatorInv, UneditedInv, [Next]_vars, NEW p \in Passes, (\E n \in Names : Load(p, n)) \/ LoadTarget(p) \/ Fetch(p)
  PROVE  UneditedInv'
<1>1. Faithful(pass[p]) /\ Recorded(target) /\ pass[p] \in Pass BY UneditedParts, PassType
<1>2. ASSUME NEW n \in Names, Load(p, n) PROVE UneditedInv'
  <2> DEFINE q == [Idle EXCEPT !.pc = "target", !.name = n, !.snap = res[n], !.freshRes = TRUE]
  <2>1. q.pc = "target" /\ q.name = n /\ q.snap = res[n] BY IdleType DEF Pass
  <2>2. pass' = [pass EXCEPT ![p] = q] /\ UNCHANGED <<upstream, res, target, altered>> BY <1>2 DEF Load
  <2> HIDE DEF q
  <2>3. Faithful(q) BY <2>1 DEF Faithful, SameSpec
  <2> QED BY <2>2, <2>3, UneditedPass
<1>3. CASE LoadTarget(p)
  <2> DEFINE label == IF Conflicts(p, target) THEN "fail" ELSE "fetch"
             known == KnownVersion(p, target)
             q == [pass[p] EXCEPT !.pc = label, !.seen = target, !.freshTarget = TRUE, !.known = known]
  <2>1. pass' = [pass EXCEPT ![p] = q] /\ UNCHANGED <<upstream, res, target, altered>> /\ pass[p].pc = "target"
    BY <1>3 DEF LoadTarget
  <2> HIDE DEF label, known
  <2>2. q.seen = target /\ q.name = pass[p].name /\ q.snap = pass[p].snap BY <1>1 DEF Pass
  <2> HIDE DEF q
  <2>3. Faithful(q) BY <1>1, <2>1, <2>2 DEF Faithful
  <2> QED BY <2>1, <2>3, UneditedPass
<1>4. CASE Fetch(p)
  <2> DEFINE v == Version(pass[p].snap.env)
             label == IF pass[p].known # 0 /\ pass[p].known = v THEN "succeed" ELSE "write"
             q == [pass[p] EXCEPT !.got = v, !.pc = label]
  <2>1. pass' = [pass EXCEPT ![p] = q] /\ UNCHANGED <<upstream, res, target, altered>> /\ pass[p].pc = "fetch"
    BY <1>4 DEF Fetch
  <2> HIDE DEF label, v
  <2>2. q.seen = pass[p].seen /\ q.name = pass[p].name /\ q.snap = pass[p].snap BY <1>1 DEF Pass
  <2> HIDE DEF q
  <2>3. Faithful(q) BY <1>1, <2>1, <2>2 DEF Faithful
  <2> QED BY <2>1, <2>3, UneditedPass
<1> QED BY <1>2, <1>3, <1>4

\* A pass that gives up or fails.
LEMMA UneditedLeave ==
  ASSUME OperatorInv, UneditedInv, [Next]_vars, NEW p \in Passes, UNCHANGED <<upstream, res, target, altered>>,
         pass' = [pass EXCEPT ![p] = Idle] \/ (Goto(p, "fail") /\ pass[p].pc # "idle")
  PROVE  UneditedInv'
<1>1. Faithful(Idle) BY IdleType DEF Faithful
<1>2. CASE Goto(p, "fail") /\ pass[p].pc # "idle"
  <2> DEFINE q == [pass[p] EXCEPT !.pc = "fail"]
  <2>1. pass[p] \in Pass /\ Faithful(pass[p]) BY UneditedParts, PassType
  <2>2. q.pc = "fail" /\ q.name = pass[p].name /\ q.snap = pass[p].snap BY <2>1 DEF Pass
  <2>3. pass' = [pass EXCEPT ![p] = q] BY <1>2 DEF Goto
  <2> HIDE DEF q
  <2>4. Faithful(q) BY <1>2, <2>1, <2>2 DEF Faithful
  <2> QED BY <2>3, <2>4, UneditedPass
<1> QED BY <1>1, <1>2, UneditedPass

\* The API server accepts a write: the owner is now the pass's resource, and the
\* target holds what was fetched of that resource's environment.
LEMMA UneditedAccepted ==
  ASSUME OperatorInv, UneditedInv, [Next]_vars, NEW p \in Passes, pass[p].pc = "write", NEW label \in {"succeed", "fail"},
         SetTarget(Prepared(p), {}, [pass EXCEPT ![p].pc = label]), UNCHANGED <<upstream, res>>
  PROVE  UneditedInv'
<1> DEFINE others == [pass EXCEPT ![p].pc = label]
<1>1. Faithful(pass[p]) /\ pass[p] \in Pass BY UneditedParts, PassType
<1>2. Recorded(pass[p].seen) /\ pass[p].name \in Names /\ SameSpec(pass[p].snap, res[pass[p].name]) BY <1>1 DEF Faithful
<1>3. others \in [Passes -> Pass] BY <1>1, PassType DEF Labels
<1>4. ASSUME NEW r \in Passes PROVE Faithful(others[r])
  <2>1. Faithful(pass[r]) /\ pass \in [Passes -> Pass] BY UneditedParts DEF OperatorInv, OperatorTypeOK
  <2>2. r # p => others[r] = pass[r] BY <2>1
  <2>3. r = p => others[r].pc \notin {"fetch", "write"} /\ others[r].name = pass[r].name /\ others[r].snap = pass[r].snap
    BY <2>1 DEF Pass
  <2> HIDE DEF others
  <2> QED BY <1>2, <2>1, <2>2, <2>3 DEF Faithful
<1>5. Recorded(Prepared(p)) /\ Prepared(p).owner = pass[p].name BY <1>1, <1>2, PreparedHolds
<1>6. target' = Prepared(p) BY DEF SetTarget
<1>7. ASSUME NEW r \in Resource, SameSpec(r, res[Prepared(p).owner]) PROVE StampedFor(r)'
  <2>1. SameSpec(r, pass[p].snap) BY <1>2, <1>5, <1>7 DEF SameSpec
  <2> QED BY <1>2, <1>6, <2>1, StampWritten
<1> HIDE DEF others
<1>8. SetTarget(Prepared(p), {}, others) BY DEF others
<1> QED BY <1>3, <1>4, <1>5, <1>7, <1>8, UneditedWrite

LEMMA UneditedStatus ==
  ASSUME OperatorInv, UneditedInv, [Next]_vars, NEW p \in Passes, Succeed(p) \/ Fail(p)
  PROVE  UneditedInv'
<1>1. Faithful(pass[p]) /\ pass[p] \in Pass /\ pass[p].snap \in Resource BY UneditedParts, PassType
<1>2. pass[p].name \in Names /\ SameSpec(pass[p].snap, res[pass[p].name]) BY <1>1 DEF Faithful, Succeed, Fail
<1>3. ASSUME NEW status, SameSpec(status, pass[p].snap), SetStatus(p, status) PROVE UneditedInv'
  <2>1. CASE SetResource(pass[p].name, status, [pass EXCEPT ![p] = Idle])
    <3> DEFINE others == [pass EXCEPT ![p] = Idle]
    <3>1. others \in [Passes -> Pass] BY <1>1, PassType
    <3>2. \A r \in Passes : Faithful(others[r])
      BY UneditedParts, IdleType DEF Faithful, OperatorInv, OperatorTypeOK
    <3> HIDE DEF others
    <3>3. SetResource(pass[p].name, status, others) BY <2>1 DEF others
    <3>4. UNCHANGED <<upstream, target, altered>> BY <1>3 DEF SetStatus
    <3>5. SameSpec(status, res[pass[p].name]) BY <1>2, <1>3 DEF SameSpec
    <3> QED BY <1>2, <3>1, <3>2, <3>3, <3>4, <3>5, UneditedResource
  <2>2. CASE pass' = [pass EXCEPT ![p] = Idle] /\ UNCHANGED res BY <1>3, <2>2, UneditedLeave DEF SetStatus
  <2> QED BY <1>3, <2>1, <2>2 DEF SetStatus
<1> DEFINE synced == [pass[p].snap EXCEPT !.ver = pass[p].got, !.observed = pass[p].snap.gen]
           failed == [pass[p].snap EXCEPT !.observed = pass[p].snap.gen]
<1>4. SameSpec(synced, pass[p].snap) /\ SameSpec(failed, pass[p].snap) BY <1>1 DEF Resource, SameSpec
<1>5. SetStatus(p, synced) \/ SetStatus(p, failed) BY DEF Succeed, Fail
<1> HIDE DEF synced, failed
<1> QED BY <1>3, <1>4, <1>5

\* Where no spec is edited: what users do, a publication and the garbage collector.
LEMMA UneditedUsers ==
  ASSUME OperatorInv, UneditedInv, [Next]_vars, Unedited(mix),
         \/ DeleteTarget \/ WriteOther \/ Unstamp \/ CollectGarbage \/ \E e \in Envs : Publish(e)
         \/ \E n \in Names : EditSpec(n) \/ RemoveResource(n)
  PROVE  UneditedInv'
<1>1. /\ Recorded(target) /\ target \in Secret /\ pass \in [Passes -> Pass]
      /\ \A r \in Passes : Faithful(pass[r])
  BY UneditedParts DEF UneditedInv, AllRecorded, OperatorInv, OperatorTypeOK
<1>2. CASE DeleteTarget \/ CollectGarbage
  <2>1. SetTarget(NoTarget, {}, pass) /\ UNCHANGED <<upstream, res>> BY <1>2 DEF DeleteTarget, CollectGarbage
  <2> QED BY <1>1, <2>1, NoTargetRecorded, UneditedWrite
<1>3. CASE WriteOther \/ Unstamp
  <2>1. PICK new \in Secret, keys \in SUBSET DataKeys :
          SetTarget(new, keys, pass) /\ Recorded(new) /\ StampStays /\ new.owner = target.owner
    BY <1>1, <1>3, OthersKeepStamp
  <2>2. UNCHANGED <<upstream, res>> BY <1>3, Zenon DEF WriteOther, Unstamp
  <2>3. target' = new BY <2>1 DEF SetTarget
  <2> QED BY <1>1, <2>1, <2>2, <2>3, TargetKept, UneditedWrite
<1>4. ASSUME NEW e \in Envs, Publish(e) PROVE UneditedInv'
  <2>1. UNCHANGED <<res, target, altered, pass>> BY <1>4 DEF Publish
  <2>2. \A r \in Passes : \E w : Faithful(w) /\ SameWork(w, pass'[r]) BY <1>1, <2>1 DEF SameWork
  <2>3. \A n \in Names : SameSpec(res'[n], res[n]) BY <2>1 DEF SameSpec
  <2>4. StampStays /\ Recorded(target') BY <1>1, <2>1 DEF StampStays
  <2> QED BY <1>4, <2>1, <2>2, <2>3, <2>4, TargetKept, UneditedStep
<1>5. ASSUME NEW n \in Names, RemoveResource(n) PROVE UneditedInv'
  <2> DEFINE new == [res[n] EXCEPT !.exists = FALSE]
  <2>1. SameSpec(new, res[n]) BY <1>1 DEF OperatorInv, OperatorTypeOK, Resource, SameSpec
  <2>2. SetResource(n, new, pass) /\ UNCHANGED <<upstream, target, altered>> BY <1>5 DEF RemoveResource
  <2> HIDE DEF new
  <2> QED BY <1>1, <2>1, <2>2, UneditedResource
<1>6. ~ \E n \in Names : EditSpec(n) BY Zenon DEF EditSpec, Edit, Unedited
<1> QED BY <1>2, <1>3, <1>4, <1>5, <1>6

LEMMA UneditedNext == ASSUME OperatorInv, UneditedInv, [Next]_vars, Unedited(mix) PROVE UneditedInv'
<1>1. ASSUME NEW p \in Passes, WriteTarget(p) PROVE UneditedInv'
  <2>1. pass[p].pc = "write" /\ UNCHANGED <<upstream, res>> BY <1>1, Zenon DEF WriteTarget
  <2>2. CASE SetTarget(Prepared(p), {}, [pass EXCEPT ![p].pc = "succeed"]) BY <2>1, <2>2, UneditedAccepted
  <2>3. CASE UNCHANGED <<target, altered>> /\ (pass' = [pass EXCEPT ![p] = Idle] \/ Goto(p, "fail")) BY <2>1, <2>3, UneditedLeave
  <2> QED BY <1>1, <2>2, <2>3 DEF WriteTarget
<1>2. ASSUME NEW p \in Passes, LoseAnswer(p) PROVE UneditedInv'
  <2>1. pass[p].pc = "write" /\ UNCHANGED <<upstream, res>> /\ SetTarget(Prepared(p), {}, [pass EXCEPT ![p].pc = "fail"])
    BY <1>2, Zenon DEF LoseAnswer
  <2> QED BY <2>1, UneditedAccepted
<1>3. ASSUME NEW p \in Passes, Fault(p) \/ Crash(p) PROVE UneditedInv'
  <2>1. UNCHANGED <<upstream, res, target, altered>> BY <1>3, Zenon DEF Fault, Crash
  <2>2. pass' = [pass EXCEPT ![p] = Idle] \/ (Goto(p, "fail") /\ pass[p].pc # "idle") BY <1>3 DEF Fault, Crash
  <2> QED BY <2>1, <2>2, UneditedLeave
<1>4. CASE UNCHANGED vars
  <2>1. UNCHANGED <<upstream, res, target, altered, pass>> BY <1>4 DEF vars
  <2>2. \A r \in Passes : \E w : Faithful(w) /\ SameWork(w, pass'[r]) BY <2>1, UneditedParts DEF SameWork
  <2>3. \A n \in Names : SameSpec(res'[n], res[n]) BY <2>1 DEF SameSpec
  <2>4. StampStays /\ Recorded(target') BY <2>1 DEF StampStays, UneditedInv, AllRecorded
  <2> QED BY <2>1, <2>2, <2>3, <2>4, TargetKept, UneditedStep
<1>5. CASE Next
  BY <1>1, <1>2, <1>3, <1>5, UneditedReads, UneditedStatus, UneditedUsers, Zenon DEF Next, Continue
<1> QED BY <1>4, <1>5

\* At the start there is no Secret and no pass has read anything.
LEMMA StartRecorded ==
  ASSUME Init
  PROVE  AllRecorded /\ target.owner = NoName /\ ~target.exists /\ \A p \in Passes : pass[p].pc = "idle"
BY NoTargetRecorded, NoTargetType, IdleType DEF Init, AllRecorded

-----------------------------------------------------------------------------
(* Conditional requests of one leader without faults. *)

\* What the leader's pass q knows is right.
Leads(q) ==
  LET r == res[q.name] IN
  q.pc # "idle" =>
    /\ q.name \in Names
    /\ r.observed = r.gen => SameSpec(q.snap, r)
    /\ q.pc \in {"fetch", "write"} => Recorded(q.seen)
    /\ q.freshRes =>
         /\ q.snap = r
         /\ q.pc = "fetch" /\ q.known # 0 => r.observed = r.gen
         /\ q.pc = "succeed" /\ target.owner = q.name => StampedFor(r)
         /\ q.pc = "fail" => target.owner # q.name

\* Every other pass is idle: there is one leader.
Alone(p) == \A r \in Passes \ {p} : pass[r].pc = "idle"

LEMMA LeaderParts ==
  ASSUME OperatorInv, OneLeaderInv, NEW p \in Passes
  PROVE  /\ Recorded(target) /\ Leads(pass[p]) /\ target \in Secret
         /\ res \in [Names -> Resource] /\ pass \in [Passes -> Pass]
BY DEF OneLeaderInv, AllRecorded, LeaderSound, Leads, OperatorInv, OperatorTypeOK

\* What the next state has to show.
LEMMA LeaderStep ==
  ASSUME OperatorInv, OneLeaderInv, [Next]_vars, NEW p \in Passes, Alone(p)', Leads(pass[p])', Recorded(target)',
         (~target.exists => target.owner = NoName)',
         \A n \in Names : res'[n].observed <= res'[n].gen,
         \A n \in Names, r \in Resource :
           target'.owner = n /\ res'[n].observed = res'[n].gen /\ r = res'[n] => StampedFor(r)'
  PROVE  OneLeaderInv'
<1>1. OperatorInv' BY NextInv
<1>2. ASSUME NEW q \in Passes
      PROVE  LeaderSound(q)' /\ (pass[q].pc \in {"fetch", "write"} => Recorded(pass[q].seen))'
  <2>1. CASE q = p BY <2>1 DEF LeaderSound, Leads, Recorded
  <2>2. CASE q # p BY <2>2 DEF LeaderSound, Alone
  <2> QED BY <2>1, <2>2
<1>3. AllRecorded' BY <1>2 DEF AllRecorded
<1>4. ASSUME NEW n \in Names, target'.owner = n /\ res'[n].observed = res'[n].gen PROVE StampedFor(res[n])'
  <2>1. PICK r \in Resource : r = res'[n] BY <1>1 DEF OperatorInv, OperatorTypeOK
  <2>2. StampedFor(r)' BY <1>4, <2>1
  <2> QED BY <2>1, <2>2 DEF StampedFor, Holds, Config, Version
<1> QED BY <1>2, <1>3, <1>4 DEF OneLeaderInv

\* The leader goes on, and writes nothing.
LEMMA LeaderReads ==
  ASSUME OperatorInv, OneLeaderInv, [Next]_vars, NEW p \in Passes, Alone(p)', NEW q, Leads(q),
         pass' = [pass EXCEPT ![p] = q], UNCHANGED <<upstream, res, target, altered>>
  PROVE  OneLeaderInv'
<1>1. pass'[p] = q BY LeaderParts
<1>2. Leads(pass[p])' BY <1>1 DEF Leads, Recorded, StampedFor, Holds, Config, Version
<1>3. ASSUME NEW n \in Names, NEW r \in Resource, target'.owner = n, res'[n].observed = res'[n].gen, r = res'[n]
      PROVE  StampedFor(r)'
  <2>1. StampedFor(r) BY <1>3 DEF OneLeaderInv
  <2> QED BY <2>1 DEF StampedFor, Holds, Config, Version
<1>4. Recorded(target)' /\ (~target.exists => target.owner = NoName)' BY DEF OneLeaderInv, AllRecorded, Recorded
<1>5. \A n \in Names : res'[n].observed <= res'[n].gen BY DEF OneLeaderInv
<1> QED BY <1>2, <1>3, <1>4, <1>5, LeaderStep

\* Somebody else acts: the target loses its owner or keeps what it holds for it, and a
\* resource that is not as it was has a generation to be observed, or the spec and
\* generation it had.
LEMMA LeaderWaits ==
  ASSUME OperatorInv, OneLeaderInv, [Next]_vars, NEW p \in Passes, Alone(p)', SameWork(pass[p], pass'[p]),
         Recorded(target'), ~target'.exists => target'.owner = NoName,
         \/ target'.owner = NoName
         \/ target'.owner = target.owner /\ \A r \in Resource : StampedFor(r) => StampedFor(r)',
         \A n \in Names :
           /\ res'[n].observed <= res'[n].gen
           /\ res'[n].observed = res'[n].gen => res[n].observed = res[n].gen /\ SameSpec(res'[n], res[n])
           /\ res'[n] = res[n] \/ (pass'[p].freshRes => pass'[p].name # n)
  PROVE  OneLeaderInv'
<1>1. Leads(pass[p]) /\ res \in [Names -> Resource] BY LeaderParts
<1>2. ASSUME NEW n \in Names, NEW r \in Resource, target'.owner = n, res'[n].observed = res'[n].gen, r = res'[n]
      PROVE  StampedFor(r)'
  <2>1. target'.owner # NoName BY <1>2, NamesAssumption
  <2>2. target.owner = n /\ res[n].observed = res[n].gen /\ SameSpec(r, res[n]) BY <1>2, <2>1
  <2>3. StampedFor(res[n]) BY <2>2 DEF OneLeaderInv
  <2>4. StampedFor(r) BY <2>2, <2>3 DEF StampedFor, Holds, SameSpec, Version, Config
  <2> QED BY <2>1, <2>4
<1>3. ASSUME pass'[p].pc # "idle" PROVE Leads(pass[p])'
  <2> DEFINE q == pass[p]
  <2>0. PICK n \in Names : n = q.name BY <1>1, <1>3 DEF Leads, SameWork
  <2>1. /\ pass'[p].pc = q.pc /\ pass'[p].name = n /\ pass'[p].snap = q.snap /\ pass'[p].seen = q.seen
        /\ pass'[p].known = q.known /\ (pass'[p].freshRes => q.freshRes)
    BY <2>0 DEF SameWork
  <2>2. /\ res[n].observed = res[n].gen => SameSpec(q.snap, res[n])
        /\ q.pc \in {"fetch", "write"} => Recorded(q.seen)
        /\ q.freshRes =>
             /\ q.snap = res[n]
             /\ q.pc = "fetch" /\ q.known # 0 => res[n].observed = res[n].gen
             /\ q.pc = "succeed" /\ target.owner = n => StampedFor(res[n])
             /\ q.pc = "fail" => target.owner # n
    BY <1>1, <1>3, <2>0, <2>1 DEF Leads
  <2> HIDE DEF q
  <2>3. n # NoName BY NamesAssumption
  <2>4. ASSUME pass'[p].freshRes
        PROVE  /\ res'[n] = res[n] /\ q.freshRes
               /\ q.pc = "succeed" /\ target'.owner = n => \A r \in Resource : r = res'[n] => StampedFor(r)'
               /\ q.pc = "fail" => target'.owner # n
    <3>1. res'[n] = res[n] /\ q.freshRes BY <2>1, <2>2, <2>4
    <3>2. ASSUME target'.owner = n PROVE target.owner = n /\ \A r \in Resource : StampedFor(r) => StampedFor(r)'
      BY <2>3, <3>2
    <3>3. ASSUME q.pc = "succeed", target'.owner = n, NEW r \in Resource, r = res'[n] PROVE StampedFor(r)'
      <4>1. StampedFor(res[n]) BY <2>2, <3>1, <3>2, <3>3
      <4>2. StampedFor(r) BY <3>1, <3>3, <4>1
      <4> QED BY <3>2, <3>3, <4>2
    <3> QED BY <2>2, <3>1, <3>2, <3>3
  <2>5. res'[n].observed = res'[n].gen => SameSpec(q.snap, res'[n]) BY <2>2 DEF SameSpec
  <2>6. pass'[p].freshRes /\ q.pc = "succeed" /\ target'.owner = n => StampedFor(res[n])'
    <3> SUFFICES ASSUME pass'[p].freshRes, q.pc = "succeed", target'.owner = n PROVE StampedFor(res[n])' OBVIOUS
    <3>1. PICK r \in Resource : r = res'[n] BY <1>1, <2>4
    <3>2. StampedFor(r)' BY <2>4, <3>1
    <3> QED BY <3>1, <3>2 DEF StampedFor, Holds, Config, Version
  <2> QED BY <2>1, <2>2, <2>4, <2>5, <2>6 DEF Leads, Recorded, SameSpec
<1>4. Leads(pass[p])' BY <1>3 DEF Leads
<1> QED BY <1>2, <1>4, LeaderStep DEF Recorded

LEMMA LeaderLoads ==
  ASSUME OperatorInv, OneLeaderInv, [Next]_vars, NEW p \in Passes, Alone(p)',
         (\E n \in Names : Load(p, n)) \/ LoadTarget(p) \/ Fetch(p)
  PROVE  OneLeaderInv'
<1>1. Leads(pass[p]) /\ Recorded(target) /\ pass[p] \in Pass BY LeaderParts, PassType
<1>2. ASSUME NEW n \in Names, Load(p, n) PROVE OneLeaderInv'
  <2> DEFINE q == [Idle EXCEPT !.pc = "target", !.name = n, !.snap = res[n], !.freshRes = TRUE]
  <2>1. q.pc = "target" /\ q.name = n /\ q.snap = res[n] BY IdleType DEF Pass
  <2>2. pass' = [pass EXCEPT ![p] = q] /\ UNCHANGED <<upstream, res, target, altered>> BY <1>2 DEF Load
  <2> HIDE DEF q
  <2>3. Leads(q) BY <2>1 DEF Leads, SameSpec
  <2> QED BY <2>2, <2>3, LeaderReads
<1>3. CASE LoadTarget(p)
  <2> DEFINE label == IF Conflicts(p, target) THEN "fail" ELSE "fetch"
             known == KnownVersion(p, target)
             q == [pass[p] EXCEPT !.pc = label, !.seen = target, !.freshTarget = TRUE, !.known = known]
  <2>1. pass' = [pass EXCEPT ![p] = q] /\ UNCHANGED <<upstream, res, target, altered>> /\ pass[p].pc = "target"
    BY <1>3 DEF LoadTarget
  <2>2. label \in {"fail", "fetch"} /\ (label = "fail" => target.owner # pass[p].name) BY DEF Conflicts
  <2>3. known # 0 => pass[p].snap.observed = pass[p].snap.gen BY DEF KnownVersion
  <2> HIDE DEF label, known
  <2>4. /\ q.pc = label /\ q.seen = target /\ q.name = pass[p].name /\ q.snap = pass[p].snap /\ q.known = known
        /\ q.freshRes = pass[p].freshRes
    BY <1>1 DEF Pass
  <2> HIDE DEF q
  <2>5. Leads(q) BY <1>1, <2>1, <2>2, <2>3, <2>4 DEF Leads
  <2> QED BY <2>1, <2>5, LeaderReads
<1>4. CASE Fetch(p)
  <2> DEFINE v == Version(pass[p].snap.env)
             label == IF pass[p].known # 0 /\ pass[p].known = v THEN "succeed" ELSE "write"
             q == [pass[p] EXCEPT !.got = v, !.pc = label]
  <2>1. pass' = [pass EXCEPT ![p] = q] /\ UNCHANGED <<upstream, res, target, altered>> /\ pass[p].pc = "fetch"
    BY <1>4 DEF Fetch
  <2>2. label \in {"succeed", "write"} /\ (label = "succeed" => pass[p].known # 0) OBVIOUS
  <2> HIDE DEF label, v
  <2>3. /\ q.pc = label /\ q.seen = pass[p].seen /\ q.name = pass[p].name /\ q.snap = pass[p].snap
        /\ q.freshRes = pass[p].freshRes
    BY <1>1 DEF Pass
  <2> HIDE DEF q
  <2>4. label = "succeed" /\ target.owner = q.name /\ q.freshRes => StampedFor(res[q.name])
    BY <1>1, <2>1, <2>2, <2>3 DEF Leads, OneLeaderInv
  <2>5. Leads(q) BY <1>1, <2>1, <2>2, <2>3, <2>4 DEF Leads
  <2> QED BY <2>1, <2>5, LeaderReads
<1> QED BY <1>2, <1>3, <1>4

\* Its write is refused: it starts again, or fails because there is no Secret.
LEMMA LeaderRefused ==
  ASSUME OperatorInv, OneLeaderInv, [Next]_vars, NEW p \in Passes, Alone(p)', UNCHANGED <<upstream, res, target, altered>>,
         pass' = [pass EXCEPT ![p] = Idle] \/ (Goto(p, "fail") /\ pass[p].pc = "write" /\ ~target.exists)
  PROVE  OneLeaderInv'
<1>1. Leads(Idle) BY IdleType DEF Leads
<1>2. CASE Goto(p, "fail") /\ pass[p].pc = "write" /\ ~target.exists
  <2> DEFINE q == [pass[p] EXCEPT !.pc = "fail"]
  <2>1. pass[p] \in Pass /\ Leads(pass[p]) BY LeaderParts, PassType
  <2>2. q.pc = "fail" /\ q.name = pass[p].name /\ q.snap = pass[p].snap /\ q.freshRes = pass[p].freshRes
    BY <2>1 DEF Pass
  <2>3. pass' = [pass EXCEPT ![p] = q] BY <1>2 DEF Goto
  <2> HIDE DEF q
  <2>4. target.owner = NoName BY <1>2 DEF OneLeaderInv
  <2>5. Leads(q) BY <1>2, <2>1, <2>2, <2>4, NamesAssumption DEF Leads
  <2> QED BY <2>3, <2>5, LeaderReads
<1> QED BY <1>1, <1>2, LeaderReads

\* Its write is accepted: the target holds what it fetched, for the environment its
\* resource has, unless the generation of that is still to be observed.
LEMMA LeaderAccepted ==
  ASSUME OperatorInv, OneLeaderInv, [Next]_vars, NEW p \in Passes, Alone(p)', pass[p].pc = "write",
         SetTarget(Prepared(p), {}, [pass EXCEPT ![p].pc = "succeed"]), UNCHANGED <<upstream, res>>
  PROVE  OneLeaderInv'
<1> DEFINE others == [pass EXCEPT ![p].pc = "succeed"]
           q == pass[p]
<1>1. Leads(q) /\ q \in Pass /\ res \in [Names -> Resource] BY LeaderParts, PassType
<1>2. /\ Recorded(q.seen) /\ q.name \in Names /\ (q.freshRes => q.snap = res[q.name])
      /\ res[q.name].observed = res[q.name].gen => SameSpec(q.snap, res[q.name])
  BY <1>1 DEF Leads
<1>3. others \in [Passes -> Pass] BY <1>1, PassType DEF Labels
<1>4. others[p] = [q EXCEPT !.pc = "succeed"] BY DEF OperatorInv, OperatorTypeOK
<1> HIDE DEF others
<1>5. SetTarget(Prepared(p), {}, others) /\ target' = Prepared(p) BY DEF others, SetTarget
<1>6. /\ pass'[p].pc = "succeed" /\ pass'[p].name = q.name /\ pass'[p].snap = q.snap
      /\ pass'[p].freshRes => q.freshRes
  <2>1. SameWork(others[p], pass'[p]) BY <1>3, <1>5, WorkKept
  <2>2. /\ others[p].pc = "succeed" /\ others[p].name = q.name /\ others[p].snap = q.snap
        /\ others[p].freshRes = q.freshRes
    BY <1>1, <1>4 DEF Pass
  <2> QED BY <2>1, <2>2 DEF SameWork
<1>7. Recorded(target)' /\ target'.exists /\ target'.owner = q.name
  BY <1>1, <1>2, <1>5, PreparedHolds DEF Recorded
<1>8. ASSUME NEW r \in Resource, SameSpec(r, q.snap) PROVE StampedFor(r)' BY <1>2, <1>5, <1>8, StampWritten
<1>9. Leads(pass[p])'
  <2>1. PICK n \in Names : n = q.name BY <1>2
  <2>2. pass'[p].freshRes => StampedFor(res[n])'
    <3> SUFFICES ASSUME pass'[p].freshRes PROVE StampedFor(res[n])' OBVIOUS
    <3>1. PICK r \in Resource : r = res'[n] BY <1>1
    <3>2. SameSpec(r, q.snap) BY <1>2, <1>6, <2>1, <3>1 DEF SameSpec
    <3>3. StampedFor(r)' BY <1>8, <3>2
    <3> QED BY <3>1, <3>3 DEF StampedFor, Holds, Config, Version
  <2>3. UNCHANGED res OBVIOUS
  <2> QED BY <1>2, <1>6, <2>1, <2>2, <2>3 DEF Leads, SameSpec
<1>10. ASSUME NEW n \in Names, NEW r \in Resource, target'.owner = n, res'[n].observed = res'[n].gen, r = res'[n]
       PROVE  StampedFor(r)'
  <2>1. SameSpec(r, q.snap) BY <1>2, <1>7, <1>10 DEF SameSpec
  <2> QED BY <1>8, <2>1
<1>11. \A n \in Names : res'[n].observed <= res'[n].gen BY DEF OneLeaderInv
<1> QED BY <1>7, <1>9, <1>10, <1>11, LeaderStep

\* It reports a generation as observed: the target holds that, if it is its own.
LEMMA LeaderReports ==
  ASSUME OperatorInv, OneLeaderInv, [Next]_vars, NEW p \in Passes, Alone(p)', Succeed(p) \/ Fail(p)
  PROVE  OneLeaderInv'
<1> DEFINE q == pass[p]
<1>1. /\ Leads(q) /\ q.snap \in Resource /\ res \in [Names -> Resource] /\ pass \in [Passes -> Pass]
      /\ Recorded(target)
  BY LeaderParts, PassType
<1>2. PICK n \in Names : n = q.name BY <1>1 DEF Leads, Succeed, Fail
<1>3. ASSUME NEW status \in Resource, SameSpec(status, q.snap), status.gen = q.snap.gen, status.observed = status.gen,
             q.freshRes /\ target.owner = n => StampedFor(q.snap), SetStatus(p, status)
      PROVE  OneLeaderInv'
  <2>1. UNCHANGED <<upstream, target, altered>> BY <1>3 DEF SetStatus
  <2>2. CASE q.freshRes /\ SetResource(n, status, [pass EXCEPT ![p] = Idle])
    <3> DEFINE others == [pass EXCEPT ![p] = Idle]
    <3>1. others \in [Passes -> Pass] /\ others[p] = Idle BY <1>1, PassType
    <3> HIDE DEF others
    <3>2. SetResource(n, status, others) BY <2>2 DEF others
    <3>3. pass'[p].pc = "idle" BY <3>1, <3>2, WorkKept, IdleType DEF SameWork
    <3>4. Leads(pass[p])' BY <3>3 DEF Leads
    <3>5. res' = [res EXCEPT ![n] = status] BY <2>2 DEF SetResource
    <3>6. \A m \in Names : res'[m] = IF m = n THEN status ELSE res[m] BY <1>1, <3>5
    <3>7. status.gen \in Nat BY <1>1, <1>3 DEF Resource
    <3>8. \A m \in Names : res'[m].observed <= res'[m].gen BY <1>3, <3>6, <3>7 DEF OneLeaderInv
    <3>9. ASSUME NEW m \in Names, NEW r \in Resource, target'.owner = m, res'[m].observed = res'[m].gen, r = res'[m]
          PROVE  StampedFor(r)'
      <4>1. target.owner = m BY <2>1, <3>9
      <4>2. CASE m = n
        <5>1. StampedFor(q.snap) /\ SameSpec(r, q.snap) BY <1>3, <2>2, <3>6, <3>9, <4>1, <4>2
        <5>2. StampedFor(r) BY <5>1 DEF StampedFor, Holds, SameSpec, Version, Config
        <5> QED BY <2>1, <5>2, StampKept DEF StampStays
      <4>3. CASE m # n
        <5>1. StampedFor(r) BY <3>6, <3>9, <4>1, <4>3 DEF OneLeaderInv
        <5> QED BY <2>1, <5>1, StampKept DEF StampStays
      <4> QED BY <4>2, <4>3
    <3>10. Recorded(target)' /\ (~target.exists => target.owner = NoName)'
      BY <1>1, <2>1 DEF Recorded, OneLeaderInv
    <3> QED BY <3>4, <3>8, <3>9, <3>10, LeaderStep
  <2>3. CASE pass' = [pass EXCEPT ![p] = Idle] /\ UNCHANGED res BY <2>1, <2>3, LeaderRefused
  <2> QED BY <1>2, <1>3, <2>2, <2>3 DEF SetStatus
<1> DEFINE synced == [q.snap EXCEPT !.ver = q.got, !.observed = q.snap.gen]
           failed == [q.snap EXCEPT !.observed = q.snap.gen]
<1>4. /\ synced \in Resource /\ failed \in Resource /\ SameSpec(synced, q.snap) /\ SameSpec(failed, q.snap)
      /\ synced.gen = q.snap.gen /\ synced.observed = q.snap.gen
      /\ failed.gen = q.snap.gen /\ failed.observed = q.snap.gen
  BY <1>1, PassType DEF Resource, SameSpec
<1>5. (q.pc = "succeed" /\ SetStatus(p, synced)) \/ (q.pc = "fail" /\ SetStatus(p, failed)) BY DEF Succeed, Fail
<1> HIDE DEF synced, failed
<1>6. q.freshRes /\ target.owner = n => StampedFor(q.snap) BY <1>1, <1>2, <1>5 DEF Leads
<1> QED BY <1>3, <1>4, <1>5, <1>6

LEMMA LeaderUsers ==
  ASSUME OperatorInv, OneLeaderInv, [Next]_vars, NEW p \in Passes, Alone(p)',
         \/ DeleteTarget \/ WriteOther \/ Unstamp \/ CollectGarbage \/ \E e \in Envs : Publish(e)
         \/ \E n \in Names : EditSpec(n) \/ RemoveResource(n)
  PROVE  OneLeaderInv'
<1>1. /\ Recorded(target) /\ target \in Secret /\ res \in [Names -> Resource] /\ pass \in [Passes -> Pass]
      /\ ~target.exists => target.owner = NoName
      /\ \A n \in Names : res[n].observed <= res[n].gen
  BY LeaderParts DEF OneLeaderInv
<1>2. CASE DeleteTarget \/ CollectGarbage
  <2>1. SetTarget(NoTarget, {}, pass) /\ UNCHANGED <<upstream, res>> BY <1>2 DEF DeleteTarget, CollectGarbage
  <2>2. target' = NoTarget /\ SameWork(pass[p], pass'[p]) BY <1>1, <2>1, WorkKept DEF SetTarget
  <2> QED BY <1>1, <2>1, <2>2, NoTargetRecorded, LeaderWaits DEF SameSpec
<1>3. CASE WriteOther \/ Unstamp
  <2>1. PICK new \in Secret, keys \in SUBSET DataKeys :
          /\ SetTarget(new, keys, pass) /\ Recorded(new) /\ StampStays
          /\ new.owner = target.owner /\ (~new.exists => ~target.exists)
    BY <1>1, <1>3, OthersKeepStamp
  <2>2. UNCHANGED <<upstream, res>> BY <1>3, Zenon DEF WriteOther, Unstamp
  <2>3. target' = new /\ SameWork(pass[p], pass'[p]) BY <1>1, <2>1, WorkKept DEF SetTarget
  <2>4. \A r \in Resource : StampedFor(r) => StampedFor(r)' BY <2>1, <2>2, StampKept
  <2> QED BY <1>1, <2>1, <2>2, <2>3, <2>4, LeaderWaits DEF SameSpec
<1>4. ASSUME NEW f \in Envs, Publish(f) PROVE OneLeaderInv'
  <2>1. UNCHANGED <<res, target, altered, pass>> BY <1>4 DEF Publish
  <2>2. \A r \in Resource : StampedFor(r) => StampedFor(r)' BY <1>4, <2>1, StampKept DEF StampStays
  <2>3. SameWork(pass[p], pass'[p]) BY <2>1 DEF SameWork
  <2> QED BY <1>1, <2>1, <2>2, <2>3, LeaderWaits DEF SameSpec
<1>5. ASSUME NEW n \in Names, NEW new \in Resource, SetResource(n, new, pass), UNCHANGED <<upstream, target, altered>>,
             new.observed <= new.gen, new.observed = new.gen => res[n].observed = res[n].gen /\ SameSpec(new, res[n])
      PROVE  OneLeaderInv'
  <2>1. \A m \in Names : res'[m] = IF m = n THEN new ELSE res[m] BY <1>1, <1>5 DEF SetResource
  <2>2. SameWork(pass[p], pass'[p]) /\ (pass'[p].freshRes => pass'[p].name # n) BY <1>1, <1>5, WorkKept
  <2>3. \A r \in Resource : StampedFor(r) => StampedFor(r)' BY <1>5, StampKept DEF StampStays
  <2>4. \A m \in Names :
          /\ res'[m].observed <= res'[m].gen
          /\ res'[m].observed = res'[m].gen => res[m].observed = res[m].gen /\ SameSpec(res'[m], res[m])
          /\ res'[m] = res[m] \/ (pass'[p].freshRes => pass'[p].name # m)
    BY <1>1, <1>5, <2>1, <2>2 DEF SameSpec
  <2> QED BY <1>1, <1>5, <2>2, <2>3, <2>4, LeaderWaits
<1>6. ASSUME NEW n \in Names, EditSpec(n) PROVE OneLeaderInv'
  <2>1. PICK e \in Envs, policy \in Policies :
          SetResource(n, [res[n] EXCEPT !.gen = @ + 1, !.env = e, !.policy = policy], pass)
    BY <1>6, MixType, Zenon DEF EditSpec
  <2>2. UNCHANGED <<upstream, target, altered>> BY <1>6, Zenon DEF EditSpec
  <2> DEFINE gen == res[n].gen + 1
             new == [res[n] EXCEPT !.gen = gen, !.env = e, !.policy = policy]
  <2>3. res[n] \in Resource /\ res[n].observed <= res[n].gen BY <1>1
  <2>4. gen \in Nat /\ res[n].observed < gen /\ res[n].observed \in Nat BY <2>3 DEF Resource
  <2> HIDE DEF gen
  <2>5. new \in Resource /\ new.gen = gen /\ new.observed = res[n].observed BY <2>3, <2>4 DEF Resource
  <2>6. SetResource(n, new, pass) BY <2>1 DEF gen
  <2> HIDE DEF new
  <2>7. new.observed <= new.gen /\ new.observed # new.gen BY <2>4, <2>5
  <2> QED BY <1>5, <2>2, <2>5, <2>6, <2>7
<1>7. ASSUME NEW n \in Names, RemoveResource(n) PROVE OneLeaderInv'
  <2> DEFINE new == [res[n] EXCEPT !.exists = FALSE]
  <2>1. new \in Resource /\ SameSpec(new, res[n]) /\ new.gen = res[n].gen /\ new.observed = res[n].observed
    BY <1>1 DEF Resource, SameSpec
  <2>2. SetResource(n, new, pass) /\ UNCHANGED <<upstream, target, altered>> BY <1>7 DEF RemoveResource
  <2> HIDE DEF new
  <2> QED BY <1>1, <1>5, <2>1, <2>2
<1> QED BY <1>2, <1>3, <1>4, <1>6, <1>7

\* Only passes of the mix run, and the mix stays.
Working == \A p \in Passes : pass[p].pc # "idle" => p \in mix.passes

LEMMA WorkingNext == ASSUME OperatorInv, Working, [Next]_vars PROVE Working' /\ UNCHANGED mix
<1>1. pass \in [Passes -> Pass] BY DEF OperatorInv, OperatorTypeOK
<1>2. ASSUME NEW p \in Passes, NEW q, pass' = [pass EXCEPT ![p] = q], UNCHANGED mix, pass[p].pc # "idle" \/ p \in mix.passes
      PROVE  Working'
  BY <1>1, <1>2 DEF Working
<1>3. ASSUME NEW others \in [Passes -> Pass], NEW new, NEW keys, NEW n, UNCHANGED mix,
             SetTarget(new, keys, others) \/ SetResource(n, new, others),
             \A p \in Passes : others[p].pc # "idle" => pass[p].pc # "idle"
      PROVE  Working'
  <2>1. \A p \in Passes : pass'[p].pc = others[p].pc BY <1>3, LabelsKept
  <2> QED BY <1>3, <2>1 DEF Working
<1>4. ASSUME NEW p \in Passes, Goto(p, "fail"), pass[p].pc # "idle", UNCHANGED mix PROVE Working'
  BY <1>2, <1>4 DEF Goto
<1>5. ASSUME NEW p \in Passes, NEW n \in Names, Load(p, n) PROVE Working' /\ UNCHANGED mix
  <2>1. /\ pass' = [pass EXCEPT ![p] = [Idle EXCEPT !.pc = "target", !.name = n, !.snap = res[n], !.freshRes = TRUE]]
        /\ p \in mix.passes /\ UNCHANGED mix
    BY <1>5 DEF Load
  <2> QED BY <1>2, <2>1
<1>6. ASSUME NEW p \in Passes, LoadTarget(p) \/ Fetch(p) PROVE Working' /\ UNCHANGED mix
  <2>1. UNCHANGED mix /\ pass[p].pc # "idle" BY <1>6 DEF LoadTarget, Fetch
  <2>2. \E q : pass' = [pass EXCEPT ![p] = q] BY <1>6, Zenon DEF LoadTarget, Fetch
  <2> QED BY <1>2, <2>1, <2>2
<1>7. ASSUME NEW p \in Passes, NEW label \in {"succeed", "fail"}, pass[p].pc # "idle", UNCHANGED mix,
             SetTarget(Prepared(p), {}, [pass EXCEPT ![p].pc = label])
      PROVE  Working'
  <2> DEFINE others == [pass EXCEPT ![p].pc = label]
  <2>1. others \in [Passes -> Pass] BY <1>1, PassType DEF Labels
  <2>2. \A q \in Passes : others[q].pc # "idle" => pass[q].pc # "idle" BY <1>1, <1>7
  <2> HIDE DEF others
  <2>3. SetTarget(Prepared(p), {}, others) BY <1>7 DEF others
  <2> QED BY <1>3, <1>7, <2>1, <2>2, <2>3
<1>8. ASSUME NEW p \in Passes, WriteTarget(p) \/ LoseAnswer(p) PROVE Working' /\ UNCHANGED mix
  <2>1. UNCHANGED mix /\ pass[p].pc # "idle" BY <1>8 DEF WriteTarget, LoseAnswer
  <2> QED BY <1>2, <1>4, <1>7, <1>8, <2>1 DEF WriteTarget, LoseAnswer
<1>9. ASSUME NEW p \in Passes, Succeed(p) \/ Fail(p) PROVE Working' /\ UNCHANGED mix
  <2>1. PICK status : SetStatus(p, status) BY <1>9, Zenon DEF Succeed, Fail
  <2>2. UNCHANGED mix /\ pass[p].pc # "idle" BY <1>9 DEF Succeed, Fail, SetStatus
  <2> DEFINE others == [pass EXCEPT ![p] = Idle]
  <2>3. others \in [Passes -> Pass] BY PassType
  <2>4. \A q \in Passes : others[q].pc # "idle" => pass[q].pc # "idle" BY <1>1, <2>2
  <2>5. SetResource(pass[p].name, status, others) \/ pass' = others BY <2>1 DEF SetStatus
  <2> HIDE DEF others
  <2>6. CASE pass' = others BY <1>2, <2>2, <2>6 DEF others
  <2> QED BY <1>3, <2>2, <2>3, <2>4, <2>5, <2>6
<1>10. ASSUME NEW p \in Passes, Fault(p) \/ Crash(p) PROVE Working' /\ UNCHANGED mix
  <2>1. UNCHANGED mix /\ pass[p].pc # "idle" BY <1>10 DEF Fault, Crash
  <2>2. pass' = [pass EXCEPT ![p] = Idle] \/ Goto(p, "fail") BY <1>10, Zenon DEF Fault, Crash
  <2> QED BY <1>2, <1>4, <2>1, <2>2
<1>11. ASSUME \/ DeleteTarget \/ WriteOther \/ Unstamp \/ CollectGarbage
              \/ \E n \in Names : EditSpec(n) \/ RemoveResource(n)
       PROVE  Working' /\ UNCHANGED mix
  <2>1. UNCHANGED mix
    BY <1>11, Zenon DEF DeleteTarget, WriteOther, Unstamp, CollectGarbage, EditSpec, RemoveResource
  <2>2. \E new, keys, n : SetTarget(new, keys, pass) \/ SetResource(n, new, pass)
    BY <1>11, Zenon DEF DeleteTarget, WriteOther, Unstamp, CollectGarbage, EditSpec, RemoveResource
  <2> QED BY <1>1, <1>3, <2>1, <2>2
<1>12. ASSUME NEW e \in Envs, Publish(e) PROVE Working' /\ UNCHANGED mix
  BY <1>12 DEF Publish, Working
<1>13. CASE UNCHANGED vars BY <1>13 DEF vars, Working
<1>14. CASE Next
  BY <1>5, <1>6, <1>8, <1>9, <1>10, <1>11, <1>12, <1>14, Zenon DEF Next, Continue
<1> QED BY <1>13, <1>14

LEMMA LeaderNext == ASSUME OperatorInv, Working, OneLeaderInv, [Next]_vars, OneLeader(mix) PROVE OneLeaderInv'
<1>1. PICK p \in Passes : mix.passes = {p} BY DEF OneLeader
<1>2. /\ \A q \in Passes : q # p => pass[q].pc = "idle"
      /\ Alone(p)'
  BY <1>1, WorkingNext DEF Working, Alone
<1>3. ~ (faults < mix.faults) BY DEF OneLeader, OperatorInv, OperatorTypeOK
<1>4. ASSUME NEW q \in Passes PROVE ~ (Fault(q) \/ LoseAnswer(q) \/ Crash(q))
  BY <1>3, Zenon DEF Fault, LoseAnswer, Crash
<1>5. ASSUME NEW q \in Passes, q # p PROVE ~ (Continue(q) \/ \E n \in Names : Load(q, n))
  <2>1. pass[q].pc = "idle" /\ q \notin mix.passes BY <1>1, <1>2, <1>5
  <2> QED BY <2>1 DEF Continue, LoadTarget, Fetch, WriteTarget, Succeed, Fail, Load
<1>6. ASSUME WriteTarget(p) PROVE OneLeaderInv'
  <2>1. pass[p].pc = "write" /\ UNCHANGED <<upstream, res>> BY <1>6, Zenon DEF WriteTarget
  <2>2. CASE SetTarget(Prepared(p), {}, [pass EXCEPT ![p].pc = "succeed"]) BY <1>2, <2>1, <2>2, LeaderAccepted
  <2>3. CASE /\ UNCHANGED <<target, altered>>
             /\ pass' = [pass EXCEPT ![p] = Idle] \/ (Goto(p, "fail") /\ ~target.exists)
    BY <1>2, <2>1, <2>3, LeaderRefused
  <2> QED BY <1>6, <2>2, <2>3 DEF WriteTarget
<1>7. CASE UNCHANGED vars
  <2>1. UNCHANGED <<upstream, res, target, altered, pass>> BY <1>7 DEF vars
  <2>2. Leads(pass[p]) BY LeaderParts
  <2>3. pass' = [pass EXCEPT ![p] = pass[p]] BY <2>1, LeaderParts
  <2> QED BY <1>2, <2>1, <2>2, <2>3, LeaderReads
<1>8. CASE Next
  <2>1. ASSUME Continue(p) \/ \E n \in Names : Load(p, n) PROVE OneLeaderInv'
    BY <1>2, <1>6, <2>1, LeaderLoads, LeaderReports DEF Continue
  <2>2. ASSUME NEW q \in Passes,
               (\E n \in Names : Load(q, n)) \/ Continue(q) \/ Fault(q) \/ LoseAnswer(q) \/ Crash(q)
        PROVE  OneLeaderInv'
    BY <1>4, <1>5, <2>1, <2>2
  <2> QED BY <1>2, <1>8, <2>2, LeaderUsers, Zenon DEF Next
<1> QED BY <1>7, <1>8

-----------------------------------------------------------------------------
(* Theorems about conditional requests. *)

\* In every mix the operator's invariant holds, and in the mixes without spec edits, or
\* of one leader without faults, the target holds what it is stamped with (Reconcile,
\* succeed and fail).
THEOREM ConditionalInvariant == Spec => []ConditionalInv
<1>1. ASSUME Init PROVE ConditionalInv
  <2>1. OperatorInv /\ AllRecorded /\ target.owner = NoName /\ \A p \in Passes : pass[p].pc = "idle"
    BY <1>1, InitInv, StartRecorded
  <2>2. UneditedInv BY <2>1 DEF UneditedInv
  <2>3. \A p \in Passes : LeaderSound(p) BY <2>1 DEF LeaderSound
  <2>4. ASSUME NEW n \in Names PROVE res[n].observed <= res[n].gen
    <3>1. res[n] \in Created \/ res[n] = Unread BY <1>1 DEF Init
    <3>2. \A r \in Created : r.observed = 0 /\ r.gen = 1 BY DEF Created
    <3> QED BY <3>1, <3>2 DEF Unread
  <2>5. OneLeaderInv BY <2>1, <2>3, <2>4, NamesAssumption DEF OneLeaderInv
  <2> QED BY <2>1, <2>2, <2>5 DEF ConditionalInv
<1>2. ConditionalInv /\ [Next]_vars => ConditionalInv'
  <2> SUFFICES ASSUME ConditionalInv, [Next]_vars PROVE ConditionalInv' OBVIOUS
  <2>1. OperatorInv /\ Working BY DEF ConditionalInv, Working
  <2>2. OperatorInv' /\ Working' /\ UNCHANGED mix BY <2>1, NextInv, WorkingNext
  <2>3. Unedited(mix) => UneditedInv' BY <2>1, UneditedNext DEF ConditionalInv
  <2>4. OneLeader(mix) => OneLeaderInv' BY <2>1, LeaderNext DEF ConditionalInv
  <2> QED BY <2>2, <2>3, <2>4 DEF ConditionalInv, Working, Unedited, OneLeader
<1> QED BY <1>1, <1>2, PTL DEF Spec

\* Where every mix is without spec edits, or of one leader without faults, no pass sends
\* an unsafe conditional request (knownVersion in Reconcile): with any number of passes,
\* crashes, failed or unanswered writes, deletions, other writers and resources that are
\* removed in the first kind, whatever users do to the specs in the second.  Only the
\* keys others altered under the stamp are excused.
THEOREM ConditionalRequestsSafe ==
  ASSUME \A m \in Mixes : Unedited(m) \/ OneLeader(m)
  PROVE  Spec => []ConditionalSafe
<1>1. ConditionalInv => ConditionalSafe
  <2> SUFFICES ASSUME ConditionalInv PROVE ConditionalSafe OBVIOUS
  <2>1. OperatorInv /\ mix \in Mixes BY DEF ConditionalInv, OperatorInv, OperatorTypeOK
  <2>2. UneditedInv \/ OneLeaderInv BY <2>1 DEF ConditionalInv
  <2>3. Recorded(target) BY <2>2 DEF UneditedInv, OneLeaderInv, AllRecorded
  <2>4. ASSUME NEW n \in Names, target.owner = n, res[n].observed = res[n].gen PROVE StampedFor(res[n])
    BY <2>2, <2>4, NamesAssumption DEF UneditedInv, OneLeaderInv
  <2> QED BY <2>1, <2>3, <2>4, StampMakesSafe
<1> QED BY <1>1, ConditionalInvariant, PTL
=============================================================================
