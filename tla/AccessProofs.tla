----------------------------- MODULE AccessProofs ---------------------------
(***************************************************************************)
(* Theorems about Access, for any accounts, organizations, requests and    *)
(* mixes of calls: the invariant AccessInv, by one lemma per kind of step, *)
(* and the promises of packages/auth and packages/tenancy it implies.      *)
(***************************************************************************)
EXTENDS Access, FiniteSetTheorems, TLAPS

-----------------------------------------------------------------------------
LEMMA RowOf ==
  ASSUME NEW S, NEW s \in Seq(S), NEW i \in DOMAIN s
  PROVE  s[i] \in S
OBVIOUS

\* What the columns of the tables refer to.
LEMMA Rows ==
  ASSUME TablesSound
  PROVE  /\ \A t \in DOMAIN tokens : tokens[t].user \in Users
         /\ \A s \in DOMAIN sessions : sessions[s].user \in Users /\ sessions[s].org \in Orgs \cup {NoOrg}
         /\ \A i \in DOMAIN invitations :
              invitations[i].org \in Orgs /\ invitations[i].user \in Users /\ invitations[i].role \in ProjectOverrideRoles
         /\ \A k \in DOMAIN keys : keys[k].org \in Orgs /\ keys[k].user \in Users
<1>1. tokens \in Seq(Token) /\ sessions \in Seq(Session) /\ invitations \in Seq(Invitation) /\ keys \in Seq(Key)
  BY DEF TablesSound
<1>2. /\ \A t \in DOMAIN tokens : tokens[t] \in Token
      /\ \A s \in DOMAIN sessions : sessions[s] \in Session
      /\ \A i \in DOMAIN invitations : invitations[i] \in Invitation
      /\ \A k \in DOMAIN keys : keys[k] \in Key
  BY <1>1, RowOf
<1> QED BY <1>2 DEF Token, Session, Invitation, Key

(* What a step of r may do, said once. *)

\* Nothing another request relies on changes.
Gentle(r) ==
  /\ DOMAIN tokens \subseteq DOMAIN tokens'
  /\ \A t \in DOMAIN tokens : tokens'[t].kind = tokens[t].kind /\ tokens'[t].user = tokens[t].user
  /\ \A t \in DOMAIN tokens : Free(r, TokenRow(t)) \/ tokens'[t].consumed = tokens[t].consumed
  /\ DOMAIN sessions \subseteq DOMAIN sessions'
  /\ DOMAIN keys \subseteq DOMAIN keys'
  /\ DOMAIN invitations \subseteq DOMAIN invitations'
  /\ \A i \in DOMAIN invitations :
       /\ invitations'[i].org = invitations[i].org
       /\ invitations'[i].user = invitations[i].user
       /\ invitations'[i].role = invitations[i].role
       /\ Free(r, InvitationRow(i)) \/ Pending(i)' = Pending(i)
  /\ \A o \in Orgs, u \in Users :
       \/ members'[o][u] = members[o][u]
       \/ Free(r, MemberRow(o, u))
       \/ \A v \in Users : members[o][v] = "none"
  /\ \A o \in Orgs : HasOwner(o) => HasOwner(o)'

\* The other requests stay where they are, and r locks only what is free.
Alone(r) ==
  /\ DOMAIN req' = Requests
  /\ \A q \in Requests \ {r} : req'[q] = req[q]
  /\ \A row \in req'[r].locks : row \in req[r].locks \/ Free(r, row)
  /\ mix' = mix

\* The tables packages/auth, tenancy, authz and api-keys own.
people == <<users, tokens, sessions, members, overrides, invitations, keys>>

\* r goes on with what it knows, to a statement nothing is demanded at.
Carried(r) ==
  /\ DOMAIN req'[r] = DOMAIN Blank
  /\ req'[r].op = req[r].op /\ req'[r].user = req[r].user /\ req'[r].who = req[r].who /\ req'[r].org = req[r].org
  /\ req'[r].slot = req[r].slot /\ req'[r].role = req[r].role /\ req'[r].pw = req[r].pw /\ req'[r].sess = req[r].sess
  /\ req[r].pc \notin {"idle", "account", "verify", "session", "authenticate", "touch", "key", "begin", "token"}
  /\ req'[r].pc \notin {"authenticate", "key", "touch", "enter", "switch", "reference", "actor", "target", "apply",
                        "find", "sessions", "begin", "invitation", "join", "existing", "invitation-insert",
                        "token", "user", "account", "verify", "session", "permit", "signup", "invite", "override", "resolve", "create",
                        "options", "key-insert"}

Settled(r) == Formed(r) /\ Decided(r) /\ Accepting(r) /\ Inviting(r) /\ Consuming(r)

Kept(r) == Alone(r) /\ Gentle(r) /\ TablesSound' /\ Settled(r)' /\ GuessesCounted'


\* Such a step keeps the invariant: the rows another request decided on are locked.
LEMMA KeptPreserves ==
  ASSUME AccessInv, NEW r \in Requests, Kept(r)
  PROVE  AccessInv'
<1>1. DOMAIN req' = Requests /\ mix' \in Mixes /\ TablesSound' /\ GuessesCounted'
  BY DEF Kept, Alone, AccessInv
<1>2. Exclusive'
  <2> SUFFICES ASSUME NEW p \in Requests, NEW q \in Requests \ {p}, NEW row,
                      row \in req'[p].locks, row \in req'[q].locks
               PROVE  FALSE
    BY DEF Exclusive
  <2>1. CASE p = r
    BY <2>1 DEF Kept, Alone, Free, AccessInv, Exclusive
  <2>2. CASE q = r
    BY <2>2 DEF Kept, Alone, Free, AccessInv, Exclusive
  <2>3. CASE p # r /\ q # r
    BY <2>3 DEF Kept, Alone, AccessInv, Exclusive
  <2> QED BY <2>1, <2>2, <2>3
<1>3. ASSUME NEW q \in Requests PROVE Settled(q)'
  <2>1. CASE q = r
    BY <2>1 DEF Kept
  <2>2. CASE q # r
    <3>1. req'[q] = req[q] /\ Settled(q) /\ Gentle(r)
      BY <2>2 DEF Kept, Alone, AccessInv, Settled
    <3>2. Formed(q)'
      BY <3>1 DEF Settled, Formed, Gentle
    <3>3. Decided(q)'
      <4>1. ASSUME ChangesMember(q)
            PROVE  /\ req[q].org \in Orgs /\ req[q].who \in Users
                   /\ members'[req[q].org][req[q].who] = members[req[q].org][req[q].who]
        <5>1. req[q].org \in Orgs /\ req[q].who \in Users
          BY <3>1, <4>1 DEF Settled, Formed, Decided, ChangesMember, RoutePermission
        <5>2. ~Free(r, MemberRow(req[q].org, req[q].who))
          BY <2>2, <3>1, <4>1 DEF Settled, Decided, Free
        <5>3. ~\A v \in Users : members[req[q].org][v] = "none"
          BY <5>1, <3>1, <4>1 DEF Settled, Decided
        <5> QED BY <5>1, <5>2, <5>3, <3>1 DEF Gentle
      <4>2. ChangesMember(q)' <=> ChangesMember(q)
        BY <3>1 DEF ChangesMember
      <4> QED BY <3>1, <4>1, <4>2 DEF Settled, Decided, ValidChange
    <3>4. Accepting(q)'
      <4>1. req[q].op = "acceptInvitation" =>
              /\ req[q].slot \in DOMAIN invitations
              /\ invitations'[req[q].slot].org = invitations[req[q].slot].org
              /\ invitations'[req[q].slot].user = invitations[req[q].slot].user
              /\ invitations'[req[q].slot].role = invitations[req[q].slot].role
        BY <3>1 DEF Settled, Formed, Gentle
      <4>2. ASSUME req[q].pc = "join" PROVE Pending(req[q].slot)'
        <5>1. req[q].slot \in DOMAIN invitations /\ Pending(req[q].slot)
          BY <3>1, <4>1, <4>2 DEF Settled, Accepting
        <5>2. ~Free(r, InvitationRow(req[q].slot))
          BY <2>2, <3>1, <4>2 DEF Settled, Accepting, Free
        <5> QED BY <5>1, <5>2, <3>1 DEF Gentle
      <4> QED BY <3>1, <4>1, <4>2 DEF Settled, Accepting
    <3>5. Inviting(q)'
      <4>1. req[q].pc \in {"existing", "invitation-insert"} => req[q].org \in Orgs
        BY <3>1 DEF Settled, Inviting, Formed, RoutePermission
      <4> QED BY <3>1, <4>1 DEF Settled, Inviting, Gentle
    <3>6. Consuming(q)'
      BY <2>2, <3>1 DEF Settled, Consuming, Formed, Gentle, Free
    <3> QED BY <3>2, <3>3, <3>4, <3>5, <3>6 DEF Settled
  <2> QED BY <2>1, <2>2
<1> QED BY <1>1, <1>2, <1>3 DEF AccessInv, Settled


\* A request that has ended relies on nothing.
LEMMA EndedSettled ==
  ASSUME NEW r \in Requests, req'[r] = Blank
  PROVE  Settled(r)' /\ req'[r].locks = {} /\ req'[r].pc = "idle"
BY DEF Blank, Settled, Formed, Decided, ChangesMember, Accepting, Inviting, Consuming, RoutePermission

LEMMA SameTables ==
  ASSUME AccessInv, NEW r \in Requests, UNCHANGED people
  PROVE  Gentle(r) /\ TablesSound'
<1>1. Gentle(r)
  BY DEF people, Gentle, Pending, HasOwner
<1>2. TablesSound'
  BY DEF people, AccessInv, TablesSound, OneOwner, HasOwner, IsMember, RoleIn
<1> QED BY <1>1, <1>2

\* A step that lets nobody guess who did not keeps the count.
LEMMA SameGuesses ==
  ASSUME AccessInv, NEW r \in Requests, Alone(r), failures' = failures,
         req'[r].pc \in {"account", "verify"} =>
           /\ req[r].pc \in {"account", "verify"}
           /\ req'[r].user = req[r].user /\ req'[r].ip = req[r].ip
  PROVE  GuessesCounted'
<1> SUFFICES ASSUME NEW id \in Identities
             PROVE  failures'[id] + Cardinality(Guessing(id))' <= MaxFailures - 1 + Cardinality(Requests)
  BY DEF AccessInv, GuessesCounted
<1>1. Guessing(id)' \subseteq Guessing(id)
  BY DEF Guessing, LoginIdentities, Alone
<1>2. IsFiniteSet(Guessing(id)) /\ IsFiniteSet(Requests)
  BY RequestsAssumption, FS_Subset DEF Guessing
<1>3. /\ Cardinality(Guessing(id)') <= Cardinality(Guessing(id))
      /\ Cardinality(Guessing(id)') \in Nat /\ Cardinality(Guessing(id)) \in Nat /\ Cardinality(Requests) \in Nat
  BY <1>1, <1>2, FS_Subset, FS_CardinalityType
<1>4. failures[id] \in Nat /\ failures[id] + Cardinality(Guessing(id)) <= MaxFailures - 1 + Cardinality(Requests)
  BY DEF AccessInv, GuessesCounted
<1> QED BY <1>3, <1>4, PoolAssumption


LEMMA PlainKept ==
  ASSUME AccessInv, NEW r \in Requests, Alone(r), req'[r] = Blank \/ Carried(r), UNCHANGED people, failures' = failures
  PROVE  Kept(r)
<1>1. Gentle(r) /\ TablesSound'
  BY SameTables
<1>2. GuessesCounted'
  <2>1. req'[r].pc \notin {"account", "verify"}
    BY EndedSettled DEF Carried
  <2> QED BY <2>1, SameGuesses
<1>3. Settled(r)'
  <2>1. CASE req'[r] = Blank
    BY <2>1, EndedSettled
  <2>2. CASE Carried(r)
    <3>1. Formed(r)
      BY DEF AccessInv
    <3> QED BY <2>2, <3>1 DEF Carried, Settled, Formed, Decided, ChangesMember, Accepting, Inviting, Consuming, people
  <2> QED BY <2>1, <2>2
<1> QED BY <1>1, <1>2, <1>3 DEF Kept

LEMMA Ends ==
  ASSUME AccessInv, NEW r \in Requests, End(r), mix' = mix
  PROVE  Alone(r) /\ req'[r] = Blank
BY EndedSettled DEF End, Alone, AccessInv

-----------------------------------------------------------------------------
(* Projects. *)

LEMMA ProjectStepCarries ==
  ASSUME AccessInv, NEW r \in Requests, ProjectStep(r)
  PROVE  /\ UNCHANGED people /\ failures' = failures /\ mix' = mix
         /\ End(r) \/ (Alone(r) /\ Carried(r))
<1>1. UNCHANGED people /\ failures' = failures /\ mix' = mix
  BY DEF ProjectStep, people, tables, client, InsertProject, SelectProject, WriteProject, LockProject, ActiveProject, CountEnvironments,
         InsertEnvironment, SelectEnvironment, WriteEnvironment, CountBeforeDelete, CheckOrder, FindEnvironments,
         FindSecrets, LockRow, CommitCascade, CommitOrder
<1>2. DOMAIN req = Requests /\ DOMAIN req[r] = DOMAIN Blank
  BY DEF AccessInv, Formed
<1>4. ASSUME ~End(r) PROVE Alone(r) /\ Carried(r)
  <2>1. CASE SelectProject(r)
    <3>1. PICK label \in {"project-write", "project-row"} :
            \E slug, stamp : Put(r, [req[r] EXCEPT !.pc = label, !.slug = slug, !.stamp = stamp])
      BY <1>4, <2>1 DEF SelectProject
    <3> QED BY <1>1, <1>2, <2>1, <3>1 DEF SelectProject, Alone, Carried, Put, Blank
  <2>2. CASE LockProject(r)
    <3>1. PICK stamp, locks :
            /\ Put(r, [req[r] EXCEPT !.pc = "environments", !.stamp = stamp, !.locks = locks])
            /\ locks \in {req[r].locks, req[r].locks \cup {ProjectRow(req[r].project)}}
      BY <2>2 DEF LockProject
    <3> QED BY <1>1, <1>2, <2>2, <3>1 DEF LockProject, Alone, Carried, Put, Blank
  <2>3. CASE ActiveProject(r)
    <3>1. PICK label \in {"count", "order", "environments"} : Goto(r, label)
      BY <1>4, <2>3 DEF ActiveProject
    <3> QED BY <1>1, <1>2, <2>3, <3>1 DEF ActiveProject, Alone, Carried, Goto, Blank
  <2>4. CASE CountEnvironments(r)
    <3>1. Goto(r, "environment-insert")
      BY <1>4, <2>4 DEF CountEnvironments
    <3> QED BY <1>1, <1>2, <2>4, <3>1 DEF CountEnvironments, Alone, Carried, Goto, Blank
  <2>5. CASE SelectEnvironment(r)
    <3>1. \/ Put(r, [req[r] EXCEPT !.pc = "active", !.stamp = EnvironmentOf(r).deletedAt])
          \/ \E label \in {"environment-write", "census"} : \E slug, protected :
               Put(r, [req[r] EXCEPT !.pc = label, !.slug = slug, !.protected = protected])
      BY <1>4, <2>5 DEF SelectEnvironment
    <3>2. CASE Put(r, [req[r] EXCEPT !.pc = "active", !.stamp = EnvironmentOf(r).deletedAt])
      BY <1>1, <1>2, <2>5, <3>2 DEF SelectEnvironment, Alone, Carried, Put, Blank
    <3>3. ASSUME NEW label \in {"environment-write", "census"}, NEW slug, NEW protected,
                 Put(r, [req[r] EXCEPT !.pc = label, !.slug = slug, !.protected = protected])
          PROVE  Alone(r) /\ Carried(r)
      BY <1>1, <1>2, <2>5, <3>3 DEF SelectEnvironment, Alone, Carried, Put, Blank
    <3> QED BY <3>1, <3>2, <3>3
  <2>6. CASE CountBeforeDelete(r)
    <3>1. Put(r, [req[r] EXCEPT !.pc = "environments", !.stamp = Now])
      BY <1>4, <2>6 DEF CountBeforeDelete
    <3> QED BY <1>1, <1>2, <2>6, <3>1 DEF CountBeforeDelete, Alone, Carried, Put, Blank
  <2>7. CASE CheckOrder(r)
    <3>1. Goto(r, "environments")
      BY <1>4, <2>7 DEF CheckOrder
    <3> QED BY <1>1, <1>2, <2>7, <3>1 DEF CheckOrder, Alone, Carried, Goto, Blank
  <2>8. CASE FindEnvironments(r)
    BY <1>1, <1>2, <1>4, <2>8 DEF FindEnvironments, Alone, Carried, Put, Goto, Blank
  <2>9. CASE FindSecrets(r)
    BY <1>1, <1>2, <1>4, <2>9 DEF FindSecrets, Alone, Carried, Put, Goto, Blank
  <2>10. CASE LockRow(r)
    BY <1>1, <1>2, <1>4, <2>10 DEF LockRow, Alone, Carried, Put, Goto, Blank, Free
  <2> QED BY <1>4, <2>1, <2>2, <2>3, <2>4, <2>5, <2>6, <2>7, <2>8, <2>9, <2>10
             DEF ProjectStep, InsertProject, WriteProject, InsertEnvironment, WriteEnvironment, CommitCascade, CommitOrder
<1>5. CASE End(r)
  BY <1>1, <1>5
<1>6. CASE ~End(r)
  BY <1>1, <1>4, <1>6
<1> QED BY <1>5, <1>6

LEMMA ProjectStepKept ==
  ASSUME AccessInv, NEW r \in Requests, ProjectStep(r)
  PROVE  Kept(r)
BY ProjectStepCarries, Ends, PlainKept


-----------------------------------------------------------------------------
(* Accounts. *)

LEMMA GoesKept ==
  ASSUME AccessInv, NEW r \in Requests, Alone(r), Gentle(r), TablesSound', Settled(r)', failures' = failures,
         req'[r].pc \notin {"account", "verify"}
  PROVE  Kept(r)
BY SameGuesses DEF Kept

\* The answer is sent with the COMMIT of what the transaction wrote.
LEMMA EndKept ==
  ASSUME AccessInv, NEW r \in Requests, End(r), mix' = mix, Gentle(r), TablesSound', failures' = failures
  PROVE  Kept(r)
BY Ends, EndedSettled, GoesKept

\* A request that did not end changed no table.
LEMMA ReadKept ==
  ASSUME AccessInv, NEW r \in Requests, Alone(r), Settled(r)', UNCHANGED people, failures' = failures,
         req'[r].pc \notin {"account", "verify"}
  PROVE  Kept(r)
BY SameTables, GoesKept

\* What the statement that locks a row leaves of its request.
LEMMA Locked ==
  ASSUME AccessInv, NEW r \in Requests, NEW row, NEW label, Lock(r, row, label), mix' = mix
  PROVE  /\ req'[r].pc = label /\ DOMAIN req'[r] = DOMAIN Blank
         /\ req'[r].op = req[r].op /\ req'[r].user = req[r].user /\ req'[r].who = req[r].who /\ req'[r].org = req[r].org
         /\ req'[r].slot = req[r].slot /\ req'[r].role = req[r].role /\ req'[r].pw = req[r].pw
         /\ req'[r].locks = req[r].locks \cup {row}
         /\ Alone(r)
<1>1. DOMAIN req = Requests /\ DOMAIN req[r] = DOMAIN Blank
  BY DEF AccessInv, Formed
<1>2. Put(r, [req[r] EXCEPT !.pc = label, !.locks = @ \cup {row}]) /\ Free(r, row)
  BY DEF Lock
<1> QED BY <1>1, <1>2 DEF Put, Alone, Blank

LEMMA SelectAccountKept ==
  ASSUME AccessInv, NEW r \in Requests, SelectAccount(r)
  PROVE  Kept(r)
<1>1. DOMAIN req = Requests /\ DOMAIN req[r] = DOMAIN Blank /\ Settled(r)
  BY DEF AccessInv, Formed, Settled
<1>2. PICK hash, verified : Put(r, [req[r] EXCEPT !.pc = "verify", !.hash = hash, !.verified = verified])
  BY DEF SelectAccount
<1>3. UNCHANGED people /\ failures' = failures /\ mix' = mix /\ req[r].pc = "account"
  BY DEF SelectAccount, people, tables, client
<1>4. /\ req' = [req EXCEPT ![r] = req'[r]]
      /\ req'[r].pc = "verify" /\ DOMAIN req'[r] = DOMAIN Blank
      /\ req'[r].op = req[r].op /\ req'[r].user = req[r].user /\ req'[r].who = req[r].who /\ req'[r].org = req[r].org
      /\ req'[r].slot = req[r].slot /\ req'[r].role = req[r].role /\ req'[r].pw = req[r].pw /\ req'[r].ip = req[r].ip
      /\ req'[r].locks = req[r].locks
  BY <1>1, <1>2 DEF Put, Blank
<1>5. Alone(r)
  BY <1>1, <1>3, <1>4 DEF Alone
<1>6. Settled(r)'
  BY <1>1, <1>3, <1>4 DEF Settled, Formed, Decided, ChangesMember, Accepting, Inviting, Consuming, people
<1>7. GuessesCounted'
  BY <1>3, <1>4, <1>5, SameGuesses
<1> QED BY <1>3, <1>5, <1>6, <1>7, SameTables DEF Kept

LEMMA VerifyPasswordKept ==
  ASSUME AccessInv, NEW r \in Requests, VerifyPassword(r)
  PROVE  Kept(r)
<1>1. DOMAIN req = Requests /\ DOMAIN req[r] = DOMAIN Blank /\ Settled(r) /\ GuessesCounted
  BY DEF AccessInv, Formed, Settled
<1>2. UNCHANGED people /\ mix' = mix /\ req[r].pc = "verify" /\ (End(r) \/ Goto(r, "session"))
  BY DEF VerifyPassword, people, tables, client
<1>3. Alone(r) /\ Settled(r)' /\ req'[r].pc \notin {"account", "verify"}
  <2>1. CASE End(r)
    BY <1>2, <2>1, Ends, EndedSettled
  <2>2. CASE Goto(r, "session")
    <3>1. /\ req'[r].pc = "session" /\ DOMAIN req'[r] = DOMAIN Blank
          /\ req'[r].op = req[r].op /\ req'[r].user = req[r].user /\ req'[r].who = req[r].who /\ req'[r].org = req[r].org
          /\ req'[r].slot = req[r].slot /\ req'[r].role = req[r].role /\ req'[r].pw = req[r].pw
          /\ req'[r].locks = req[r].locks
      BY <1>1, <2>2 DEF Goto, Blank
    <3>2. Alone(r)
      BY <1>1, <1>2, <2>2, <3>1 DEF Goto, Alone
    <3> QED BY <1>1, <1>2, <3>1, <3>2 DEF Settled, Formed, Decided, ChangesMember, Accepting, Inviting, Consuming, people
  <2> QED BY <1>2, <2>1, <2>2
<1>4. GuessesCounted'
  <2> DEFINE ids == LoginIdentities(r)
  <2>1. failures' \in [Identities -> Nat]
    BY <1>1 DEF VerifyPassword, RecordFailure, Clear, GuessesCounted
  <2> SUFFICES ASSUME NEW id \in Identities
               PROVE  failures'[id] + Cardinality(Guessing(id))' <= MaxFailures - 1 + Cardinality(Requests)
    BY <2>1 DEF GuessesCounted
  <2>2. Guessing(id)' \subseteq Guessing(id) \ {r} /\ (id \in ids => r \in Guessing(id))
    BY <1>2, <1>3 DEF Guessing, LoginIdentities, Alone
  <2>3. IsFiniteSet(Guessing(id)) /\ IsFiniteSet(Guessing(id) \ {r})
    BY RequestsAssumption, FS_Subset DEF Guessing
  <2>4. /\ Cardinality(Guessing(id)') <= Cardinality(Guessing(id) \ {r})
        /\ Cardinality(Guessing(id)') \in Nat /\ Cardinality(Guessing(id)) \in Nat
        /\ Cardinality(Guessing(id) \ {r}) \in Nat /\ Cardinality(Requests) \in Nat
        /\ Cardinality(Guessing(id) \ {r}) = Cardinality(Guessing(id)) - (IF r \in Guessing(id) THEN 1 ELSE 0)
    BY <2>2, <2>3, RequestsAssumption, FS_Subset, FS_CardinalityType, FS_RemoveElement
  <2>5. failures[id] \in Nat /\ failures[id] + Cardinality(Guessing(id)) <= MaxFailures - 1 + Cardinality(Requests)
    BY <1>1 DEF GuessesCounted
  <2>6. failures'[id] <= failures[id] + (IF id \in ids THEN 1 ELSE 0)
    BY <2>5 DEF VerifyPassword, RecordFailure, Clear
  <2>7. failures'[id] \in Nat
    BY <2>1
  <2> HIDE DEF ids
  <2> QED BY <2>2, <2>4, <2>5, <2>6, <2>7, PoolAssumption
<1> QED BY <1>2, <1>3, <1>4, SameTables DEF Kept


LEMMA AccountReadKept ==
  ASSUME AccessInv, NEW r \in Requests,
         SelectOrganization(r) \/ Authenticate(r) \/ Touch(r) \/ FindSessions(r) \/ LockSession(r) \/ LookupAccount(r)
           \/ BeginWork(r) \/ LockToken(r) \/ LockAccount(r)
  PROVE  Kept(r)
<1>1. DOMAIN req = Requests /\ DOMAIN req[r] = DOMAIN Blank /\ Settled(r) /\ TablesSound
  BY DEF AccessInv, Formed, Settled
<1>2. UNCHANGED people /\ failures' = failures /\ mix' = mix
  BY DEF people, tables, client, SelectOrganization, Authenticate, Touch, FindSessions, LockSession, LookupAccount,
         BeginWork, LockToken, LockAccount
<1>3. CASE End(r)
  BY <1>2, <1>3, Ends, PlainKept
<1>4. ASSUME ~End(r) PROVE Alone(r) /\ Settled(r)' /\ req'[r].pc \notin {"account", "verify"}
  <2>1. CASE SelectOrganization(r)
    <3>1. PICK o \in Orgs : Put(r, [req[r] EXCEPT !.pc = "enter", !.org = o])
      BY <1>4, <2>1 DEF SelectOrganization
    <3>2. /\ req[r].pc = "options" /\ req'[r].pc = "enter" /\ DOMAIN req'[r] = DOMAIN Blank
          /\ req'[r].op = req[r].op /\ req'[r].user = req[r].user /\ req'[r].who = req[r].who /\ req'[r].org = o
          /\ req'[r].slot = req[r].slot /\ req'[r].role = req[r].role /\ req'[r].pw = req[r].pw
          /\ req'[r].locks = req[r].locks
      BY <1>1, <2>1, <3>1 DEF SelectOrganization, Put, Blank
    <3>3. Alone(r)
      BY <1>1, <1>2, <3>1, <3>2 DEF Alone, Put
    <3> QED BY <1>1, <1>2, <3>2, <3>3 DEF Settled, Formed, Decided, ChangesMember, Accepting, Inviting, Consuming, people
  <2>2. CASE Authenticate(r)
    <3>1. PICK o : /\ Put(r, [req[r] EXCEPT !.pc = "touch", !.user = sessions[req[r].sess].user, !.org = o])
                   /\ o = IF req[r].op \in DOMAIN RoutePermission THEN sessions[req[r].sess].org ELSE req[r].org
      BY <1>4, <2>2 DEF Authenticate
    <3>2. /\ req[r].pc = "authenticate" /\ req'[r].pc = "touch" /\ DOMAIN req'[r] = DOMAIN Blank
          /\ req'[r].op = req[r].op /\ req'[r].user = sessions[req[r].sess].user
          /\ req'[r].who = req[r].who /\ req'[r].org = o
          /\ req'[r].slot = req[r].slot /\ req'[r].role = req[r].role /\ req'[r].pw = req[r].pw
          /\ req'[r].locks = req[r].locks
      BY <1>1, <2>2, <3>1 DEF Authenticate, Put, Blank
    <3>3. Alone(r)
      BY <1>1, <1>2, <3>1, <3>2 DEF Alone, Put
    <3>4. sessions[req[r].sess].user \in Users /\ sessions[req[r].sess].org \in Orgs \cup {NoOrg}
      BY <1>1, <3>2, Rows DEF Settled, Formed
    <3> QED BY <1>1, <1>2, <3>1, <3>2, <3>3, <3>4
            DEF Settled, Formed, Decided, ChangesMember, Accepting, Inviting, Consuming, people, RoutePermission
  <2>3. CASE Touch(r)
    <3>1. Goto(r, AfterSession(req[r].op)) /\ ~(req[r].op \in DOMAIN RoutePermission /\ req[r].org = NoOrg)
      BY <1>4, <2>3 DEF Touch
    <3>2. /\ req[r].pc = "touch" /\ req'[r].pc = AfterSession(req[r].op) /\ DOMAIN req'[r] = DOMAIN Blank
          /\ req'[r].op = req[r].op /\ req'[r].user = req[r].user /\ req'[r].who = req[r].who /\ req'[r].org = req[r].org
          /\ req'[r].slot = req[r].slot /\ req'[r].role = req[r].role /\ req'[r].pw = req[r].pw
          /\ req'[r].locks = req[r].locks
      BY <1>1, <2>3, <3>1 DEF Touch, Goto, Blank
    <3>3. Alone(r)
      BY <1>1, <1>2, <3>1, <3>2 DEF Alone, Goto
    <3>4. /\ AfterSession(req[r].op) \in {"options", "revoke", "create", "resolve", "enter"}
          /\ AfterSession(req[r].op) = "create" => req[r].op = "createOrganization"
          /\ AfterSession(req[r].op) = "resolve" => req[r].op = "acceptInvitation"
          /\ AfterSession(req[r].op) = "enter" =>
               req[r].op \notin {"login", "logout", "createOrganization", "acceptInvitation"}
      BY DEF AfterSession
    <3>5. req[r].user \in Users /\ (AfterSession(req[r].op) \in {"enter", "create"} => req[r].org \in Orgs)
      BY <1>1, <3>1, <3>2, <3>4 DEF Settled, Formed
    <3> QED BY <1>1, <1>2, <3>1, <3>2, <3>3, <3>4, <3>5
            DEF Settled, Formed, Decided, ChangesMember, Accepting, Inviting, Consuming, people
  <2>4. CASE FindSessions(r)
    <3>1. PICK todo : Put(r, [req[r] EXCEPT !.pc = "sessions", !.todo = todo])
      BY <2>4 DEF FindSessions
    <3>2. /\ req[r].pc = "find" /\ req'[r].pc = "sessions" /\ DOMAIN req'[r] = DOMAIN Blank
          /\ req'[r].op = req[r].op /\ req'[r].user = req[r].user /\ req'[r].who = req[r].who /\ req'[r].org = req[r].org
          /\ req'[r].slot = req[r].slot /\ req'[r].role = req[r].role /\ req'[r].pw = req[r].pw
          /\ req'[r].locks = req[r].locks /\ req'[r].target = req[r].target /\ req'[r].actor = req[r].actor
      BY <1>1, <2>4, <3>1 DEF FindSessions, Put, Blank
    <3>3. Alone(r)
      BY <1>1, <1>2, <3>1, <3>2 DEF Alone, Put
    <3> QED BY <1>1, <1>2, <3>2, <3>3
            DEF Settled, Formed, Decided, ChangesMember, ValidChange, Accepting, Inviting, Consuming, people
  <2>5. CASE LockSession(r)
    <3>1. PICK s : Free(r, SessionRow(s)) /\ Put(r, [req[r] EXCEPT !.todo = @ \ {s}, !.locks = @ \cup {SessionRow(s)}])
      BY <2>5 DEF LockSession
    <3>2. /\ req[r].pc = "sessions" /\ req'[r].pc = "sessions" /\ DOMAIN req'[r] = DOMAIN Blank
          /\ req'[r].op = req[r].op /\ req'[r].user = req[r].user /\ req'[r].who = req[r].who /\ req'[r].org = req[r].org
          /\ req'[r].slot = req[r].slot /\ req'[r].role = req[r].role /\ req'[r].pw = req[r].pw
          /\ req'[r].locks = req[r].locks \cup {SessionRow(s)}
          /\ req'[r].target = req[r].target /\ req'[r].actor = req[r].actor
      BY <1>1, <2>5, <3>1 DEF LockSession, Put, Blank
    <3>3. Alone(r)
      BY <1>1, <1>2, <3>1, <3>2 DEF Alone, Put
    <3> QED BY <1>1, <1>2, <3>2, <3>3
            DEF Settled, Formed, Decided, ChangesMember, ValidChange, Accepting, Inviting, Consuming, people
  <2>6. CASE LookupAccount(r)
    <3>1. Goto(r, "issue") /\ req[r].pc = "lookup"
      BY <1>4, <2>6 DEF LookupAccount
    <3>2. Alone(r) /\ Carried(r)
      BY <1>1, <1>2, <3>1 DEF Goto, Alone, Carried, Blank
    <3> QED BY <1>1, <1>2, <3>2 DEF Carried, Settled, Formed, Decided, ChangesMember, Accepting, Inviting, Consuming, people
  <2>7. CASE BeginWork(r)
    <3>1. PICK n : Put(r, [req[r] EXCEPT !.pc = IF req[r].op = "acceptInvitation" THEN "invitation" ELSE "token",
                                         !.conns = n])
      BY <2>7 DEF BeginWork, Connect, Put
    <3>2. /\ req[r].pc = "begin" /\ req'[r].pc = (IF req[r].op = "acceptInvitation" THEN "invitation" ELSE "token")
          /\ DOMAIN req'[r] = DOMAIN Blank
          /\ req'[r].op = req[r].op /\ req'[r].user = req[r].user /\ req'[r].who = req[r].who /\ req'[r].org = req[r].org
          /\ req'[r].slot = req[r].slot /\ req'[r].role = req[r].role /\ req'[r].pw = req[r].pw
          /\ req'[r].locks = req[r].locks
      BY <1>1, <2>7, <3>1 DEF BeginWork, Put, Blank
    <3>3. Alone(r)
      BY <1>1, <1>2, <3>1, <3>2 DEF Alone, Put
    <3> QED BY <1>1, <1>2, <3>2, <3>3 DEF Settled, Formed, Decided, ChangesMember, Accepting, Inviting, Consuming, people
  <2>8. CASE LockToken(r)
    <3>1. /\ Put(r, [req[r] EXCEPT !.pc = "user", !.user = tokens[req[r].slot].user,
                                   !.locks = @ \cup {TokenRow(req[r].slot)}])
          /\ Free(r, TokenRow(req[r].slot)) /\ ~tokens[req[r].slot].consumed
      BY <1>4, <2>8 DEF LockToken, Usable
    <3>2. /\ req[r].pc = "token" /\ req'[r].pc = "user" /\ DOMAIN req'[r] = DOMAIN Blank
          /\ req'[r].op = req[r].op /\ req'[r].user = tokens[req[r].slot].user
          /\ req'[r].who = req[r].who /\ req'[r].org = req[r].org
          /\ req'[r].slot = req[r].slot /\ req'[r].role = req[r].role /\ req'[r].pw = req[r].pw
          /\ req'[r].locks = req[r].locks \cup {TokenRow(req[r].slot)}
      BY <1>1, <2>8, <3>1 DEF LockToken, Put, Blank
    <3>3. Alone(r)
      BY <1>1, <1>2, <3>1, <3>2 DEF Alone, Put
    <3>4. tokens[req[r].slot].user \in Users
      BY <1>1, <3>2, Rows DEF Settled, Formed
    <3> QED BY <1>1, <1>2, <3>1, <3>2, <3>3, <3>4
            DEF Settled, Formed, Decided, ChangesMember, Accepting, Inviting, Consuming, people, RoutePermission
  <2>9. CASE LockAccount(r)
    <3>1. req[r].pc = "user" /\ req[r].op = "resetPassword" /\ Lock(r, UserRow(req[r].user), "find")
      BY <2>9 DEF LockAccount
    <3>2. /\ req'[r].pc = "find" /\ DOMAIN req'[r] = DOMAIN Blank
          /\ req'[r].op = req[r].op /\ req'[r].user = req[r].user /\ req'[r].who = req[r].who /\ req'[r].org = req[r].org
          /\ req'[r].slot = req[r].slot /\ req'[r].role = req[r].role /\ req'[r].pw = req[r].pw
          /\ req'[r].locks = req[r].locks \cup {UserRow(req[r].user)}
          /\ Alone(r)
      BY <1>2, <3>1, Locked
    <3> QED BY <1>1, <1>2, <3>1, <3>2
            DEF Settled, Formed, Decided, ChangesMember, Accepting, Inviting, Consuming, people, RoutePermission
  <2> QED BY <2>1, <2>2, <2>3, <2>4, <2>5, <2>6, <2>7, <2>8, <2>9
<1> QED BY <1>2, <1>3, <1>4, ReadKept


\* Tables keep their shape.
LEMMA AppendRow ==
  ASSUME NEW S, NEW s \in Seq(S), NEW row \in S
  PROVE  /\ Append(s, row) \in Seq(S) /\ DOMAIN s \subseteq DOMAIN Append(s, row)
         /\ Len(s) + 1 \in DOMAIN Append(s, row)
         /\ \A i \in DOMAIN s : Append(s, row)[i] = s[i]
OBVIOUS

LEMMA UpdateRows ==
  ASSUME NEW S, NEW s \in Seq(S), NEW t, DOMAIN t = DOMAIN s, t = [i \in DOMAIN s |-> t[i]], \A i \in DOMAIN s : t[i] \in S
  PROVE  t \in Seq(S)
<1>1. DOMAIN s = 1 .. Len(s) /\ Len(s) \in Nat
  OBVIOUS
<1> QED BY <1>1

LEMMA InsertSessionKept ==
  ASSUME AccessInv, NEW r \in Requests, InsertSession(r)
  PROVE  Kept(r)
<1>1. DOMAIN req = Requests /\ DOMAIN req[r] = DOMAIN Blank /\ Settled(r) /\ TablesSound
  BY DEF AccessInv, Formed, Settled
<1>2. /\ UNCHANGED <<users, tokens, members, overrides, invitations, keys>> /\ failures' = failures /\ mix' = mix
      /\ req[r].pc = "session" /\ Put(r, [req[r] EXCEPT !.pc = "authenticate", !.sess = Len(sessions) + 1])
      /\ sessions' = Append(sessions, [user |-> req[r].user, org |-> NoOrg, live |-> TRUE])
  BY DEF InsertSession, client
<1>3. [user |-> req[r].user, org |-> NoOrg, live |-> TRUE] \in Session
  BY <1>1, <1>2 DEF Settled, Formed, Session
<1>4. /\ sessions \in Seq(Session) /\ sessions' \in Seq(Session) /\ DOMAIN sessions \subseteq DOMAIN sessions'
      /\ Len(sessions) + 1 \in DOMAIN sessions'
  BY <1>1, <1>2, <1>3, AppendRow DEF TablesSound
<1>5. /\ req'[r].pc = "authenticate" /\ DOMAIN req'[r] = DOMAIN Blank /\ req'[r].sess = Len(sessions) + 1
      /\ req'[r].op = req[r].op /\ req'[r].user = req[r].user /\ req'[r].who = req[r].who /\ req'[r].org = req[r].org
      /\ req'[r].slot = req[r].slot /\ req'[r].role = req[r].role /\ req'[r].pw = req[r].pw
      /\ req'[r].locks = req[r].locks
  BY <1>1, <1>2 DEF Put, Blank
<1>6. Alone(r)
  BY <1>1, <1>2, <1>5 DEF Alone, Put
<1>7. Settled(r)'
  BY <1>1, <1>2, <1>4, <1>5 DEF Settled, Formed, Decided, ChangesMember, Accepting, Inviting, Consuming
<1>8. Gentle(r)
  BY <1>2, <1>4 DEF Gentle, Pending, HasOwner
<1>9. TablesSound'
  BY <1>1, <1>2, <1>4 DEF TablesSound, OneOwner, HasOwner, IsMember, RoleIn
<1> QED BY <1>2, <1>5, <1>6, <1>7, <1>8, <1>9, GoesKept

LEMMA RevokeSessionKept ==
  ASSUME AccessInv, NEW r \in Requests, RevokeSession(r)
  PROVE  Kept(r)
<1>1. TablesSound
  BY DEF AccessInv
<1>2. /\ UNCHANGED <<users, tokens, members, overrides, invitations, keys>> /\ failures' = failures /\ mix' = mix
      /\ End(r) /\ sessions' = [sessions EXCEPT ![req[r].sess].live = FALSE]
  BY DEF RevokeSession, client
<1>3. sessions' \in Seq(Session) /\ DOMAIN sessions' = DOMAIN sessions
  <2>1. sessions \in Seq(Session) /\ \A s \in DOMAIN sessions : sessions[s] \in Session
    BY <1>1, RowOf DEF TablesSound
  <2>2. DOMAIN sessions' = DOMAIN sessions /\ sessions' = [s \in DOMAIN sessions |-> sessions'[s]]
        /\ \A s \in DOMAIN sessions : sessions'[s] \in Session
    BY <1>2, <2>1 DEF Session
  <2> QED BY <2>1, <2>2, UpdateRows
<1>4. Gentle(r)
  BY <1>2, <1>3 DEF Gentle, Pending, HasOwner
<1>5. TablesSound'
  BY <1>1, <1>2, <1>3 DEF TablesSound, OneOwner, HasOwner, IsMember, RoleIn
<1> QED BY <1>2, <1>4, <1>5, EndKept

LEMMA InsertAccountKept ==
  ASSUME AccessInv, NEW r \in Requests, InsertAccount(r)
  PROVE  Kept(r)
<1>1. TablesSound /\ Settled(r) /\ req[r].pc = "signup"
  BY DEF AccessInv, Settled, InsertAccount
<1>2. UNCHANGED <<sessions, members, overrides, invitations, keys>> /\ failures' = failures /\ mix' = mix /\ End(r)
  BY DEF InsertAccount, client
<1>3. /\ users' \in [Users -> User] /\ tokens' \in Seq(Token) /\ DOMAIN tokens \subseteq DOMAIN tokens'
      /\ \A t \in DOMAIN tokens : tokens'[t] = tokens[t]
  <2>1. CASE UNCHANGED <<users, tokens>>
    BY <1>1, <2>1 DEF TablesSound
  <2>2. CASE /\ users' = [users EXCEPT ![req[r].user] = [exists |-> TRUE, pw |-> req[r].pw, verified |-> FALSE]]
             /\ tokens' = Append(tokens, [kind |-> "verify", user |-> req[r].user, consumed |-> FALSE, fresh |-> TRUE])
    <3>1. req[r].user \in Users /\ req[r].pw \in Nat
      BY <1>1 DEF Settled, Formed
    <3>2. /\ [exists |-> TRUE, pw |-> req[r].pw, verified |-> FALSE] \in User
          /\ [kind |-> "verify", user |-> req[r].user, consumed |-> FALSE, fresh |-> TRUE] \in Token
      BY <3>1 DEF User, Token
    <3>3. users \in [Users -> User] /\ tokens \in Seq(Token)
      BY <1>1 DEF TablesSound
    <3> QED BY <2>2, <3>1, <3>2, <3>3, AppendRow
  <2> QED BY <2>1, <2>2 DEF InsertAccount
<1>4. Gentle(r)
  BY <1>2, <1>3 DEF Gentle, Pending, HasOwner
<1>5. TablesSound'
  BY <1>1, <1>2, <1>3 DEF TablesSound, OneOwner, HasOwner, IsMember, RoleIn
<1> QED BY <1>2, <1>4, <1>5, EndKept

LEMMA IssueTokenKept ==
  ASSUME AccessInv, NEW r \in Requests, IssueToken(r)
  PROVE  Kept(r)
<1> DEFINE row == [kind |-> IF req[r].op = "requestPasswordReset" THEN "reset" ELSE "verify",
                   user |-> req[r].user, consumed |-> FALSE, fresh |-> TRUE]
<1>1. TablesSound /\ Settled(r) /\ req[r].pc = "issue"
  BY DEF AccessInv, Settled, IssueToken
<1>2. /\ UNCHANGED <<users, sessions, members, overrides, invitations, keys>> /\ failures' = failures /\ mix' = mix
      /\ End(r) /\ tokens' = Append(tokens, row)
  BY DEF IssueToken, client
<1>3. row \in Token
  BY <1>1 DEF Settled, Formed, Token
<1>4. /\ tokens' \in Seq(Token) /\ DOMAIN tokens \subseteq DOMAIN tokens' /\ \A t \in DOMAIN tokens : tokens'[t] = tokens[t]
  BY <1>1, <1>2, <1>3, AppendRow DEF TablesSound
<1>5. Gentle(r)
  BY <1>2, <1>4 DEF Gentle, Pending, HasOwner
<1>6. TablesSound'
  BY <1>1, <1>2, <1>4 DEF TablesSound, OneOwner, HasOwner, IsMember, RoleIn
<1> QED BY <1>2, <1>5, <1>6, EndKept


\* A row r holds is free for r.
LEMMA HeldFree ==
  ASSUME AccessInv, NEW r \in Requests, NEW row \in req[r].locks
  PROVE  Free(r, row)
BY DEF AccessInv, Exclusive, Free

LEMMA ConsumeToken ==
  ASSUME AccessInv, NEW r \in Requests, req[r].op \in {"resetPassword", "verifyEmail"},
         req[r].pc \in {"user", "find", "sessions"}, tokens' = [tokens EXCEPT ![req[r].slot].consumed = TRUE]
  PROVE  /\ tokens' \in Seq(Token) /\ DOMAIN tokens' = DOMAIN tokens
         /\ \A t \in DOMAIN tokens : tokens'[t].kind = tokens[t].kind /\ tokens'[t].user = tokens[t].user
         /\ \A t \in DOMAIN tokens : Free(r, TokenRow(t)) \/ tokens'[t].consumed = tokens[t].consumed
<1>1. tokens \in Seq(Token) /\ \A t \in DOMAIN tokens : tokens[t] \in Token
  BY RowOf DEF AccessInv, TablesSound
<1>2. Free(r, TokenRow(req[r].slot))
  BY HeldFree DEF AccessInv, Consuming
<1>3. DOMAIN tokens' = DOMAIN tokens /\ tokens' = [t \in DOMAIN tokens |-> tokens'[t]]
      /\ \A t \in DOMAIN tokens : tokens'[t] \in Token
  BY <1>1 DEF Token
<1>4. \A t \in DOMAIN tokens : /\ tokens'[t].kind = tokens[t].kind /\ tokens'[t].user = tokens[t].user
                               /\ t # req[r].slot => tokens'[t].consumed = tokens[t].consumed
  BY <1>1 DEF Token
<1> QED BY <1>1, <1>2, <1>3, <1>4, UpdateRows

LEMMA OtherTables ==
  ASSUME TablesSound, UNCHANGED <<members, overrides, invitations, keys>>,
         users' \in [Users -> User], tokens' \in Seq(Token), sessions' \in Seq(Session)
  PROVE  TablesSound'
BY DEF TablesSound, OneOwner, HasOwner, IsMember, RoleIn

LEMMA VerifyEmailKept ==
  ASSUME AccessInv, NEW r \in Requests, VerifyEmail(r)
  PROVE  Kept(r)
<1>1. TablesSound
  BY DEF AccessInv
<1>2. /\ UNCHANGED <<sessions, members, overrides, invitations, keys>> /\ failures' = failures /\ mix' = mix
      /\ req[r].pc = "user" /\ req[r].op = "verifyEmail" /\ End(r)
      /\ users' = [users EXCEPT ![req[r].user].verified = TRUE]
      /\ tokens' = [tokens EXCEPT ![req[r].slot].consumed = TRUE]
  BY DEF VerifyEmail, client
<1>3. users' \in [Users -> User]
  BY <1>1, <1>2 DEF TablesSound, User
<1>4. Gentle(r)
  BY <1>2, ConsumeToken DEF Gentle, Pending, HasOwner
<1>5. TablesSound'
  <2>1. tokens' \in Seq(Token) /\ sessions' \in Seq(Session)
    BY <1>1, <1>2, ConsumeToken DEF TablesSound
  <2> QED BY <1>1, <1>2, <1>3, <2>1, OtherTables
<1> QED BY <1>2, <1>4, <1>5, EndKept

LEMMA ResetPasswordKept ==
  ASSUME AccessInv, NEW r \in Requests, ResetPassword(r)
  PROVE  Kept(r)
<1>1. TablesSound /\ Formed(r)
  BY DEF AccessInv
<1>2. /\ UNCHANGED <<members, overrides, invitations, keys>> /\ failures' = failures /\ mix' = mix
      /\ req[r].pc = "sessions" /\ req[r].op = "resetPassword" /\ End(r)
      /\ users' = [users EXCEPT ![req[r].user].pw = req[r].pw]
      /\ sessions' = [s \in DOMAIN sessions |->
                        IF s \in Updated(r) THEN [sessions[s] EXCEPT !.live = FALSE] ELSE sessions[s]]
      /\ tokens' = [tokens EXCEPT ![req[r].slot].consumed = TRUE]
  BY DEF ResetPassword, client
<1>3. users' \in [Users -> User]
  <2>1. req[r].pw \in Nat
    BY <1>1, <1>2 DEF Formed
  <2> QED BY <1>1, <1>2, <2>1 DEF TablesSound, User
<1>4. sessions' \in Seq(Session) /\ DOMAIN sessions' = DOMAIN sessions
  <2>1. sessions \in Seq(Session) /\ \A s \in DOMAIN sessions : sessions[s] \in Session
    BY <1>1, RowOf DEF TablesSound
  <2>2. DOMAIN sessions' = DOMAIN sessions /\ sessions' = [s \in DOMAIN sessions |-> sessions'[s]]
        /\ \A s \in DOMAIN sessions : sessions'[s] \in Session
    BY <1>2, <2>1 DEF Session
  <2> QED BY <2>1, <2>2, UpdateRows
<1>5. Gentle(r)
  BY <1>2, <1>4, ConsumeToken DEF Gentle, Pending, HasOwner
<1>6. TablesSound'
  <2>1. tokens' \in Seq(Token)
    BY <1>2, ConsumeToken
  <2> QED BY <1>1, <1>2, <1>3, <1>4, <2>1, OtherTables
<1> QED BY <1>2, <1>5, <1>6, EndKept

LEMMA AccountStepKept ==
  ASSUME AccessInv, NEW r \in Requests, AccountStep(r)
  PROVE  Kept(r)
BY SelectAccountKept, VerifyPasswordKept, AccountReadKept, InsertSessionKept, RevokeSessionKept, InsertAccountKept,
   IssueTokenKept, VerifyEmailKept, ResetPasswordKept DEF AccountStep


-----------------------------------------------------------------------------
(* Members. *)

\* The first statements of the tenant routes demand what the routes are checked for.
LEMMA FirstStatements ==
  ASSUME NEW op \in DOMAIN RoutePermission
  PROVE  /\ FirstStatement(op) = "actor" => op \in {"updateMember", "removeMember"}
         /\ FirstStatement(op) = "override" => op \in {"setOverride", "removeOverride"}
         /\ FirstStatement(op) = "invite" => op = "inviteMember"
         /\ FirstStatement(op) = "invitation" => op = "revokeInvitation"
         /\ FirstStatement(op) \notin {"authenticate", "key", "touch", "enter", "switch", "reference", "target", "apply",
              "find", "sessions", "begin", "join", "existing", "invitation-insert", "token", "user", "account", "verify",
              "session", "permit", "signup", "resolve", "create", "options"}
<1>1. CASE op \in DOMAIN ProjectRoutes
  BY <1>1 DEF FirstStatement, ProjectRoutes, EnvironmentRoutes
<1>2. CASE op \in DOMAIN EnvironmentRoutes
  BY <1>2 DEF FirstStatement, ProjectRoutes, EnvironmentRoutes
<1>3. CASE op \notin DOMAIN ProjectRoutes /\ op \notin DOMAIN EnvironmentRoutes
  BY <1>3 DEF FirstStatement, RoutePermission
<1> QED BY <1>1, <1>2, <1>3

LEMMA EnterKept ==
  ASSUME AccessInv, NEW r \in Requests, ConsumeApiKey(r) \/ Enter(r) \/ Permit(r) \/ Work(r)
  PROVE  Kept(r)
<1>1. DOMAIN req = Requests /\ DOMAIN req[r] = DOMAIN Blank /\ Settled(r) /\ TablesSound
  BY DEF AccessInv, Formed, Settled
<1>2. UNCHANGED people /\ failures' = failures /\ mix' = mix
  BY DEF people, tables, client, ConsumeApiKey, Enter, Permit, Work
<1>3. CASE End(r)
  BY <1>2, <1>3, Ends, PlainKept
<1>4. ASSUME ~End(r) PROVE Alone(r) /\ Settled(r)' /\ req'[r].pc \notin {"account", "verify"}
  <2>1. CASE ConsumeApiKey(r)
    <3> DEFINE k == keys[req[r].key]
    <3>1. Put(r, [req[r] EXCEPT !.pc = "enter", !.user = k.user, !.org = k.org]) /\ req[r].pc = "key"
      BY <1>4, <2>1 DEF ConsumeApiKey
    <3>2. /\ req'[r].pc = "enter" /\ DOMAIN req'[r] = DOMAIN Blank
          /\ req'[r].op = req[r].op /\ req'[r].user = k.user /\ req'[r].who = req[r].who /\ req'[r].org = k.org
          /\ req'[r].slot = req[r].slot /\ req'[r].role = req[r].role /\ req'[r].pw = req[r].pw
          /\ req'[r].locks = req[r].locks
      BY <1>1, <3>1 DEF Put, Blank
    <3>3. Alone(r)
      BY <1>1, <1>2, <3>1, <3>2 DEF Alone, Put
    <3>4. k.user \in Users /\ k.org \in Orgs /\ req[r].op \in DOMAIN RoutePermission
      BY <1>1, <3>1, Rows DEF Settled, Formed
    <3> HIDE DEF k
    <3> QED BY <1>1, <1>2, <3>1, <3>2, <3>3, <3>4
            DEF Settled, Formed, Decided, ChangesMember, Accepting, Inviting, Consuming, people, RoutePermission
  <2>2. CASE Enter(r)
    <3>1. PICK n : Put(r, [req[r] EXCEPT !.pc = IF req[r].op \in DOMAIN RoutePermission THEN "permit" ELSE "switch",
                                         !.conns = n])
      BY <1>4, <2>2 DEF Enter, Connect, Put
    <3>2. /\ req[r].pc = "enter" /\ req'[r].pc = (IF req[r].op \in DOMAIN RoutePermission THEN "permit" ELSE "switch")
          /\ DOMAIN req'[r] = DOMAIN Blank
          /\ req'[r].op = req[r].op /\ req'[r].user = req[r].user /\ req'[r].who = req[r].who /\ req'[r].org = req[r].org
          /\ req'[r].slot = req[r].slot /\ req'[r].role = req[r].role /\ req'[r].pw = req[r].pw
          /\ req'[r].locks = req[r].locks
      BY <1>1, <2>2, <3>1 DEF Enter, Put, Blank
    <3>3. Alone(r)
      BY <1>1, <1>2, <3>1, <3>2 DEF Alone, Put
    <3> QED BY <1>1, <1>2, <3>2, <3>3 DEF Settled, Formed, Decided, ChangesMember, Accepting, Inviting, Consuming, people
  <2>3. CASE Permit(r)
    <3> DEFINE first == FirstStatement(req[r].op)
    <3>1. Goto(r, first) /\ req[r].pc = "permit"
      BY <1>4, <2>3 DEF Permit
    <3>2. /\ req'[r].pc = first /\ DOMAIN req'[r] = DOMAIN Blank
          /\ req'[r].op = req[r].op /\ req'[r].user = req[r].user /\ req'[r].who = req[r].who /\ req'[r].org = req[r].org
          /\ req'[r].slot = req[r].slot /\ req'[r].role = req[r].role /\ req'[r].pw = req[r].pw
          /\ req'[r].locks = req[r].locks
      BY <1>1, <3>1 DEF Goto, Blank
    <3>3. Alone(r)
      BY <1>1, <1>2, <3>1, <3>2 DEF Alone, Goto
    <3>4. req[r].op \in DOMAIN RoutePermission /\ req[r].user \in Users /\ req[r].org \in Orgs
      BY <1>1, <3>1 DEF Settled, Formed
    <3>5. /\ first = "actor" => req[r].op \in {"updateMember", "removeMember"}
          /\ first = "override" => req[r].op \in {"setOverride", "removeOverride"}
          /\ first = "invite" => req[r].op = "inviteMember"
          /\ first = "invitation" => req[r].op = "revokeInvitation"
          /\ first \notin {"authenticate", "key", "touch", "enter", "switch", "reference", "target", "apply",
              "find", "sessions", "begin", "join", "existing", "invitation-insert", "token", "user", "account", "verify",
              "session", "permit", "signup", "resolve", "create", "options"}
      BY <3>4, FirstStatements
    <3> HIDE DEF first
    <3> QED BY <1>1, <1>2, <3>2, <3>3, <3>4, <3>5
            DEF Settled, Formed, Decided, ChangesMember, Accepting, Inviting, Consuming, people
  <2>4. CASE Work(r)
    BY <1>4, <2>4 DEF Work
  <2> QED BY <2>1, <2>2, <2>3, <2>4
<1> QED BY <1>2, <1>3, <1>4, ReadKept


LEMMA MemberReadKept ==
  ASSUME AccessInv, NEW r \in Requests,
         Switch(r) \/ ReadActor(r) \/ LockTarget(r) \/ OpenInvitation(r) \/ ExistingMember(r) \/ ResolveInvitation(r)
           \/ LockInvitation(r) \/ LockApiKey(r)
  PROVE  Kept(r)
<1>1. DOMAIN req = Requests /\ DOMAIN req[r] = DOMAIN Blank /\ Settled(r) /\ TablesSound
  BY DEF AccessInv, Formed, Settled
<1>2. UNCHANGED people /\ failures' = failures /\ mix' = mix
  BY DEF people, tables, client, Switch, ReadActor, LockTarget, OpenInvitation, ExistingMember, ResolveInvitation,
         LockInvitation, LockApiKey
<1>3. CASE End(r)
  BY <1>2, <1>3, Ends, PlainKept
<1>4. ASSUME ~End(r) PROVE Alone(r) /\ Settled(r)' /\ req'[r].pc \notin {"account", "verify"}
  <2>1. CASE Switch(r)
    <3>1. req[r].pc = "switch" /\ Lock(r, SessionRow(req[r].sess), "reference")
      BY <1>4, <2>1 DEF Switch
    <3>2. /\ req'[r].pc = "reference" /\ DOMAIN req'[r] = DOMAIN Blank
          /\ req'[r].op = req[r].op /\ req'[r].user = req[r].user /\ req'[r].who = req[r].who /\ req'[r].org = req[r].org
          /\ req'[r].slot = req[r].slot /\ req'[r].role = req[r].role /\ req'[r].pw = req[r].pw
          /\ req'[r].locks = req[r].locks \cup {SessionRow(req[r].sess)}
          /\ Alone(r)
      BY <1>2, <3>1, Locked
    <3> QED BY <1>1, <1>2, <3>1, <3>2 DEF Settled, Formed, Decided, ChangesMember, Accepting, Inviting, Consuming, people
  <2>2. CASE ReadActor(r)
    <3>1. PICK role : Put(r, [req[r] EXCEPT !.pc = "target", !.actor = role])
      BY <2>2 DEF ReadActor
    <3>2. /\ req[r].pc = "actor" /\ req'[r].pc = "target" /\ DOMAIN req'[r] = DOMAIN Blank
          /\ req'[r].op = req[r].op /\ req'[r].user = req[r].user /\ req'[r].who = req[r].who /\ req'[r].org = req[r].org
          /\ req'[r].slot = req[r].slot /\ req'[r].role = req[r].role /\ req'[r].pw = req[r].pw
          /\ req'[r].locks = req[r].locks
      BY <1>1, <2>2, <3>1 DEF ReadActor, Put, Blank
    <3>3. Alone(r)
      BY <1>1, <1>2, <3>1, <3>2 DEF Alone, Put
    <3> QED BY <1>1, <1>2, <3>2, <3>3 DEF Settled, Formed, Decided, ChangesMember, Accepting, Inviting, Consuming, people
  <2>3. CASE LockTarget(r)
    <3> DEFINE row == MemberRow(req[r].org, req[r].who)
               target == RoleIn(req[r].org, req[r].who)
               label == IF req[r].op = "updateMember" THEN "apply" ELSE "find"
    <3>1. /\ Put(r, [req[r] EXCEPT !.pc = label, !.target = target, !.locks = @ \cup {row}])
          /\ Free(r, row) /\ req[r].pc = "target" /\ target # "none" /\ ValidChange(r, target)
      BY <1>4, <2>3 DEF LockTarget
    <3>2. /\ req'[r].pc = label /\ DOMAIN req'[r] = DOMAIN Blank
          /\ req'[r].op = req[r].op /\ req'[r].user = req[r].user /\ req'[r].who = req[r].who /\ req'[r].org = req[r].org
          /\ req'[r].slot = req[r].slot /\ req'[r].role = req[r].role /\ req'[r].pw = req[r].pw
          /\ req'[r].locks = req[r].locks \cup {row} /\ req'[r].target = target /\ req'[r].actor = req[r].actor
      BY <1>1, <3>1 DEF Put, Blank
    <3>3. Alone(r)
      BY <1>1, <1>2, <3>1, <3>2 DEF Alone, Put
    <3>4. req[r].op \in {"updateMember", "removeMember"}
      BY <1>1, <3>1 DEF Settled, Decided
    <3>5. Decided(r)'
      BY <1>2, <3>1, <3>2, <3>4 DEF Decided, ChangesMember, ValidChange, people, RoleIn
    <3> QED BY <1>1, <1>2, <3>1, <3>2, <3>3, <3>4, <3>5 DEF Settled, Formed, Accepting, Inviting, Consuming, people
  <2>4. CASE OpenInvitation(r)
    <3>1. PICK n : Put(r, [req[r] EXCEPT !.pc = "existing", !.conns = n])
      BY <1>4, <2>4 DEF OpenInvitation, Connect, Put
    <3>2. /\ req[r].pc = "invite" /\ req'[r].pc = "existing" /\ DOMAIN req'[r] = DOMAIN Blank
          /\ req'[r].op = req[r].op /\ req'[r].user = req[r].user /\ req'[r].who = req[r].who /\ req'[r].org = req[r].org
          /\ req'[r].slot = req[r].slot /\ req'[r].role = req[r].role /\ req'[r].pw = req[r].pw
          /\ req'[r].locks = req[r].locks
      BY <1>1, <2>4, <3>1 DEF OpenInvitation, Put, Blank
    <3>3. Alone(r)
      BY <1>1, <1>2, <3>1, <3>2 DEF Alone, Put
    <3>4. req[r].op = "inviteMember" /\ HasOwner(req[r].org)
      <4>1. req[r].op = "inviteMember" /\ req[r].org \in Orgs /\ req[r].user \in Users
        BY <1>1, <3>2 DEF Settled, Formed, RoutePermission
      <4>2. IsMember(req[r].org, req[r].user)
        BY <1>4, <2>4 DEF OpenInvitation, IsMember
      <4> QED BY <1>1, <4>1, <4>2 DEF TablesSound, OneOwner, HasOwner
    <3> QED BY <1>1, <1>2, <3>2, <3>3, <3>4
            DEF Settled, Formed, Decided, ChangesMember, Accepting, Inviting, Consuming, HasOwner, people
  <2>5. CASE ExistingMember(r)
    <3>1. Goto(r, "invitation-insert") /\ req[r].pc = "existing"
      BY <1>4, <2>5 DEF ExistingMember
    <3>2. /\ req'[r].pc = "invitation-insert" /\ DOMAIN req'[r] = DOMAIN Blank
          /\ req'[r].op = req[r].op /\ req'[r].user = req[r].user /\ req'[r].who = req[r].who /\ req'[r].org = req[r].org
          /\ req'[r].slot = req[r].slot /\ req'[r].role = req[r].role /\ req'[r].pw = req[r].pw
          /\ req'[r].locks = req[r].locks
      BY <1>1, <3>1 DEF Goto, Blank
    <3>3. Alone(r)
      BY <1>1, <1>2, <3>1, <3>2 DEF Alone, Goto
    <3> QED BY <1>1, <1>2, <3>1, <3>2, <3>3
            DEF Settled, Formed, Decided, ChangesMember, Accepting, Inviting, Consuming, HasOwner, people
  <2>6. CASE ResolveInvitation(r)
    <3>1. Put(r, [req[r] EXCEPT !.pc = "begin", !.org = invitations[req[r].slot].org]) /\ req[r].pc = "resolve"
      BY <1>4, <2>6 DEF ResolveInvitation
    <3>2. /\ req'[r].pc = "begin" /\ DOMAIN req'[r] = DOMAIN Blank
          /\ req'[r].op = req[r].op /\ req'[r].user = req[r].user /\ req'[r].who = req[r].who
          /\ req'[r].org = invitations[req[r].slot].org
          /\ req'[r].slot = req[r].slot /\ req'[r].role = req[r].role /\ req'[r].pw = req[r].pw
          /\ req'[r].locks = req[r].locks
      BY <1>1, <3>1 DEF Put, Blank
    <3>3. Alone(r)
      BY <1>1, <1>2, <3>1, <3>2 DEF Alone, Put
    <3>4. req[r].op = "acceptInvitation"
      BY <1>1, <3>1 DEF Settled, Formed
    <3> QED BY <1>1, <1>2, <3>1, <3>2, <3>3, <3>4
            DEF Settled, Formed, Decided, ChangesMember, Accepting, Inviting, Consuming, people, RoutePermission
  <2>7. CASE LockInvitation(r)
    <3> DEFINE i == req[r].slot
    <3>1. /\ Put(r, [req[r] EXCEPT !.pc = "join", !.role = invitations[i].role, !.locks = @ \cup {InvitationRow(i)}])
          /\ Free(r, InvitationRow(i)) /\ req[r].pc = "invitation" /\ req[r].op = "acceptInvitation"
          /\ Pending(i) /\ invitations[i].user = req[r].user
      BY <1>4, <2>7 DEF LockInvitation, Open
    <3>2. /\ req'[r].pc = "join" /\ DOMAIN req'[r] = DOMAIN Blank
          /\ req'[r].op = req[r].op /\ req'[r].user = req[r].user /\ req'[r].who = req[r].who /\ req'[r].org = req[r].org
          /\ req'[r].slot = i /\ req'[r].role = invitations[i].role /\ req'[r].pw = req[r].pw
          /\ req'[r].locks = req[r].locks \cup {InvitationRow(i)}
      BY <1>1, <3>1 DEF Put, Blank
    <3>3. Alone(r)
      BY <1>1, <1>2, <3>1, <3>2 DEF Alone, Put
    <3>4. Accepting(r)'
      BY <1>1, <1>2, <3>1, <3>2 DEF Settled, Accepting, Pending, people
    <3> QED BY <1>1, <1>2, <3>1, <3>2, <3>3, <3>4
            DEF Settled, Formed, Decided, ChangesMember, Inviting, Consuming, people, RoutePermission
  <2>8. CASE LockApiKey(r)
    <3>1. req[r].pc = "key-row" /\ Lock(r, KeyRow(req[r].slot), "key-revoke")
      BY <1>4, <2>8 DEF LockApiKey
    <3>2. /\ req'[r].pc = "key-revoke" /\ DOMAIN req'[r] = DOMAIN Blank
          /\ req'[r].op = req[r].op /\ req'[r].user = req[r].user /\ req'[r].who = req[r].who /\ req'[r].org = req[r].org
          /\ req'[r].slot = req[r].slot /\ req'[r].role = req[r].role /\ req'[r].pw = req[r].pw
          /\ req'[r].locks = req[r].locks \cup {KeyRow(req[r].slot)}
          /\ Alone(r)
      BY <1>2, <3>1, Locked
    <3> QED BY <1>1, <1>2, <3>1, <3>2 DEF Settled, Formed, Decided, ChangesMember, Accepting, Inviting, Consuming, people
  <2> QED BY <2>1, <2>2, <2>3, <2>4, <2>5, <2>6, <2>7, <2>8
<1> QED BY <1>2, <1>3, <1>4, ReadKept


LEMMA ReferenceMembershipKept ==
  ASSUME AccessInv, NEW r \in Requests, ReferenceMembership(r)
  PROVE  Kept(r)
<1>1. TablesSound /\ Settled(r)
  BY DEF AccessInv, Settled
<1>2. /\ UNCHANGED <<users, tokens, members, overrides, invitations, keys>> /\ failures' = failures /\ mix' = mix
      /\ End(r) /\ req[r].pc = "reference"
      /\ sessions' \in {sessions, [sessions EXCEPT ![req[r].sess].org = req[r].org]}
  BY DEF ReferenceMembership, client
<1>3. req[r].org \in Orgs
  BY <1>1, <1>2 DEF Settled, Formed
<1>4. sessions' \in Seq(Session) /\ DOMAIN sessions' = DOMAIN sessions
  <2>1. sessions \in Seq(Session) /\ \A s \in DOMAIN sessions : sessions[s] \in Session
    BY <1>1, RowOf DEF TablesSound
  <2>2. CASE sessions' = [sessions EXCEPT ![req[r].sess].org = req[r].org]
    <3>1. DOMAIN sessions' = DOMAIN sessions /\ sessions' = [s \in DOMAIN sessions |-> sessions'[s]]
          /\ \A s \in DOMAIN sessions : sessions'[s] \in Session
      BY <1>3, <2>1, <2>2 DEF Session
    <3> QED BY <2>1, <3>1, UpdateRows
  <2> QED BY <1>2, <2>1, <2>2
<1>5. Gentle(r)
  BY <1>2, <1>4 DEF Gentle, Pending, HasOwner
<1>6. TablesSound'
  BY <1>1, <1>2, <1>4, OtherTables DEF TablesSound
<1> QED BY <1>2, <1>5, <1>6, EndKept

LEMMA InsertOrganizationKept ==
  ASSUME AccessInv, NEW r \in Requests, InsertOrganization(r)
  PROVE  Kept(r)
<1>1. DOMAIN req = Requests /\ DOMAIN req[r] = DOMAIN Blank /\ Settled(r) /\ TablesSound
  BY DEF AccessInv, Formed, Settled
<1>2. /\ UNCHANGED <<users, tokens, sessions, overrides, invitations, keys>> /\ failures' = failures /\ mix' = mix
      /\ req[r].pc = "create"
  BY DEF InsertOrganization, client
<1>3. CASE End(r) /\ UNCHANGED members
  <2>1. UNCHANGED people
    BY <1>2, <1>3 DEF people
  <2> QED BY <1>2, <1>3, <2>1, Ends, PlainKept
<1>4. CASE /\ \A u \in Users : ~IsMember(req[r].org, u)
           /\ members' = [members EXCEPT ![req[r].org][req[r].user] = "owner"]
           /\ Leave(r, "enter")
  <2>1. req[r].org \in Orgs /\ req[r].user \in Users
    BY <1>1, <1>2 DEF Settled, Formed
  <2>2. members \in [Orgs -> [Users -> Roles \cup {"none"}]]
    BY <1>1 DEF TablesSound
  <2>3. /\ members' \in [Orgs -> [Users -> Roles \cup {"none"}]]
        /\ \A o \in Orgs, u \in Users :
             members'[o][u] = IF o = req[r].org /\ u = req[r].user THEN "owner" ELSE members[o][u]
    BY <1>4, <2>1, <2>2 DEF Roles
  <2>4. \A u \in Users : members[req[r].org][u] = "none"
    BY <1>4 DEF IsMember, RoleIn
  <2>5. OneOwner'
    BY <1>1, <2>1, <2>3, <2>4 DEF TablesSound, OneOwner, IsMember, RoleIn
  <2>6. \A o \in Orgs : HasOwner(o) => HasOwner(o)'
    BY <2>1, <2>3, <2>4 DEF HasOwner
  <2>7. Gentle(r)
    BY <1>2, <2>3, <2>4, <2>6 DEF Gentle, Pending
  <2>8. TablesSound'
    <3>1. \A i \in DOMAIN invitations : invitations[i].org \in Orgs
      BY <1>1, Rows
    <3>2. \A o \in Orgs, u \in Users : overrides[o][u] # "none" => IsMember(o, u)'
      BY <1>1, <2>3, <2>4 DEF TablesSound, IsMember, RoleIn
    <3> QED BY <1>1, <1>2, <2>3, <2>5, <2>6, <3>1, <3>2 DEF TablesSound
  <2>9. /\ req'[r].pc = "enter" /\ DOMAIN req'[r] = DOMAIN Blank
        /\ req'[r].op = req[r].op /\ req'[r].user = req[r].user /\ req'[r].who = req[r].who /\ req'[r].org = req[r].org
        /\ req'[r].slot = req[r].slot /\ req'[r].role = req[r].role /\ req'[r].pw = req[r].pw /\ req'[r].locks = {}
    BY <1>1, <1>4 DEF Leave, Put, Blank
  <2>10. Alone(r)
    BY <1>1, <1>2, <1>4, <2>9 DEF Alone, Leave, Put
  <2>11. Settled(r)'
    BY <1>1, <1>2, <2>1, <2>9 DEF Settled, Formed, Decided, ChangesMember, Accepting, Inviting, Consuming
  <2> QED BY <1>2, <2>7, <2>8, <2>9, <2>10, <2>11, GoesKept
<1> QED BY <1>3, <1>4 DEF InsertOrganization

\* Changing or removing a member that is no owner, under its row lock.
LEMMA ChangeMember ==
  ASSUME AccessInv, NEW r \in Requests, ChangesMember(r),
         NEW role \in ProjectOverrideRoles \cup {"none"},
         members' = [members EXCEPT ![req[r].org][req[r].who] = role]
  PROVE  /\ req[r].org \in Orgs /\ req[r].who \in Users
         /\ members' \in [Orgs -> [Users -> Roles \cup {"none"}]]
         /\ \A o \in Orgs, u \in Users :
              members'[o][u] = IF o = req[r].org /\ u = req[r].who THEN role ELSE members[o][u]
         /\ members[req[r].org][req[r].who] \notin {"owner", "none"}
         /\ Free(r, MemberRow(req[r].org, req[r].who))
         /\ OneOwner' /\ \A o \in Orgs : HasOwner(o) => HasOwner(o)'
<1>1. TablesSound /\ Settled(r)
  BY DEF AccessInv, Settled
<1>2. req[r].op \in {"updateMember", "removeMember"}
  BY <1>1 DEF ChangesMember, Settled, Decided
<1>3. req[r].org \in Orgs /\ req[r].who \in Users
  BY <1>1, <1>2 DEF ChangesMember, Settled, Formed, RoutePermission
<1>4. members \in [Orgs -> [Users -> Roles \cup {"none"}]]
  BY <1>1 DEF TablesSound
<1>5. /\ members' \in [Orgs -> [Users -> Roles \cup {"none"}]]
      /\ \A o \in Orgs, u \in Users :
           members'[o][u] = IF o = req[r].org /\ u = req[r].who THEN role ELSE members[o][u]
  BY <1>3, <1>4 DEF Roles, ProjectOverrideRoles
<1>6. members[req[r].org][req[r].who] \notin {"owner", "none"}
  BY <1>1 DEF Settled, Decided, ValidChange
<1>7. Free(r, MemberRow(req[r].org, req[r].who))
  BY <1>1, HeldFree DEF Settled, Decided
<1>8. OneOwner' /\ \A o \in Orgs : HasOwner(o) => HasOwner(o)'
  <2>1. role # "owner"
    BY DEF ProjectOverrideRoles
  <2>2. \A o \in Orgs, u \in Users : members'[o][u] = "owner" <=> members[o][u] = "owner"
    BY <1>5, <1>6, <2>1
  <2>3. \A o \in Orgs : (\E u \in Users : IsMember(o, u)') => \E u \in Users : IsMember(o, u)
    BY <1>3, <1>5, <1>6 DEF IsMember, RoleIn
  <2> QED BY <1>1, <2>2, <2>3 DEF TablesSound, OneOwner, HasOwner
<1> QED BY <1>3, <1>5, <1>6, <1>7, <1>8

LEMMA ApplyRoleKept ==
  ASSUME AccessInv, NEW r \in Requests, ApplyRole(r)
  PROVE  Kept(r)
<1>1. TablesSound /\ Settled(r)
  BY DEF AccessInv, Settled
<1>2. /\ UNCHANGED <<users, tokens, sessions, overrides, invitations, keys>> /\ failures' = failures /\ mix' = mix
      /\ End(r) /\ req[r].pc = "apply"
  BY DEF ApplyRole, client
<1>3. req[r].op = "updateMember" /\ req[r].role \in ProjectOverrideRoles /\ ChangesMember(r)
  BY <1>1, <1>2 DEF Settled, Decided, Formed, ChangesMember
<1>4. members' = [members EXCEPT ![req[r].org][req[r].who] = req[r].role]
  <2>1. IsMember(req[r].org, req[r].who)
    BY <1>1, <1>3 DEF Settled, Decided, IsMember, RoleIn
  <2> QED BY <2>1 DEF ApplyRole
<1>5. Gentle(r)
  BY <1>2, <1>3, <1>4, ChangeMember DEF Gentle, Pending
<1>6. TablesSound'
  <2>1. \A i \in DOMAIN invitations : invitations[i].org \in Orgs
    BY <1>1, Rows
  <2>2. req[r].role # "none"
    BY <1>3 DEF ProjectOverrideRoles, Roles
  <2>3. \A o \in Orgs, u \in Users : overrides[o][u] # "none" => IsMember(o, u)'
    BY <1>1, <1>3, <1>4, <2>2, ChangeMember DEF TablesSound, IsMember, RoleIn
  <2> QED BY <1>1, <1>2, <1>3, <1>4, <2>1, <2>3, ChangeMember DEF TablesSound
<1> QED BY <1>2, <1>5, <1>6, EndKept


LEMMA RemoveMemberKept ==
  ASSUME AccessInv, NEW r \in Requests, RemoveMember(r)
  PROVE  Kept(r)
<1>1. TablesSound /\ Settled(r)
  BY DEF AccessInv, Settled
<1>2. /\ UNCHANGED <<users, tokens, invitations, keys>> /\ failures' = failures /\ mix' = mix
      /\ End(r) /\ req[r].pc = "sessions" /\ req[r].op = "removeMember"
  BY DEF RemoveMember, client
<1>3. CASE UNCHANGED <<sessions, members, overrides>>
  <2>1. UNCHANGED people
    BY <1>2, <1>3 DEF people
  <2> QED BY <1>2, <2>1, Ends, PlainKept
<1>4. CASE /\ sessions' = [s \in DOMAIN sessions |->
                             IF s \in Updated(r) THEN [sessions[s] EXCEPT !.org = NoOrg] ELSE sessions[s]]
           /\ members' = [members EXCEPT ![req[r].org][req[r].who] = "none"]
           /\ overrides' = [overrides EXCEPT ![req[r].org][req[r].who] = "none"]
  <2>1. ChangesMember(r)
    BY <1>2 DEF ChangesMember
  <2>2. /\ req[r].org \in Orgs /\ req[r].who \in Users
        /\ members' \in [Orgs -> [Users -> Roles \cup {"none"}]]
        /\ \A o \in Orgs, u \in Users :
             members'[o][u] = IF o = req[r].org /\ u = req[r].who THEN "none" ELSE members[o][u]
        /\ Free(r, MemberRow(req[r].org, req[r].who))
        /\ OneOwner' /\ \A o \in Orgs : HasOwner(o) => HasOwner(o)'
    BY <1>4, <2>1, ChangeMember
  <2>3. sessions' \in Seq(Session) /\ DOMAIN sessions' = DOMAIN sessions
    <3>1. sessions \in Seq(Session) /\ \A s \in DOMAIN sessions : sessions[s] \in Session
      BY <1>1, RowOf DEF TablesSound
    <3>2. DOMAIN sessions' = DOMAIN sessions /\ sessions' = [s \in DOMAIN sessions |-> sessions'[s]]
          /\ \A s \in DOMAIN sessions : sessions'[s] \in Session
      BY <1>4, <3>1 DEF Session
    <3> QED BY <3>1, <3>2, UpdateRows
  <2>4. /\ overrides' \in [Orgs -> [Users -> ProjectOverrideRoles \cup {"none"}]]
        /\ \A o \in Orgs, u \in Users :
             overrides'[o][u] = IF o = req[r].org /\ u = req[r].who THEN "none" ELSE overrides[o][u]
    <3>1. overrides \in [Orgs -> [Users -> ProjectOverrideRoles \cup {"none"}]]
      BY <1>1 DEF TablesSound
    <3> QED BY <1>4, <2>2, <3>1
  <2>5. Gentle(r)
    BY <1>2, <2>2, <2>3 DEF Gentle, Pending
  <2>6. TablesSound'
    <3>1. \A i \in DOMAIN invitations : invitations[i].org \in Orgs
      BY <1>1, Rows
    <3>2. \A o \in Orgs, u \in Users : overrides'[o][u] # "none" => IsMember(o, u)'
      BY <1>1, <2>2, <2>4 DEF TablesSound, IsMember, RoleIn
    <3> QED BY <1>1, <1>2, <2>2, <2>3, <2>4, <3>1, <3>2 DEF TablesSound
  <2> QED BY <1>2, <2>5, <2>6, EndKept
<1> QED BY <1>3, <1>4 DEF RemoveMember

LEMMA WriteOverrideKept ==
  ASSUME AccessInv, NEW r \in Requests, WriteOverride(r)
  PROVE  Kept(r)
<1> DEFINE member == IsMember(req[r].org, req[r].who)
           role == CASE req[r].op = "removeOverride" -> "none"
                     [] req[r].op = "setOverride" /\ member -> req[r].role
                     [] OTHER -> overrides[req[r].org][req[r].who]
<1>1. TablesSound /\ Formed(r) /\ overrides \in [Orgs -> [Users -> ProjectOverrideRoles \cup {"none"}]]
  BY DEF AccessInv, TablesSound
<1>2. /\ UNCHANGED <<users, tokens, sessions, members, invitations, keys>> /\ failures' = failures /\ mix' = mix
      /\ End(r) /\ req[r].pc = "override"
      /\ overrides' = [overrides EXCEPT ![req[r].org][req[r].who] = role]
  BY DEF WriteOverride, client
<1>3. req[r].org \in Orgs /\ req[r].who \in Users /\ req[r].op \in {"setOverride", "removeOverride"}
      /\ (req[r].op = "setOverride" => req[r].role \in ProjectOverrideRoles)
  BY <1>1, <1>2 DEF Formed, RoutePermission
<1>4. role \in ProjectOverrideRoles \cup {"none"} /\ (role # "none" => member)
  <2>1. overrides[req[r].org][req[r].who] \in ProjectOverrideRoles \cup {"none"}
    BY <1>1, <1>3
  <2>2. overrides[req[r].org][req[r].who] # "none" => member
    BY <1>1, <1>3 DEF TablesSound
  <2>3. CASE req[r].op = "removeOverride"
    <3>1. role = "none"
      BY <2>3
    <3> HIDE DEF role
    <3> QED BY <3>1
  <2>4. CASE req[r].op = "setOverride" /\ member
    BY <1>3, <2>4
  <2>5. CASE req[r].op = "setOverride" /\ ~member
    BY <2>1, <2>2, <2>5
  <2> QED BY <1>3, <2>3, <2>4, <2>5
<1> HIDE DEF role
<1>5. /\ overrides' \in [Orgs -> [Users -> ProjectOverrideRoles \cup {"none"}]]
      /\ \A o \in Orgs, u \in Users :
           overrides'[o][u] = IF o = req[r].org /\ u = req[r].who THEN role ELSE overrides[o][u]
  BY <1>1, <1>2, <1>3, <1>4
<1>6. Gentle(r)
  BY <1>2 DEF Gentle, Pending, HasOwner
<1>7. TablesSound'
  BY <1>1, <1>2, <1>4, <1>5 DEF TablesSound, OneOwner, HasOwner, IsMember, RoleIn
<1> QED BY <1>2, <1>6, <1>7, EndKept

LEMMA InvitationsSound ==
  ASSUME TablesSound, UNCHANGED <<users, tokens, sessions, members, overrides, keys>>,
         invitations' \in Seq(Invitation), \A i \in DOMAIN invitations' : HasOwner(invitations'[i].org)
  PROVE  TablesSound'
BY DEF TablesSound, OneOwner, HasOwner, IsMember, RoleIn

LEMMA RevokeInvitationKept ==
  ASSUME AccessInv, NEW r \in Requests, RevokeInvitation(r)
  PROVE  Kept(r)
<1>1. TablesSound
  BY DEF AccessInv
<1>2. /\ UNCHANGED <<users, tokens, sessions, members, overrides, keys>> /\ failures' = failures /\ mix' = mix
      /\ End(r) /\ Free(r, InvitationRow(req[r].slot))
      /\ invitations' \in {invitations, [invitations EXCEPT ![req[r].slot].revoked = TRUE]}
  BY DEF RevokeInvitation, client
<1>3. invitations \in Seq(Invitation) /\ \A i \in DOMAIN invitations : invitations[i] \in Invitation
  BY <1>1, RowOf DEF TablesSound
<1>4. CASE invitations' = [invitations EXCEPT ![req[r].slot].revoked = TRUE]
  <2>1. /\ DOMAIN invitations' = DOMAIN invitations /\ invitations' = [i \in DOMAIN invitations |-> invitations'[i]]
        /\ \A i \in DOMAIN invitations : invitations'[i] \in Invitation
    BY <1>3, <1>4 DEF Invitation
  <2>2. invitations' \in Seq(Invitation)
    BY <1>3, <2>1, UpdateRows
  <2>3. \A i \in DOMAIN invitations :
          /\ invitations'[i].org = invitations[i].org /\ invitations'[i].user = invitations[i].user
          /\ invitations'[i].role = invitations[i].role
          /\ i # req[r].slot => invitations'[i] = invitations[i]
    BY <1>3, <1>4 DEF Invitation
  <2>4. Gentle(r)
    BY <1>2, <2>1, <2>3 DEF Gentle, Pending, HasOwner
  <2>5. TablesSound'
    <3>1. \A i \in DOMAIN invitations' : HasOwner(invitations'[i].org)
      BY <1>1, <2>1, <2>3 DEF TablesSound
    <3> QED BY <1>1, <1>2, <2>2, <3>1, InvitationsSound
  <2> QED BY <1>2, <2>4, <2>5, EndKept
<1>5. CASE invitations' = invitations
  <2>1. UNCHANGED people
    BY <1>2, <1>5 DEF people
  <2> QED BY <1>2, <2>1, Ends, PlainKept
<1> QED BY <1>2, <1>4, <1>5


LEMMA InsertInvitationKept ==
  ASSUME AccessInv, NEW r \in Requests, InsertInvitation(r)
  PROVE  Kept(r)
<1> DEFINE stale == {i \in Rivals(r) : ~invitations[i].fresh}
           swept == [i \in DOMAIN invitations |->
                       IF i \in stale THEN [invitations[i] EXCEPT !.revoked = TRUE] ELSE invitations[i]]
           row == [org |-> req[r].org, user |-> req[r].who, role |-> req[r].role,
                   accepted |-> FALSE, revoked |-> FALSE, fresh |-> TRUE]
<1>1. DOMAIN req = Requests /\ DOMAIN req[r] = DOMAIN Blank /\ Settled(r) /\ TablesSound
  BY DEF AccessInv, Formed, Settled
<1>2. /\ UNCHANGED <<users, tokens, sessions, members, overrides, keys>> /\ failures' = failures /\ mix' = mix
      /\ req[r].pc = "invitation-insert" /\ \A i \in stale : Free(r, InvitationRow(i))
      /\ \/ invitations' = Append(swept, row) /\ Put(r, [req[r] EXCEPT !.pc = "work", !.conns = @ - 1])
         \/ UNCHANGED invitations /\ End(r)
  BY DEF InsertInvitation, client
<1>3. CASE UNCHANGED invitations /\ End(r)
  <2>1. UNCHANGED people
    BY <1>2, <1>3 DEF people
  <2> QED BY <1>2, <1>3, <2>1, Ends, PlainKept
<1>4. CASE invitations' = Append(swept, row) /\ Put(r, [req[r] EXCEPT !.pc = "work", !.conns = @ - 1])
  <2>1. Alone(r) /\ Carried(r)
    BY <1>1, <1>2, <1>4 DEF Put, Alone, Carried, Blank
  <2>2. /\ req[r].op = "inviteMember" /\ req[r].org \in Orgs /\ req[r].who \in Users
        /\ req[r].role \in ProjectOverrideRoles /\ HasOwner(req[r].org)
    BY <1>1, <1>2 DEF Settled, Inviting, Formed, RoutePermission
  <2>3. row \in Invitation
    BY <2>2 DEF Invitation
  <2>4. invitations \in Seq(Invitation) /\ \A i \in DOMAIN invitations : invitations[i] \in Invitation
    BY <1>1, RowOf DEF TablesSound
  <2>5. /\ DOMAIN swept = DOMAIN invitations
        /\ \A i \in DOMAIN invitations :
             /\ swept[i] \in Invitation
             /\ swept[i].org = invitations[i].org /\ swept[i].user = invitations[i].user
             /\ swept[i].role = invitations[i].role
             /\ i \in stale \/ swept[i] = invitations[i]
    BY <2>4 DEF Invitation
  <2>6. swept \in Seq(Invitation)
    BY <2>4, <2>5, UpdateRows
  <2> HIDE DEF swept, row, stale
  <2>7. /\ invitations' \in Seq(Invitation) /\ DOMAIN swept \subseteq DOMAIN invitations'
        /\ \A i \in DOMAIN swept : invitations'[i] = swept[i]
        /\ \A i \in DOMAIN invitations' : i \in DOMAIN swept \/ invitations'[i] = row
    BY <1>4, <2>3, <2>6, AppendRow
  <2>8. Gentle(r)
    BY <1>2, <2>5, <2>7 DEF Gentle, Pending, HasOwner
  <2>9. TablesSound'
    <3>1. row.org = req[r].org
      BY DEF row
    <3>2. \A i \in DOMAIN invitations' : HasOwner(invitations'[i].org)
      BY <1>1, <2>2, <2>5, <2>7, <3>1 DEF TablesSound
    <3> QED BY <1>1, <1>2, <2>7, <3>2, InvitationsSound
  <2>10. Settled(r)'
    BY <1>1, <1>2, <2>1, <2>2 DEF Carried, Settled, Formed, Decided, ChangesMember, Accepting, Inviting, Consuming
  <2> QED BY <1>2, <2>1, <2>8, <2>9, <2>10, GoesKept DEF Carried
<1> QED BY <1>2, <1>3, <1>4

LEMMA JoinKept ==
  ASSUME AccessInv, NEW r \in Requests, Join(r)
  PROVE  Kept(r)
<1> DEFINE i == req[r].slot  o == req[r].org  u == req[r].user
<1>1. DOMAIN req = Requests /\ DOMAIN req[r] = DOMAIN Blank /\ Settled(r) /\ TablesSound
  BY DEF AccessInv, Formed, Settled
<1>2. /\ UNCHANGED <<users, tokens, sessions, overrides, keys>> /\ failures' = failures /\ mix' = mix
      /\ req[r].pc = "join" /\ Free(r, MemberRow(o, u))
  BY DEF Join, client
<1>3. CASE UNCHANGED <<members, invitations>> /\ End(r)
  <2>1. UNCHANGED people
    BY <1>2, <1>3 DEF people
  <2> QED BY <1>2, <1>3, <2>1, Ends, PlainKept
<1>4. CASE /\ ~IsMember(o, u)
           /\ members' = [members EXCEPT ![o][u] = req[r].role]
           /\ invitations' = [invitations EXCEPT ![i].accepted = TRUE]
           /\ Leave(r, "enter")
  <2>1. /\ req[r].op = "acceptInvitation" /\ i \in DOMAIN invitations /\ u \in Users
        /\ o = invitations[i].org /\ req[r].role = invitations[i].role /\ InvitationRow(i) \in req[r].locks
    BY <1>1, <1>2 DEF Settled, Accepting, Formed, RoutePermission
  <2>2. o \in Orgs /\ req[r].role \in ProjectOverrideRoles /\ HasOwner(o)
    BY <1>1, <2>1, Rows DEF TablesSound
  <2>3. members \in [Orgs -> [Users -> Roles \cup {"none"}]]
    BY <1>1 DEF TablesSound
  <2>4. /\ members' \in [Orgs -> [Users -> Roles \cup {"none"}]]
        /\ \A p \in Orgs, v \in Users : members'[p][v] = IF p = o /\ v = u THEN req[r].role ELSE members[p][v]
    BY <1>4, <2>1, <2>2, <2>3 DEF Roles, ProjectOverrideRoles
  <2>5. members[o][u] = "none"
    BY <1>4 DEF IsMember, RoleIn
  <2>6. OneOwner' /\ \A p \in Orgs : HasOwner(p) => HasOwner(p)'
    <3>1. req[r].role # "owner"
      BY <2>2 DEF ProjectOverrideRoles
    <3>2. \A p \in Orgs, v \in Users : members'[p][v] = "owner" <=> members[p][v] = "owner"
      BY <2>4, <2>5, <3>1
    <3>3. \A p \in Orgs : (\E v \in Users : IsMember(p, v)') => \E v \in Users : IsMember(p, v)
      BY <2>2, <2>4 DEF HasOwner, IsMember, RoleIn
    <3>4. OneOwner
      BY <1>1 DEF TablesSound
    <3> HIDE DEF o, u, i
    <3> QED BY <3>2, <3>3, <3>4 DEF OneOwner, HasOwner
  <2>7. invitations \in Seq(Invitation) /\ \A j \in DOMAIN invitations : invitations[j] \in Invitation
    BY <1>1, RowOf DEF TablesSound
  <2>8. /\ DOMAIN invitations' = DOMAIN invitations /\ invitations' = [j \in DOMAIN invitations |-> invitations'[j]]
        /\ \A j \in DOMAIN invitations :
             /\ invitations'[j] \in Invitation
             /\ invitations'[j].org = invitations[j].org /\ invitations'[j].user = invitations[j].user
             /\ invitations'[j].role = invitations[j].role
             /\ j # i => invitations'[j] = invitations[j]
    BY <1>4, <2>7 DEF Invitation
  <2>9. Free(r, InvitationRow(i))
    BY <2>1, HeldFree
  <2>10. Gentle(r)
    BY <1>2, <2>4, <2>6, <2>8, <2>9 DEF Gentle, Pending
  <2>11. TablesSound'
    <3>1. invitations' \in Seq(Invitation)
      BY <2>7, <2>8, UpdateRows
    <3>2. \A j \in DOMAIN invitations : invitations[j].org \in Orgs
      BY <1>1, Rows
    <3>3. \A p \in Orgs, v \in Users : overrides[p][v] # "none" => IsMember(p, v)'
      <4>1. req[r].role # "none"
        BY <2>2 DEF ProjectOverrideRoles, Roles
      <4> QED BY <1>1, <2>4, <4>1 DEF TablesSound, IsMember, RoleIn
    <3>4. \A j \in DOMAIN invitations' : \E v \in Users : members'[invitations'[j].org][v] = "owner"
      <4>1. \A j \in DOMAIN invitations : HasOwner(invitations[j].org)
        BY <1>1 DEF TablesSound
      <4>2. \A p \in Orgs : HasOwner(p) => \E v \in Users : members'[p][v] = "owner"
        BY <2>6 DEF HasOwner
      <4> QED BY <2>8, <3>2, <4>1, <4>2
    <3> QED BY <1>1, <1>2, <2>4, <2>6, <3>1, <3>3, <3>4 DEF TablesSound, HasOwner
  <2>12. /\ req'[r].pc = "enter" /\ DOMAIN req'[r] = DOMAIN Blank
         /\ req'[r].op = req[r].op /\ req'[r].user = req[r].user /\ req'[r].who = req[r].who /\ req'[r].org = req[r].org
         /\ req'[r].slot = req[r].slot /\ req'[r].role = req[r].role /\ req'[r].pw = req[r].pw /\ req'[r].locks = {}
    BY <1>1, <1>4 DEF Leave, Put, Blank
  <2>13. Alone(r)
    BY <1>1, <1>2, <1>4, <2>12 DEF Alone, Leave, Put
  <2>14. Settled(r)'
    BY <1>1, <1>2, <2>1, <2>2, <2>8, <2>12
       DEF Settled, Formed, Decided, ChangesMember, Accepting, Inviting, Consuming, RoutePermission
  <2> QED BY <1>2, <2>10, <2>11, <2>12, <2>13, <2>14, GoesKept
<1> QED BY <1>3, <1>4 DEF Join


LEMMA KeyWriteKept ==
  ASSUME AccessInv, NEW r \in Requests, InsertApiKey(r) \/ RevokeApiKey(r)
  PROVE  Kept(r)
<1>1. TablesSound /\ Settled(r)
  BY DEF AccessInv, Settled
<1>2. /\ UNCHANGED <<users, tokens, sessions, members, overrides, invitations>> /\ failures' = failures /\ mix' = mix
      /\ End(r)
  BY DEF InsertApiKey, RevokeApiKey, client
<1>3. keys \in Seq(Key) /\ \A k \in DOMAIN keys : keys[k] \in Key
  BY <1>1, RowOf DEF TablesSound
<1>4. keys' \in Seq(Key) /\ DOMAIN keys \subseteq DOMAIN keys'
  <2>1. CASE keys' = keys
    BY <1>3, <2>1
  <2>2. CASE InsertApiKey(r) /\ keys' # keys
    <3> DEFINE row == [org |-> req[r].org, user |-> req[r].user, access |-> "read_write", live |-> TRUE]
    <3>1. keys' = Append(keys, row) /\ req[r].pc = "key-insert"
      BY <2>2 DEF InsertApiKey
    <3>2. row \in Key
      BY <1>1, <3>1 DEF Settled, Formed, Key
    <3> HIDE DEF row
    <3> QED BY <1>3, <3>1, <3>2, AppendRow
  <2>3. CASE RevokeApiKey(r) /\ keys' # keys
    <3>1. keys' = [keys EXCEPT ![req[r].slot].live = FALSE]
      BY <2>3 DEF RevokeApiKey
    <3>2. /\ DOMAIN keys' = DOMAIN keys /\ keys' = [k \in DOMAIN keys |-> keys'[k]]
          /\ \A k \in DOMAIN keys : keys'[k] \in Key
      BY <1>3, <3>1 DEF Key
    <3> QED BY <1>3, <3>2, UpdateRows
  <2> QED BY <2>1, <2>2, <2>3
<1>5. Gentle(r)
  BY <1>2, <1>4 DEF Gentle, Pending, HasOwner
<1>6. TablesSound'
  BY <1>1, <1>2, <1>4 DEF TablesSound, OneOwner, HasOwner, IsMember, RoleIn
<1> QED BY <1>2, <1>5, <1>6, EndKept

LEMMA MemberStepKept ==
  ASSUME AccessInv, NEW r \in Requests, MemberStep(r)
  PROVE  Kept(r)
BY EnterKept, MemberReadKept, ReferenceMembershipKept, InsertOrganizationKept, ApplyRoleKept, RemoveMemberKept,
   WriteOverrideKept, InsertInvitationKept, RevokeInvitationKept, JoinKept, KeyWriteKept DEF MemberStep

-----------------------------------------------------------------------------
(* Arrivals, expiry, restarts and faults. *)

LEMMA GivenUpKept ==
  ASSUME AccessInv, NEW r \in Requests, Victim(r) \/ Fail(r)
  PROVE  Kept(r)
<1>1. End(r) /\ UNCHANGED people /\ failures' = failures /\ mix' = mix
  BY DEF Victim, Fail, people, tables, client
<1> QED BY <1>1, Ends, PlainKept

\* A request that arrives is validated and holds nothing.
LEMMA ArriveKept ==
  ASSUME AccessInv, NEW r \in Requests, NEW l, Arrive(r, l), UNCHANGED <<tables, failures>>, l.locks = {},
         Formed(r)', l.pc \in {"authenticate", "key", "signup", "lookup", "begin"},
         l.pc = "begin" => l.op \in {"resetPassword", "verifyEmail"}
  PROVE  Kept(r)
<1>1. DOMAIN req = Requests
  BY DEF AccessInv
<1>2. UNCHANGED people /\ failures' = failures /\ mix' = mix /\ req' = [req EXCEPT ![r] = l]
  BY DEF Arrive, Put, people, tables
<1>3. req'[r] = l /\ Alone(r)
  BY <1>1, <1>2 DEF Alone
<1>4. Settled(r)'
  BY <1>2, <1>3 DEF Settled, Decided, ChangesMember, Accepting, Inviting, Consuming
<1> QED BY <1>2, <1>3, <1>4, ReadKept


LEMMA LoginKept ==
  ASSUME AccessInv, NEW r \in Requests, NEW u \in Users, NEW pw, NEW ip, NEW o, Login(r, u, pw, ip, o)
  PROVE  Kept(r)
<1> DEFINE l == [Blank EXCEPT !.pc = "account", !.op = "login", !.user = u, !.pw = pw, !.ip = ip, !.org = o]
<1>1. DOMAIN req = Requests /\ GuessesCounted
  BY DEF AccessInv
<1>2. UNCHANGED people /\ failures' = failures /\ mix' = mix /\ req' = [req EXCEPT ![r] = l] /\ ~IsBlocked({u, ip})
  BY DEF Login, Arrive, Put, people, tables
<1>3. /\ DOMAIN l = DOMAIN Blank /\ l.pc = "account" /\ l.op = "login" /\ l.user = u /\ l.ip = ip /\ l.locks = {}
  BY DEF Blank
<1> HIDE DEF l
<1>4. req'[r] = l /\ Alone(r)
  BY <1>1, <1>2, <1>3 DEF Alone
<1>5. Settled(r)'
  BY <1>3, <1>4 DEF Settled, Formed, Decided, ChangesMember, Accepting, Inviting, Consuming, RoutePermission
<1>6. GuessesCounted'
  <2> SUFFICES ASSUME NEW id \in Identities
               PROVE  failures'[id] + Cardinality(Guessing(id))' <= MaxFailures - 1 + Cardinality(Requests)
    BY <1>1, <1>2 DEF GuessesCounted
  <2>1. IsFiniteSet(Guessing(id)) /\ Guessing(id)' \subseteq Requests
    BY RequestsAssumption, FS_Subset DEF Guessing
  <2>2. /\ Cardinality(Guessing(id)') \in Nat /\ Cardinality(Guessing(id)) \in Nat /\ Cardinality(Requests) \in Nat
        /\ Cardinality(Guessing(id)') <= Cardinality(Requests)
    BY <2>1, RequestsAssumption, FS_Subset, FS_CardinalityType
  <2>3. failures[id] \in Nat /\ failures[id] + Cardinality(Guessing(id)) <= MaxFailures - 1 + Cardinality(Requests)
    BY <1>1 DEF GuessesCounted
  <2>4. CASE id \in {u, ip}
    <3>1. failures[id] < MaxFailures
      BY <1>2, <2>3, <2>4, PoolAssumption DEF IsBlocked
    <3> QED BY <1>2, <2>2, <2>3, <3>1, PoolAssumption
  <2>5. CASE id \notin {u, ip}
    <3>1. Guessing(id)' \subseteq Guessing(id)
      BY <1>3, <1>4, <2>5 DEF Guessing, LoginIdentities, Alone
    <3>2. Cardinality(Guessing(id)') <= Cardinality(Guessing(id))
      BY <2>1, <3>1, FS_Subset
    <3> QED BY <1>2, <2>2, <2>3, <3>2, PoolAssumption
  <2> QED BY <2>4, <2>5
<1> QED BY <1>2, <1>4, <1>5, <1>6, SameTables DEF Kept

LEMMA BeginKept ==
  ASSUME AccessInv, NEW r \in Requests, Begin(r)
  PROVE  Kept(r)
<1>0. mix \in Mixes
  BY DEF AccessInv
<1>1. PICK c \in mix :
        \/ c.op = "login" /\ Login(r, c.user, c.pw, c.ip, c.org)
        \/ c.op = "signup" /\ Signup(r, c.user, c.pw)
        \/ RequestToken(r, c.op, c.user)
        \/ c.slot \in DOMAIN tokens /\ UseToken(r, c.op, c.slot, c.pw)
        \/ /\ c.sess \in DOMAIN sessions
           /\ \/ c.op = "logout" /\ Logout(r, c.sess)
              \/ c.op = "switchOrganization" /\ SwitchOrganization(r, c.sess, c.org)
              \/ c.op = "createOrganization" /\ CreateOrganization(r, c.sess, c.org)
              \/ c.op = "acceptInvitation" /\ c.slot \in DOMAIN invitations /\ AcceptInvitation(r, c.sess, c.slot)
              \/ Call(r, c.op, c.sess, c)
        \/ c.key \in DOMAIN keys /\ CallByKey(r, c.op, c.key, c)
  BY DEF Begin
<1>2. /\ DOMAIN c = DOMAIN Blank /\ c.locks = {}
      /\ c.op \in {"updateMember", "inviteMember", "setOverride"} => c.role \in ProjectOverrideRoles
      /\ c.op \in {"updateMember", "removeMember", "inviteMember", "setOverride", "removeOverride"} => c.who \in Users
      /\ c.op \in {"login", "signup", "requestPasswordReset", "resendEmailVerification"} => c.user \in Users
      /\ c.op \in {"createOrganization", "switchOrganization"} => c.org \in Orgs
      /\ c.op \in {"login", "signup", "resetPassword"} => c.pw \in Nat
  BY <1>0, <1>1, CallsAssumption
<1>3. DOMAIN req = Requests
  BY DEF AccessInv
<1>4. CASE c.op = "login" /\ Login(r, c.user, c.pw, c.ip, c.org)
  BY <1>2, <1>4, LoginKept
<1>5. CASE c.op = "signup" /\ Signup(r, c.user, c.pw)
  <2> DEFINE l == [Blank EXCEPT !.pc = "signup", !.op = "signup", !.user = c.user, !.pw = c.pw]
  <2>1. DOMAIN l = DOMAIN Blank /\ l.pc = "signup" /\ l.op = "signup" /\ l.user = c.user /\ l.pw = c.pw /\ l.locks = {}
    BY DEF Blank
  <2>2. Arrive(r, l) /\ UNCHANGED <<tables, failures>>
    BY <1>5 DEF Signup
  <2> HIDE DEF l
  <2>3. Formed(r)'
    BY <1>2, <1>3, <1>5, <2>1, <2>2 DEF Arrive, Put, Formed, RoutePermission
  <2> QED BY <2>1, <2>2, <2>3, ArriveKept
<1>6. CASE RequestToken(r, c.op, c.user)
  <2> DEFINE l == [Blank EXCEPT !.pc = "lookup", !.op = c.op, !.user = c.user]
  <2>1. DOMAIN l = DOMAIN Blank /\ l.pc = "lookup" /\ l.op = c.op /\ l.user = c.user /\ l.locks = {}
    BY DEF Blank
  <2>2. Arrive(r, l) /\ UNCHANGED <<tables, failures>> /\ c.op \in {"requestPasswordReset", "resendEmailVerification"}
    BY <1>6 DEF RequestToken
  <2> HIDE DEF l
  <2>3. Formed(r)'
    BY <1>2, <1>3, <2>1, <2>2 DEF Arrive, Put, Formed, RoutePermission
  <2> QED BY <2>1, <2>2, <2>3, ArriveKept
<1>7. CASE c.slot \in DOMAIN tokens /\ UseToken(r, c.op, c.slot, c.pw)
  <2> DEFINE l == [Blank EXCEPT !.pc = "begin", !.op = c.op, !.slot = c.slot, !.pw = c.pw]
  <2>1. /\ DOMAIN l = DOMAIN Blank /\ l.pc = "begin" /\ l.op = c.op /\ l.slot = c.slot /\ l.pw = c.pw /\ l.locks = {}
    BY DEF Blank
  <2>2. /\ Arrive(r, l) /\ UNCHANGED <<tables, failures>> /\ c.op \in {"resetPassword", "verifyEmail"}
        /\ tokens[c.slot].kind = IF c.op = "resetPassword" THEN "reset" ELSE "verify"
    BY <1>7 DEF UseToken
  <2> HIDE DEF l
  <2>3. Formed(r)'
    BY <1>2, <1>3, <1>7, <2>1, <2>2 DEF Arrive, Put, Formed, RoutePermission, tables
  <2> QED BY <2>1, <2>2, <2>3, ArriveKept
<1>8. ASSUME NEW op, NEW s \in DOMAIN sessions, NEW locals, BySession(r, op, s, locals),
             DOMAIN locals = DOMAIN Blank, locals.locks = {},
             op \in {"logout", "switchOrganization", "createOrganization", "acceptInvitation"} \cup DOMAIN RoutePermission,
             op \in {"switchOrganization", "createOrganization"} => locals.org \in Orgs,
             op = "acceptInvitation" => locals.slot \in DOMAIN invitations,
             op \in {"updateMember", "inviteMember", "setOverride"} => locals.role \in ProjectOverrideRoles,
             op \in {"updateMember", "removeMember", "inviteMember", "setOverride", "removeOverride"} => locals.who \in Users
      PROVE  Kept(r)
  <2> DEFINE l == [locals EXCEPT !.pc = "authenticate", !.op = op, !.sess = s]
  <2>1. /\ DOMAIN l = DOMAIN Blank /\ l.pc = "authenticate" /\ l.op = op /\ l.sess = s /\ l.locks = {}
        /\ l.org = locals.org /\ l.slot = locals.slot /\ l.role = locals.role /\ l.who = locals.who
    BY <1>8 DEF Blank
  <2>2. Arrive(r, l) /\ UNCHANGED <<tables, failures>>
    BY <1>8 DEF BySession
  <2> HIDE DEF l
  <2>3. Formed(r)'
    BY <1>3, <1>8, <2>1, <2>2 DEF Arrive, Put, Formed, RoutePermission, tables
  <2> QED BY <2>1, <2>2, <2>3, ArriveKept
<1>9. CASE c.sess \in DOMAIN sessions /\ c.op = "logout" /\ Logout(r, c.sess)
  BY <1>8, <1>9 DEF Logout, Blank, RoutePermission
<1>10. CASE /\ c.sess \in DOMAIN sessions
            /\ c.op = "switchOrganization" /\ SwitchOrganization(r, c.sess, c.org)
  BY <1>2, <1>8, <1>10 DEF SwitchOrganization, Blank, RoutePermission
<1>11. CASE /\ c.sess \in DOMAIN sessions
            /\ c.op = "createOrganization" /\ CreateOrganization(r, c.sess, c.org)
  BY <1>2, <1>8, <1>11 DEF CreateOrganization, Blank, RoutePermission
<1>12. CASE /\ c.sess \in DOMAIN sessions
            /\ c.op = "acceptInvitation" /\ c.slot \in DOMAIN invitations /\ AcceptInvitation(r, c.sess, c.slot)
  BY <1>8, <1>12 DEF AcceptInvitation, Blank, RoutePermission
<1>13. CASE c.sess \in DOMAIN sessions /\ Call(r, c.op, c.sess, c)
  BY <1>2, <1>8, <1>13 DEF Call, RoutePermission
<1>14. CASE c.key \in DOMAIN keys /\ CallByKey(r, c.op, c.key, c)
  <2> DEFINE l == [c EXCEPT !.pc = "key", !.op = c.op, !.key = c.key]
  <2>1. /\ DOMAIN l = DOMAIN Blank /\ l.pc = "key" /\ l.op = c.op /\ l.key = c.key /\ l.locks = {}
        /\ l.role = c.role /\ l.who = c.who
    BY <1>2 DEF Blank
  <2>2. Arrive(r, l) /\ UNCHANGED <<tables, failures>> /\ c.op \in DOMAIN RoutePermission
    BY <1>14 DEF CallByKey
  <2> HIDE DEF l
  <2>3. Formed(r)'
    BY <1>2, <1>3, <1>14, <2>1, <2>2 DEF Arrive, Put, Formed, RoutePermission, tables
  <2> QED BY <2>1, <2>2, <2>3, ArriveKept
<1> QED BY <1>1, <1>4, <1>5, <1>6, <1>7, <1>9, <1>10, <1>11, <1>12, <1>13, <1>14


\* Requests stay where they are, and the facts they rely on hold.
LEMMA StillKept ==
  ASSUME AccessInv, req' = req, mix' = mix, UNCHANGED <<users, members, overrides>>, TablesSound', GuessesCounted',
         DOMAIN tokens' = DOMAIN tokens, DOMAIN sessions' = DOMAIN sessions,
         DOMAIN invitations' = DOMAIN invitations, DOMAIN keys' = DOMAIN keys,
         \A t \in DOMAIN tokens : /\ tokens'[t].kind = tokens[t].kind /\ tokens'[t].user = tokens[t].user
                                  /\ tokens'[t].consumed = tokens[t].consumed,
         \A i \in DOMAIN invitations :
           /\ invitations'[i].org = invitations[i].org /\ invitations'[i].user = invitations[i].user
           /\ invitations'[i].role = invitations[i].role /\ Pending(i)' = Pending(i)
  PROVE  AccessInv'
<1>1. DOMAIN req' = Requests /\ mix' \in Mixes /\ Exclusive'
  BY DEF AccessInv, Exclusive
<1>2. ASSUME NEW q \in Requests PROVE Settled(q)'
  <2>1. Settled(q)
    BY DEF AccessInv, Settled
  <2>2. Formed(q)'
    BY <2>1 DEF Settled, Formed
  <2>3. Decided(q)' /\ Inviting(q)' /\ Consuming(q)'
    BY <2>1 DEF Settled, Decided, ChangesMember, ValidChange, Inviting, HasOwner, Consuming, Formed
  <2>4. Accepting(q)'
    <3>1. req[q].op = "acceptInvitation" => req[q].slot \in DOMAIN invitations
      BY <2>1 DEF Settled, Formed
    <3>2. req[q].pc = "join" => Pending(req[q].slot)'
      BY <2>1, <3>1 DEF Settled, Accepting
    <3> QED BY <2>1, <3>1, <3>2 DEF Settled, Accepting
  <2> QED BY <2>2, <2>3, <2>4 DEF Settled
<1> QED BY <1>1, <1>2 DEF AccessInv, Settled

LEMMA ExpireKept ==
  ASSUME AccessInv, Expire
  PROVE  AccessInv'
<1>1. TablesSound /\ GuessesCounted
  BY DEF AccessInv
<1>2. /\ sessions \in Seq(Session) /\ \A s \in DOMAIN sessions : sessions[s] \in Session
      /\ tokens \in Seq(Token) /\ \A t \in DOMAIN tokens : tokens[t] \in Token
      /\ invitations \in Seq(Invitation) /\ \A i \in DOMAIN invitations : invitations[i] \in Invitation
      /\ keys \in Seq(Key) /\ \A k \in DOMAIN keys : keys[k] \in Key
  BY <1>1, RowOf DEF TablesSound
<1>3. req' = req /\ mix' = mix /\ UNCHANGED <<users, members, overrides>>
  BY DEF Expire, ExpireSession, ExpireToken, ExpireInvitation, ExpireApiKey, WindowEnds, tables, client
<1>4. ASSUME failures' = failures PROVE GuessesCounted'
  BY <1>1, <1>3, <1>4 DEF GuessesCounted, Guessing, LoginIdentities
<1>5. ASSUME NEW s, ExpireSession(s) PROVE AccessInv'
  <2>1. UNCHANGED <<tokens, invitations, keys>> /\ failures' = failures /\ sessions' = [sessions EXCEPT ![s].live = FALSE]
    BY <1>5 DEF ExpireSession
  <2>2. /\ DOMAIN sessions' = DOMAIN sessions /\ sessions' = [i \in DOMAIN sessions |-> sessions'[i]]
        /\ \A i \in DOMAIN sessions : sessions'[i] \in Session
    BY <1>2, <2>1 DEF Session
  <2>3. sessions' \in Seq(Session)
    BY <1>2, <2>2, UpdateRows
  <2>4. TablesSound'
    BY <1>1, <1>3, <2>1, <2>3, OtherTables DEF TablesSound
  <2> QED BY <1>3, <1>4, <2>1, <2>2, <2>4, StillKept DEF Pending
<1>6. ASSUME NEW t, ExpireToken(t) PROVE AccessInv'
  <2>1. UNCHANGED <<sessions, invitations, keys>> /\ failures' = failures /\ tokens' = [tokens EXCEPT ![t].fresh = FALSE]
    BY <1>6 DEF ExpireToken
  <2>2. /\ DOMAIN tokens' = DOMAIN tokens /\ tokens' = [i \in DOMAIN tokens |-> tokens'[i]]
        /\ \A i \in DOMAIN tokens : /\ tokens'[i] \in Token
                                    /\ tokens'[i].kind = tokens[i].kind /\ tokens'[i].user = tokens[i].user
                                    /\ tokens'[i].consumed = tokens[i].consumed
    BY <1>2, <2>1 DEF Token
  <2>3. tokens' \in Seq(Token)
    BY <1>2, <2>2, UpdateRows
  <2>4. TablesSound'
    BY <1>1, <1>3, <2>1, <2>3, OtherTables DEF TablesSound
  <2> QED BY <1>3, <1>4, <2>1, <2>2, <2>4, StillKept DEF Pending
<1>7. ASSUME NEW i, ExpireInvitation(i) PROVE AccessInv'
  <2>1. UNCHANGED <<sessions, tokens, keys>> /\ failures' = failures
        /\ invitations' = [invitations EXCEPT ![i].fresh = FALSE]
    BY <1>7 DEF ExpireInvitation
  <2>2. /\ DOMAIN invitations' = DOMAIN invitations /\ invitations' = [j \in DOMAIN invitations |-> invitations'[j]]
        /\ \A j \in DOMAIN invitations :
             /\ invitations'[j] \in Invitation
             /\ invitations'[j].org = invitations[j].org /\ invitations'[j].user = invitations[j].user
             /\ invitations'[j].role = invitations[j].role
             /\ invitations'[j].accepted = invitations[j].accepted /\ invitations'[j].revoked = invitations[j].revoked
    BY <1>2, <2>1 DEF Invitation
  <2>3. invitations' \in Seq(Invitation)
    BY <1>2, <2>2, UpdateRows
  <2>4. \A j \in DOMAIN invitations' : HasOwner(invitations'[j].org)
    BY <1>1, <2>2 DEF TablesSound
  <2>5. TablesSound'
    BY <1>1, <1>3, <2>1, <2>3, <2>4, InvitationsSound
  <2> QED BY <1>3, <1>4, <2>1, <2>2, <2>5, StillKept DEF Pending
<1>8. ASSUME NEW k, ExpireApiKey(k) PROVE AccessInv'
  <2>1. UNCHANGED <<sessions, tokens, invitations>> /\ failures' = failures /\ keys' = [keys EXCEPT ![k].live = FALSE]
    BY <1>8 DEF ExpireApiKey
  <2>2. /\ DOMAIN keys' = DOMAIN keys /\ keys' = [i \in DOMAIN keys |-> keys'[i]]
        /\ \A i \in DOMAIN keys : keys'[i] \in Key
    BY <1>2, <2>1 DEF Key
  <2>3. keys' \in Seq(Key)
    BY <1>2, <2>2, UpdateRows
  <2>4. TablesSound'
    BY <1>1, <1>3, <2>1, <2>3 DEF TablesSound, OneOwner, HasOwner, IsMember, RoleIn
  <2> QED BY <1>3, <1>4, <2>1, <2>2, <2>4, StillKept DEF Pending
<1>9. ASSUME NEW id, WindowEnds(id) PROVE AccessInv'
  <2>1. UNCHANGED tables /\ failures' = [failures EXCEPT ![id] = 0]
    BY <1>9 DEF WindowEnds
  <2>2. UNCHANGED <<sessions, tokens, invitations, keys>>
    BY <2>1 DEF tables
  <2>3. TablesSound'
    BY <1>1, <1>3, <2>2 DEF TablesSound, OneOwner, HasOwner, IsMember, RoleIn
  <2>4. GuessesCounted'
    <3>1. failures' \in [Identities -> Nat] /\ \A x \in Identities : failures'[x] <= failures[x]
      <4>1. failures \in [Identities -> Nat]
        BY <1>1 DEF GuessesCounted
      <4>2. \A x \in Identities : failures'[x] = IF x = id THEN 0 ELSE failures[x]
        BY <2>1, <4>1
      <4>3. failures' \in [Identities -> Nat]
        BY <2>1, <4>1
      <4>4. \A x \in Identities : failures[x] \in Nat
        BY <4>1
      <4> QED BY <4>2, <4>3, <4>4
    <3> SUFFICES ASSUME NEW x \in Identities
                 PROVE  failures'[x] + Cardinality(Guessing(x))' <= MaxFailures - 1 + Cardinality(Requests)
      BY <3>1 DEF GuessesCounted
    <3>2. Guessing(x)' = Guessing(x)
      BY <1>3 DEF Guessing, LoginIdentities
    <3>3. IsFiniteSet(Guessing(x))
      BY RequestsAssumption, FS_Subset DEF Guessing
    <3>4. Cardinality(Guessing(x)) \in Nat /\ Cardinality(Requests) \in Nat
      BY <3>3, RequestsAssumption, FS_CardinalityType
    <3>5. failures[x] \in Nat /\ failures[x] + Cardinality(Guessing(x)) <= MaxFailures - 1 + Cardinality(Requests)
      BY <1>1 DEF GuessesCounted
    <3>6. failures'[x] \in Nat /\ failures'[x] <= failures[x]
      BY <3>1
    <3> QED BY <3>2, <3>4, <3>5, <3>6, PoolAssumption
  <2> QED BY <1>3, <2>2, <2>3, <2>4, StillKept DEF Pending
<1> QED BY <1>5, <1>6, <1>7, <1>8, <1>9 DEF Expire

\* A request at rest relies on nothing.
Rest == req = [r \in Requests |-> Blank] /\ failures \in [Identities -> 0 .. MaxFailures - 1]
NothingAsked ==
  /\ DOMAIN req = Requests /\ Exclusive /\ GuessesCounted
  /\ \A r \in Requests : Formed(r) /\ Decided(r) /\ Accepting(r) /\ Inviting(r) /\ Consuming(r)

LEMMA AtRest == Rest => NothingAsked
<1> SUFFICES ASSUME Rest PROVE NothingAsked
  OBVIOUS
<1>0. req = [r \in Requests |-> Blank] /\ failures \in [Identities -> 0 .. MaxFailures - 1]
  BY DEF Rest
<1>1. \A r \in Requests : req[r].pc = "idle" /\ req[r].op = "none" /\ req[r].locks = {} /\ DOMAIN req[r] = DOMAIN Blank
  BY <1>0 DEF Blank
<1>2. \A r \in Requests : Formed(r) /\ Decided(r) /\ Accepting(r) /\ Inviting(r) /\ Consuming(r)
  BY <1>1 DEF Formed, Decided, ChangesMember, Accepting, Inviting, Consuming, RoutePermission
<1>3. GuessesCounted
  <2> SUFFICES ASSUME NEW id \in Identities
               PROVE  /\ failures[id] \in Nat
                      /\ failures[id] + Cardinality(Guessing(id)) <= MaxFailures - 1 + Cardinality(Requests)
    BY <1>0, PoolAssumption DEF GuessesCounted
  <2>1. Guessing(id) = {}
    BY <1>1 DEF Guessing
  <2>2. Cardinality(Guessing(id)) = 0 /\ Cardinality(Requests) \in Nat
    BY <2>1, RequestsAssumption, FS_EmptySet, FS_CardinalityType
  <2>3. failures[id] \in 0 .. MaxFailures - 1
    BY <1>0
  <2> QED BY <2>2, <2>3, PoolAssumption
<1> QED BY <1>0, <1>1, <1>2, <1>3 DEF Exclusive, NothingAsked


-----------------------------------------------------------------------------
(* The invariant, and what it implies. *)

LEMMA InitAccessInv ==
  ASSUME Init
  PROVE  AccessInv
<1>1. mix \in Mixes /\ req = [r \in Requests |-> Blank] /\ failures \in [Identities -> 0 .. MaxFailures - 1]
  BY StartAssumption DEF Init
<1>2. TablesSound
  BY StartAssumption DEF Init, TablesSound, OneOwner, HasOwner, IsMember, RoleIn
<1> QED BY <1>1, <1>2, AtRest DEF AccessInv, Rest, NothingAsked

LEMMA NextAccessInv ==
  ASSUME AccessInv, [Next]_vars
  PROVE  AccessInv'
<1>1. CASE UNCHANGED vars
  <2>1. UNCHANGED <<users, tokens, sessions, members, overrides, invitations, keys, failures, req, mix>>
    BY <1>1 DEF vars, tables, client
  <2> QED BY <2>1 DEF AccessInv, TablesSound, OneOwner, HasOwner, IsMember, RoleIn, Formed, Decided, ChangesMember,
            ValidChange, Accepting, Pending, Inviting, Consuming, Exclusive, GuessesCounted, Guessing, LoginIdentities
<1>2. CASE Expire
  BY <1>2, ExpireKept
<1>3. CASE Restart
  <2>1. /\ UNCHANGED <<users, tokens, sessions, members, overrides, invitations, keys>> /\ mix' = mix
        /\ req' = [r \in Requests |-> Blank] /\ failures' = [id \in Identities |-> 0]
    BY <1>3 DEF Restart, tables
  <2>2. failures' \in [Identities -> 0 .. MaxFailures - 1]
    BY <2>1, PoolAssumption
  <2>3. /\ DOMAIN req' = Requests /\ Exclusive' /\ GuessesCounted'
        /\ \A r \in Requests : (Formed(r) /\ Decided(r) /\ Accepting(r) /\ Inviting(r) /\ Consuming(r))'
    <3>1. Rest'
      BY <2>1, <2>2 DEF Rest
    <3>2. NothingAsked'
      BY <3>1, AtRest, PTL
    <3> QED BY <3>2 DEF NothingAsked
  <2>4. TablesSound'
    BY <2>1 DEF AccessInv, TablesSound, OneOwner, HasOwner, IsMember, RoleIn
  <2> QED BY <2>1, <2>3, <2>4 DEF AccessInv
<1>4. ASSUME NEW r \in Requests, Begin(r) \/ Step(r) \/ Victim(r) \/ Fail(r) PROVE AccessInv'
  <2>1. Kept(r)
    BY <1>4, BeginKept, AccountStepKept, MemberStepKept, ProjectStepKept, GivenUpKept DEF Step
  <2> QED BY <2>1, KeptPreserves
<1> QED BY <1>1, <1>2, <1>3, <1>4 DEF Next

\* What packages/auth, tenancy and authz rely on between two statements always holds.
THEOREM AccessInvariant == Spec => []AccessInv
BY InitAccessInv, NextAccessInv, PTL DEF Spec

\* Attempts that pass isBlocked together overshoot the limit by less than the
\* number of requests in flight (LoginAttemptLimiter, login).
THEOREM GuessBoundHolds == Spec => []GuessBound
<1>1. ASSUME AccessInv PROVE GuessBound
  <2> SUFFICES ASSUME NEW id \in Identities PROVE failures[id] <= MaxFailures - 1 + Cardinality(Requests)
    BY DEF GuessBound
  <2>1. IsFiniteSet(Guessing(id))
    BY RequestsAssumption, FS_Subset DEF Guessing
  <2>2. Cardinality(Guessing(id)) \in Nat /\ Cardinality(Requests) \in Nat
    BY <2>1, RequestsAssumption, FS_CardinalityType
  <2>3. failures[id] \in Nat /\ failures[id] + Cardinality(Guessing(id)) <= MaxFailures - 1 + Cardinality(Requests)
    BY <1>1 DEF AccessInv, GuessesCounted
  <2> QED BY <2>2, <2>3, PoolAssumption
<1> QED BY <1>1, AccessInvariant, PTL

\* An organization has exactly one owner for as long as it has members
\* (createOrganization, validateMemberChange, acceptInvitation).
THEOREM OneOwnerHolds == Spec => []OneOwner
<1>1. AccessInv => OneOwner
  BY DEF AccessInv, TablesSound
<1> QED BY <1>1, AccessInvariant, PTL

\* A role in a project never allows what the role in the organization does not.
LEMMA OverrideLowers ==
  ASSUME NEW orgRole \in Roles, NEW projectRole \in ProjectOverrideRoles \cup {"none"}, NEW protected \in BOOLEAN,
         NEW permission \in Permissions, Authorized(orgRole, projectRole, protected, permission)
  PROVE  Authorized(orgRole, "none", FALSE, permission)
<1>1. /\ DecidingRole(orgRole, "none", permission) = orgRole
      /\ permission \in PermissionMatrix[DecidingRole(orgRole, projectRole, permission)]
  BY DEF Authorized, DecidingRole, EffectiveRole
<1>2. ASSUME NEW low \in Roles, RoleRank[low] < RoleRank[orgRole], permission \in PermissionMatrix[low]
      PROVE  permission \in PermissionMatrix[orgRole]
  <2>1. ReadOnlyPermissions \subseteq MemberPermissions /\ MemberPermissions \subseteq Permissions \ {"org.settings.delete"}
    BY DEF ReadOnlyPermissions, MemberPermissions, Permissions
  <2> QED BY <1>2, <2>1 DEF PermissionMatrix, RoleRank, Roles
<1>3. permission \in PermissionMatrix[orgRole]
  BY <1>1, <1>2 DEF DecidingRole, EffectiveRole, ProjectOverrideRoles
<1> QED BY <1>1, <1>3 DEF Authorized

\* Only members have a role in a project, and it gives them nothing their role in
\* the organization does not (ProjectRoleOverrideService, effectiveRole, removeMember).
THEOREM OverrideOnlyLowersHolds == Spec => []OverrideOnlyLowers
<1>1. ASSUME AccessInv PROVE OverrideOnlyLowers
  <2> SUFFICES ASSUME NEW o \in Orgs, NEW u \in Users
               PROVE  /\ overrides[o][u] # "none" => IsMember(o, u)
                      /\ IsMember(o, u) => \A p \in Permissions, protected \in BOOLEAN :
                           Authorized(members[o][u], overrides[o][u], protected, p)
                             => Authorized(members[o][u], "none", FALSE, p)
    BY DEF OverrideOnlyLowers
  <2>1. /\ members[o][u] \in Roles \cup {"none"} /\ overrides[o][u] \in ProjectOverrideRoles \cup {"none"}
        /\ overrides[o][u] # "none" => IsMember(o, u)
    BY <1>1 DEF AccessInv, TablesSound
  <2> QED BY <2>1, OverrideLowers DEF IsMember, RoleIn
<1> QED BY <1>1, AccessInvariant, PTL


-----------------------------------------------------------------------------
(* What steps may do to accounts, members and invitations.  Few write them. *)

LEMMA Writers ==
  ASSUME Next
  PROVE  /\ \/ UNCHANGED users
            \/ \E r \in Requests : InsertAccount(r) \/ VerifyEmail(r) \/ ResetPassword(r)
         /\ \/ UNCHANGED members
            \/ \E r \in Requests : InsertOrganization(r) \/ ApplyRole(r) \/ RemoveMember(r) \/ Join(r)
         /\ \/ UNCHANGED invitations
            \/ \E r \in Requests : InsertInvitation(r) \/ RevokeInvitation(r) \/ Join(r)
            \/ \E i \in DOMAIN invitations : ExpireInvitation(i)
<1>1. CASE Restart
  BY <1>1 DEF Restart, tables
<1>2. CASE Expire
  <2>1. /\ UNCHANGED <<users, members>>
        /\ UNCHANGED invitations \/ \E i \in DOMAIN invitations : ExpireInvitation(i)
    BY <1>2 DEF Expire, ExpireSession, ExpireToken, ExpireInvitation, ExpireApiKey, WindowEnds, tables
  <2> QED BY <2>1
<1>3. ASSUME NEW r \in Requests, Begin(r) \/ Victim(r) \/ Fail(r) PROVE UNCHANGED <<users, members, invitations>>
  BY <1>3 DEF Begin, Victim, Fail, Login, Signup, RequestToken, UseToken, Logout, SwitchOrganization, CreateOrganization,
       AcceptInvitation, Call, CallByKey, BySession, tables
<1>4. ASSUME NEW r \in Requests, AccountStep(r)
      PROVE  /\ UNCHANGED <<members, invitations>>
             /\ UNCHANGED users \/ InsertAccount(r) \/ VerifyEmail(r) \/ ResetPassword(r)
  BY <1>4 DEF AccountStep, SelectAccount, VerifyPassword, InsertSession, SelectOrganization, Authenticate, Touch,
       RevokeSession, FindSessions, LockSession, InsertAccount, LookupAccount, IssueToken, BeginWork, LockToken,
       VerifyEmail, LockAccount, ResetPassword, tables
<1>5. ASSUME NEW r \in Requests, MemberStep(r)
      PROVE  /\ UNCHANGED users
             /\ UNCHANGED members \/ InsertOrganization(r) \/ ApplyRole(r) \/ RemoveMember(r) \/ Join(r)
             /\ UNCHANGED invitations \/ InsertInvitation(r) \/ RevokeInvitation(r) \/ Join(r)
  <2>1. ASSUME ConsumeApiKey(r) \/ Enter(r) \/ Permit(r) \/ Work(r) \/ Switch(r) \/ ReadActor(r) \/ LockTarget(r)
                 \/ OpenInvitation(r) \/ ExistingMember(r) \/ ResolveInvitation(r) \/ LockInvitation(r) \/ LockApiKey(r)
        PROVE  UNCHANGED <<users, members, invitations>>
    BY <2>1 DEF ConsumeApiKey, Enter, Permit, Work, Switch, ReadActor, LockTarget, OpenInvitation, ExistingMember,
         ResolveInvitation, LockInvitation, LockApiKey, tables
  <2>2. ASSUME ReferenceMembership(r) \/ WriteOverride(r) \/ InsertApiKey(r) \/ RevokeApiKey(r)
        PROVE  UNCHANGED <<users, members, invitations>>
    BY <2>2 DEF ReferenceMembership, WriteOverride, InsertApiKey, RevokeApiKey
  <2>3. ASSUME InsertOrganization(r) \/ ApplyRole(r) \/ RemoveMember(r) PROVE UNCHANGED <<users, invitations>>
    BY <2>3 DEF InsertOrganization, ApplyRole, RemoveMember
  <2>4. ASSUME InsertInvitation(r) \/ RevokeInvitation(r) PROVE UNCHANGED <<users, members>>
    BY <2>4 DEF InsertInvitation, RevokeInvitation
  <2>5. Join(r) => UNCHANGED users
    BY DEF Join
  <2> QED BY <1>5, <2>1, <2>2, <2>3, <2>4, <2>5 DEF MemberStep
<1>6. ASSUME NEW r \in Requests, ProjectStep(r) PROVE UNCHANGED <<users, members, invitations>>
  BY <1>6 DEF ProjectStep, tables, InsertProject, SelectProject, WriteProject, LockProject, ActiveProject,
       CountEnvironments, InsertEnvironment, SelectEnvironment, WriteEnvironment, CountBeforeDelete, CheckOrder,
       FindEnvironments, FindSecrets, LockRow, CommitCascade, CommitOrder
<1> QED BY <1>1, <1>2, <1>3, <1>4, <1>5, <1>6 DEF Next, Step

\* An account loses its password to nobody but the owner of one of its reset
\* tokens, once per token (#consumeUserToken, resetPassword).
THEOREM TokenOnceHolds == Spec => TokenOnce
<1>1. ASSUME AccessInv, Next, NEW u \in Users, users[u].exists, users[u].pw # users'[u].pw
      PROVE  \E t \in DOMAIN tokens :
               tokens[t].kind = "reset" /\ tokens[t].user = u /\ ~tokens[t].consumed /\ tokens'[t].consumed
  <2>1. users \in [Users -> User] /\ tokens \in Seq(Token)
    BY <1>1 DEF AccessInv, TablesSound
  <2>2. PICK r \in Requests : InsertAccount(r) \/ VerifyEmail(r) \/ ResetPassword(r)
    BY <1>1, Writers
  <2>3. ~InsertAccount(r)
    BY <1>1, <2>1 DEF InsertAccount
  <2>4. ~VerifyEmail(r)
    BY <1>1, <2>1 DEF VerifyEmail, User
  <2>5. ResetPassword(r)
    BY <2>2, <2>3, <2>4
  <2>6. req[r].user = u
    BY <1>1, <2>1, <2>5 DEF ResetPassword, User
  <2>7. /\ req[r].slot \in DOMAIN tokens /\ tokens[req[r].slot].kind = "reset"
        /\ ~tokens[req[r].slot].consumed /\ tokens[req[r].slot].user = u
    BY <1>1, <2>5, <2>6 DEF ResetPassword, AccessInv, Formed, Consuming
  <2>8. tokens'[req[r].slot].consumed
    <3>1. tokens[req[r].slot] \in Token
      BY <2>1, <2>7, RowOf
    <3> QED BY <2>5, <2>7, <3>1 DEF ResetPassword, Token
  <2> QED BY <2>7, <2>8
<1>2. AccessInv /\ [Next]_vars =>
        [\A u \in Users : users[u].exists /\ users[u].pw # users'[u].pw =>
           \E t \in DOMAIN tokens :
             tokens[t].kind = "reset" /\ tokens[t].user = u /\ ~tokens[t].consumed /\ tokens'[t].consumed]_vars
  BY <1>1
<1> QED BY <1>2, AccessInvariant, PTL DEF Spec, TokenOnce

\* Roles change and members leave only as the routes decided about the role they
\* still have (validateMemberChange behind FOR UPDATE OF m).
THEOREM MemberChangeCheckedHolds == Spec => MemberChangeChecked
<1>1. ASSUME AccessInv, Next, NEW o \in Orgs, NEW u \in Users, members[o][u] \notin {"none", members'[o][u]}
      PROVE  /\ members[o][u] # "owner"
             /\ \E r \in Requests :
                  /\ req[r].org = o /\ req[r].who = u /\ req[r].target = members[o][u]
                  /\ req[r].actor = "admin" => members[o][u] # "admin" /\ members'[o][u] # "admin"
  <2>1. members \in [Orgs -> [Users -> Roles \cup {"none"}]]
    BY <1>1 DEF AccessInv, TablesSound
  <2>2. PICK r \in Requests : InsertOrganization(r) \/ ApplyRole(r) \/ RemoveMember(r) \/ Join(r)
    BY <1>1, Writers
  <2>3. ~InsertOrganization(r)
    BY <1>1, <2>1 DEF InsertOrganization, IsMember, RoleIn
  <2>4. ~Join(r)
    BY <1>1, <2>1 DEF Join, IsMember, RoleIn
  <2>5. ASSUME ApplyRole(r) \/ RemoveMember(r)
        PROVE  /\ ChangesMember(r) /\ Decided(r)
               /\ req[r].org = o /\ req[r].who = u /\ members'[o][u] \in {req[r].role, "none"}
    <3>1. ChangesMember(r) /\ Decided(r)
      BY <1>1, <2>5 DEF AccessInv, ApplyRole, RemoveMember, ChangesMember
    <3>2. CASE ApplyRole(r)
      BY <1>1, <2>1, <3>1, <3>2 DEF ApplyRole, IsMember, RoleIn
    <3>3. CASE RemoveMember(r)
      BY <1>1, <2>1, <3>1, <3>3 DEF RemoveMember
    <3> QED BY <2>5, <3>1, <3>2, <3>3
  <2> QED BY <2>2, <2>3, <2>4, <2>5 DEF Decided, ValidChange
<1>2. AccessInv /\ [Next]_vars =>
        [\A o \in Orgs, u \in Users : members[o][u] \notin {"none", members'[o][u]} =>
           /\ members[o][u] # "owner"
           /\ \E r \in Requests :
                /\ req[r].org = o /\ req[r].who = u /\ req[r].target = members[o][u]
                /\ req[r].actor = "admin" => members[o][u] # "admin" /\ members'[o][u] # "admin"]_vars
  BY <1>1
<1> QED BY <1>2, AccessInvariant, PTL DEF Spec, MemberChangeChecked

\* Nobody joins but as the owner of a new organization or by a pending invitation,
\* which is accepted or revoked once (acceptInvitation, revokeInvitation).
THEOREM InvitationOnceHolds == Spec => InvitationOnce
<1>1. ASSUME AccessInv, Next, NEW o \in Orgs, NEW u \in Users, ~IsMember(o, u), IsMember(o, u)'
      PROVE  \/ members'[o][u] = "owner" /\ \A v \in Users : ~IsMember(o, v)
             \/ \E i \in DOMAIN invitations :
                  /\ invitations[i].org = o /\ invitations[i].user = u /\ Pending(i)
                  /\ invitations[i].role = members'[o][u] /\ invitations'[i].accepted
  <2>1. members \in [Orgs -> [Users -> Roles \cup {"none"}]] /\ invitations \in Seq(Invitation)
    BY <1>1 DEF AccessInv, TablesSound
  <2>2. members[o][u] = "none" /\ members'[o][u] # "none"
    BY <1>1 DEF IsMember, RoleIn
  <2>3. PICK r \in Requests : InsertOrganization(r) \/ ApplyRole(r) \/ RemoveMember(r) \/ Join(r)
    BY <1>1, <2>2, Writers
  <2>4. CASE InsertOrganization(r)
    BY <2>1, <2>2, <2>4 DEF InsertOrganization, IsMember, RoleIn
  <2>5. ~ApplyRole(r)
    BY <2>1, <2>2 DEF ApplyRole, IsMember, RoleIn
  <2>6. ~RemoveMember(r)
    BY <2>1, <2>2 DEF RemoveMember
  <2>7. CASE Join(r)
    <3>1. req[r].org = o /\ req[r].user = u /\ members'[o][u] = req[r].role /\ ~IsMember(req[r].org, req[r].user)
      BY <2>1, <2>2, <2>7 DEF Join
    <3>2. /\ req[r].slot \in DOMAIN invitations /\ Pending(req[r].slot) /\ invitations[req[r].slot].org = o
          /\ invitations[req[r].slot].user = u /\ invitations[req[r].slot].role = req[r].role
      BY <1>1, <2>7, <3>1 DEF Join, AccessInv, Formed, Accepting
    <3>3. invitations'[req[r].slot].accepted
      <4>1. invitations[req[r].slot] \in Invitation
        BY <2>1, <3>2, RowOf
      <4> QED BY <2>7, <3>1, <3>2, <4>1 DEF Join, Invitation
    <3> QED BY <3>1, <3>2, <3>3
  <2> QED BY <2>3, <2>4, <2>5, <2>6, <2>7
<1>2. ASSUME AccessInv, Next, NEW i \in DOMAIN invitations, ~Pending(i)
      PROVE  invitations'[i].accepted = invitations[i].accepted /\ invitations'[i].revoked = invitations[i].revoked
  <2>1. invitations \in Seq(Invitation) /\ invitations[i] \in Invitation
    BY <1>2, RowOf DEF AccessInv, TablesSound
  <2>2. CASE UNCHANGED invitations
    BY <2>2
  <2>3. CASE \E r \in Requests : Join(r)
    <3>1. PICK r \in Requests : Join(r)
      BY <2>3
    <3>2. req[r].slot \in DOMAIN invitations /\ Pending(req[r].slot)
      BY <1>2, <3>1 DEF Join, AccessInv, Formed, Accepting
    <3> QED BY <1>2, <2>1, <3>1, <3>2 DEF Join
  <2>4. CASE \E r \in Requests : RevokeInvitation(r)
    BY <1>2, <2>1, <2>4 DEF RevokeInvitation
  <2>5. CASE \E r \in Requests : InsertInvitation(r)
    <3>1. PICK r \in Requests : InsertInvitation(r)
      BY <2>5
    <3>2. i \notin Rivals(r)
      BY <1>2 DEF Rivals
    <3> DEFINE stale == {j \in Rivals(r) : ~invitations[j].fresh}
               swept == [j \in DOMAIN invitations |->
                           IF j \in stale THEN [invitations[j] EXCEPT !.revoked = TRUE] ELSE invitations[j]]
    <3>3. swept[i] = invitations[i]
      BY <3>2
    <3>4. swept \in Seq(Invitation) /\ DOMAIN swept = DOMAIN invitations
      <4>1. \A j \in DOMAIN invitations : invitations[j] \in Invitation
        BY <2>1, RowOf
      <4>2. \A j \in DOMAIN invitations : swept[j] \in Invitation
        BY <4>1 DEF Invitation
      <4>3. DOMAIN invitations = 1 .. Len(invitations) /\ Len(invitations) \in Nat
        BY <2>1
      <4> QED BY <4>2, <4>3
    <3>5. PICK new : invitations' \in {invitations, Append(swept, new)}
      BY <3>1 DEF InsertInvitation
    <3> HIDE DEF swept, stale
    <3>6. Append(swept, new)[i] = swept[i]
      BY <3>4
    <3> QED BY <3>3, <3>5, <3>6
  <2>6. CASE \E j \in DOMAIN invitations : ExpireInvitation(j)
    <3>1. PICK j \in DOMAIN invitations : invitations' = [invitations EXCEPT ![j].fresh = FALSE]
      BY <2>6 DEF ExpireInvitation
    <3>2. invitations[j] \in Invitation
      BY <2>1, RowOf
    <3>3. invitations'[i] = invitations[i] \/ invitations'[i] = [invitations[i] EXCEPT !.fresh = FALSE]
      BY <2>1, <3>1
    <3> QED BY <2>1, <3>3 DEF Invitation
  <2> QED BY <1>2, <2>2, <2>3, <2>4, <2>5, <2>6, Writers
<1>3. AccessInv /\ [Next]_vars =>
        [/\ \A o \in Orgs, u \in Users :
              ~IsMember(o, u) /\ IsMember(o, u)' =>
                \/ members'[o][u] = "owner" /\ \A v \in Users : ~IsMember(o, v)
                \/ \E i \in DOMAIN invitations :
                     /\ invitations[i].org = o /\ invitations[i].user = u /\ Pending(i)
                     /\ invitations[i].role = members'[o][u] /\ invitations'[i].accepted
         /\ \A i \in DOMAIN invitations :
              ~Pending(i) => invitations'[i].accepted = invitations[i].accepted
                             /\ invitations'[i].revoked = invitations[i].revoked]_vars
  BY <1>1, <1>2
<1> QED BY <1>3, AccessInvariant, PTL DEF Spec, InvitationOnce

-----------------------------------------------------------------------------
(* Removals and the sessions of the member: SessionInv is inductive         *)
(* relative to AccessInv, whose locks it needs.                             *)

\* Sessions keep their account, and come to point at an organization only when
\* the membership's row is free for the request that points them there.
SessionsKept(r) ==
  /\ DOMAIN sessions \subseteq DOMAIN sessions'
  /\ \A s \in DOMAIN sessions : sessions'[s].user = sessions[s].user
  /\ \A s \in DOMAIN sessions' :
       \/ sessions'[s].org = NoOrg
       \/ s \in DOMAIN sessions /\ sessions'[s].org = sessions[s].org
       \/ s \in DOMAIN sessions /\ Free(r, MemberRow(sessions'[s].org, sessions'[s].user))

\* r goes where its session says nothing new.
Onward(r) ==
  /\ req'[r].pc \notin {"options", "create", "enter", "switch", "reference", "sessions"}
  /\ \/ req'[r].pc \in {"idle", "account", "verify", "session", "authenticate"}
     \/ req'[r].op \notin Sessioned
     \/ /\ req'[r].op = req[r].op /\ req'[r].user = req[r].user /\ req'[r].sess = req[r].sess
        /\ req[r].pc \notin {"idle", "account", "verify", "session", "authenticate"}

Follows(r) == SessionsKept(r) /\ Belongs(r)' /\ Unreferenced(r)'

LEMMA SameSessions ==
  ASSUME NEW r \in Requests, UNCHANGED sessions
  PROVE  SessionsKept(r)
BY DEF SessionsKept

LEMMA OnwardFollows ==
  ASSUME NEW r \in Requests, Belongs(r), SessionsKept(r), Onward(r)
  PROVE  Follows(r)
BY DEF Follows, Onward, Belongs, Unreferenced, SessionsKept

\* A request that ends relies on no session.
LEMMA EndFollows ==
  ASSUME AccessInv, NEW r \in Requests, Belongs(r), SessionsKept(r), End(r)
  PROVE  Follows(r)
<1>1. req'[r] = Blank
  BY DEF AccessInv, End
<1> QED BY <1>1, OnwardFollows DEF Onward, Blank

LEMMA FollowsPreserves ==
  ASSUME AccessInv, SessionInv, NEW r \in Requests, Alone(r), Follows(r)
  PROVE  SessionInv'
<1> SUFFICES ASSUME NEW q \in Requests PROVE Belongs(q)' /\ Unreferenced(q)'
  BY DEF SessionInv
<1>1. CASE q = r
  BY <1>1 DEF Follows
<1>2. CASE q # r
  <2>1. req'[q] = req[q] /\ Belongs(q) /\ Unreferenced(q) /\ SessionsKept(r)
    BY <1>2 DEF Alone, SessionInv, Follows
  <2>2. Belongs(q)'
    BY <2>1 DEF Belongs, SessionsKept
  <2>3. Unreferenced(q)'
    <3> SUFFICES ASSUME req[q].pc = "sessions", req[q].op = "removeMember", NEW s \in DOMAIN sessions',
                        sessions'[s].user = req[q].who, sessions'[s].org = req[q].org
                 PROVE  s \in req[q].todo \/ SessionRow(s) \in req[q].locks
      BY <2>1 DEF Unreferenced, Matching
    <3>1. Formed(q) /\ Decided(q)
      BY DEF AccessInv
    <3>2. req[q].org \in Orgs /\ MemberRow(req[q].org, req[q].who) \in req[q].locks
      BY <3>1 DEF Formed, Decided, ChangesMember, RoutePermission
    <3>3. ~Free(r, MemberRow(req[q].org, req[q].who))
      BY <1>2, <3>2 DEF Free
    <3>4. s \in DOMAIN sessions /\ sessions[s].org = req[q].org
      BY <2>1, <3>2, <3>3, NoneAssumption DEF SessionsKept
    <3>5. sessions[s].user = req[q].who
      BY <2>1, <3>4 DEF SessionsKept
    <3> QED BY <2>1, <3>4, <3>5 DEF Unreferenced, Matching
  <2> QED BY <2>2, <2>3
<1> QED BY <1>1, <1>2

LEMMA CarriedFollows ==
  ASSUME NEW r \in Requests, Belongs(r), UNCHANGED sessions, Carried(r)
  PROVE  Follows(r)
<1>1. Onward(r)
  BY DEF Carried, Onward
<1> QED BY <1>1, SameSessions, OnwardFollows

\* Logging in, and what a request learns from its session.
LEMMA LoginFollows ==
  ASSUME AccessInv, NEW r \in Requests, Belongs(r),
         SelectAccount(r) \/ VerifyPassword(r) \/ InsertSession(r) \/ SelectOrganization(r) \/ Authenticate(r) \/ Touch(r)
  PROVE  Follows(r)
<1>1. DOMAIN req = Requests /\ DOMAIN req[r] = DOMAIN Blank /\ Formed(r) /\ sessions \in Seq(Session)
  BY DEF AccessInv, Formed, TablesSound
<1>2. SessionsKept(r)
  <2>1. CASE InsertSession(r)
    <3>1. sessions' = Append(sessions, [user |-> req[r].user, org |-> NoOrg, live |-> TRUE])
      BY <2>1 DEF InsertSession
    <3>2. /\ DOMAIN sessions \subseteq DOMAIN sessions' /\ DOMAIN sessions' = DOMAIN sessions \cup {Len(sessions) + 1}
          /\ \A s \in DOMAIN sessions : sessions'[s] = sessions[s]
          /\ sessions'[Len(sessions) + 1].org = NoOrg
      BY <1>1, <3>1
    <3> QED BY <3>2 DEF SessionsKept
  <2>2. CASE ~InsertSession(r)
    <3>1. UNCHANGED sessions
      BY <2>2 DEF SelectAccount, VerifyPassword, SelectOrganization, Authenticate, Touch, tables
    <3> QED BY <3>1, SameSessions
  <2> QED BY <2>1, <2>2
<1>3. CASE End(r)
  BY <1>2, <1>3, EndFollows
<1>4. ASSUME ~End(r) PROVE Follows(r)
  <2>1. CASE SelectAccount(r)
    <3>1. PICK hash, verified : Put(r, [req[r] EXCEPT !.pc = "verify", !.hash = hash, !.verified = verified])
      BY <2>1 DEF SelectAccount
    <3>2. req'[r].pc = "verify"
      BY <1>1, <3>1 DEF Put, Blank
    <3> QED BY <1>2, <3>2, OnwardFollows DEF Onward
  <2>2. CASE VerifyPassword(r)
    <3>1. Goto(r, "session")
      BY <1>4, <2>2 DEF VerifyPassword
    <3>2. req'[r].pc = "session"
      BY <1>1, <3>1 DEF Goto, Blank
    <3> QED BY <1>2, <3>2, OnwardFollows DEF Onward
  <2>3. CASE InsertSession(r)
    <3>1. req'[r].pc = "authenticate"
      BY <1>1, <2>3 DEF InsertSession, Put, Blank
    <3> QED BY <1>2, <3>1, OnwardFollows DEF Onward
  <2>4. CASE SelectOrganization(r)
    <3>1. PICK o \in Orgs : Put(r, [req[r] EXCEPT !.pc = "enter", !.org = o])
      BY <1>4, <2>4 DEF SelectOrganization
    <3>2. /\ req[r].pc = "options" /\ req'[r].pc = "enter" /\ UNCHANGED sessions
          /\ req'[r].op = req[r].op /\ req'[r].user = req[r].user /\ req'[r].sess = req[r].sess
      BY <1>1, <2>4, <3>1 DEF SelectOrganization, Put, Blank, tables
    <3> QED BY <1>2, <3>2 DEF Follows, Belongs, Unreferenced, Sessioned
  <2>5. CASE Authenticate(r)
    <3>1. PICK o : Put(r, [req[r] EXCEPT !.pc = "touch", !.user = sessions[req[r].sess].user, !.org = o])
      BY <1>4, <2>5 DEF Authenticate
    <3>2. /\ req[r].pc = "authenticate" /\ req'[r].pc = "touch" /\ UNCHANGED sessions
          /\ req'[r].op = req[r].op /\ req'[r].user = sessions[req[r].sess].user /\ req'[r].sess = req[r].sess
      BY <1>1, <2>5, <3>1 DEF Authenticate, Put, Blank, tables
    <3>3. req[r].sess \in DOMAIN sessions
      BY <1>1, <3>2 DEF Formed
    <3> QED BY <1>2, <3>2, <3>3 DEF Follows, Belongs, Unreferenced
  <2>6. CASE Touch(r)
    <3>1. Goto(r, AfterSession(req[r].op))
      BY <1>4, <2>6 DEF Touch
    <3>2. /\ req[r].pc = "touch" /\ req'[r].pc = AfterSession(req[r].op) /\ UNCHANGED sessions
          /\ req'[r].op = req[r].op /\ req'[r].user = req[r].user /\ req'[r].sess = req[r].sess
      BY <1>1, <2>6, <3>1 DEF Touch, Goto, Blank, tables
    <3>3. /\ AfterSession(req[r].op) \in {"options", "revoke", "create", "resolve", "enter"}
          /\ AfterSession(req[r].op) = "options" => req[r].op = "login"
          /\ AfterSession(req[r].op) = "create" => req[r].op = "createOrganization"
          /\ AfterSession(req[r].op) = "enter" => req[r].op # "logout"
      BY DEF AfterSession
    <3>4. req[r].op \in DOMAIN RoutePermission \cup Sessioned \cup {"logout"}
      BY <1>1, <3>2 DEF Formed, Sessioned
    <3> QED BY <1>2, <3>2, <3>3, <3>4 DEF Follows, Belongs, Unreferenced
  <2> QED BY <2>1, <2>2, <2>3, <2>4, <2>5, <2>6
<1> QED BY <1>3, <1>4

\* Sign-up, tokens, logout and password reset.
LEMMA AccountFollows ==
  ASSUME AccessInv, NEW r \in Requests, Belongs(r), Unreferenced(r), AccountStep(r)
  PROVE  Follows(r)
<1>1. DOMAIN req = Requests /\ DOMAIN req[r] = DOMAIN Blank /\ Formed(r) /\ sessions \in Seq(Session)
  BY DEF AccessInv, Formed, TablesSound
<1>2. CASE SelectAccount(r) \/ VerifyPassword(r) \/ InsertSession(r) \/ SelectOrganization(r) \/ Authenticate(r) \/ Touch(r)
  BY <1>2, LoginFollows
<1>3. CASE RevokeSession(r) \/ ResetPassword(r)
  <2>1. End(r)
    BY <1>3 DEF RevokeSession, ResetPassword
  <2>2. /\ DOMAIN sessions' = DOMAIN sessions
        /\ \A s \in DOMAIN sessions : sessions'[s].user = sessions[s].user /\ sessions'[s].org = sessions[s].org
    <3>1. \A s \in DOMAIN sessions : sessions[s] \in Session
      BY <1>1, RowOf
    <3>2. CASE RevokeSession(r)
      BY <3>1, <3>2 DEF RevokeSession, Session
    <3>3. CASE ResetPassword(r)
      BY <3>1, <3>3 DEF ResetPassword, Session
    <3> QED BY <1>3, <3>2, <3>3
  <2> QED BY <2>1, <2>2, EndFollows DEF SessionsKept
<1>4. CASE InsertAccount(r) \/ IssueToken(r) \/ VerifyEmail(r)
  <2>1. End(r) /\ UNCHANGED sessions
    BY <1>4 DEF InsertAccount, IssueToken, VerifyEmail
  <2> QED BY <2>1, SameSessions, EndFollows
<1>5. ASSUME FindSessions(r) \/ LockSession(r) \/ LookupAccount(r) \/ BeginWork(r) \/ LockToken(r) \/ LockAccount(r), ~End(r)
      PROVE  Follows(r)
  <2>1. UNCHANGED sessions
    BY <1>5 DEF FindSessions, LockSession, LookupAccount, BeginWork, LockToken, LockAccount, tables
  <2>2. SessionsKept(r)
    BY <2>1, SameSessions
  <2>3. CASE FindSessions(r)
    <3> DEFINE todo == {s \in DOMAIN sessions : Matching(r, s)}
    <3>1. Put(r, [req[r] EXCEPT !.pc = "sessions", !.todo = todo]) /\ req[r].pc = "find"
      BY <2>3 DEF FindSessions
    <3>2. /\ req'[r].pc = "sessions" /\ req'[r].todo = todo /\ req'[r].who = req[r].who /\ req'[r].org = req[r].org
          /\ req'[r].op = req[r].op /\ req'[r].user = req[r].user /\ req'[r].sess = req[r].sess
      BY <1>1, <3>1 DEF Put, Blank
    <3> QED BY <2>1, <2>2, <3>1, <3>2 DEF Follows, Belongs, Unreferenced, Matching
  <2>4. CASE LockSession(r)
    <3>1. PICK s : Put(r, [req[r] EXCEPT !.todo = @ \ {s}, !.locks = @ \cup {SessionRow(s)}]) /\ req[r].pc = "sessions"
      BY <2>4 DEF LockSession
    <3>2. /\ req'[r].pc = "sessions" /\ req'[r].todo = req[r].todo \ {s}
          /\ req'[r].locks = req[r].locks \cup {SessionRow(s)} /\ req'[r].who = req[r].who /\ req'[r].org = req[r].org
          /\ req'[r].op = req[r].op /\ req'[r].user = req[r].user /\ req'[r].sess = req[r].sess
      BY <1>1, <3>1 DEF Put, Blank
    <3> QED BY <2>1, <2>2, <3>1, <3>2 DEF Follows, Belongs, Unreferenced, Matching
  <2>5. CASE LookupAccount(r)
    <3>1. Goto(r, "issue") /\ req[r].pc = "lookup"
      BY <1>5, <2>5 DEF LookupAccount
    <3>2. /\ req'[r].pc = "issue"
          /\ req'[r].op = req[r].op /\ req'[r].user = req[r].user /\ req'[r].sess = req[r].sess
      BY <1>1, <3>1 DEF Goto, Blank
    <3> QED BY <2>2, <3>1, <3>2, OnwardFollows DEF Onward
  <2>6. CASE BeginWork(r)
    <3>1. PICK n : Put(r, [req[r] EXCEPT !.pc = IF req[r].op = "acceptInvitation" THEN "invitation" ELSE "token",
                                         !.conns = n])
      BY <2>6 DEF BeginWork, Connect, Put
    <3>2. /\ req[r].pc = "begin" /\ req'[r].pc \in {"invitation", "token"}
          /\ req'[r].op = req[r].op /\ req'[r].user = req[r].user /\ req'[r].sess = req[r].sess
      BY <1>1, <2>6, <3>1 DEF BeginWork, Put, Blank
    <3> QED BY <2>2, <3>2, OnwardFollows DEF Onward
  <2>7. CASE LockToken(r)
    <3>1. PICK u, locks : Put(r, [req[r] EXCEPT !.pc = "user", !.user = u, !.locks = locks])
      BY <1>5, <2>7 DEF LockToken, Put
    <3>2. req[r].pc = "token" /\ req'[r].pc = "user" /\ req'[r].op = req[r].op
      BY <1>1, <2>7, <3>1 DEF LockToken, Put, Blank
    <3>3. req[r].op \notin Sessioned
      BY <1>1, <3>2 DEF Formed, Sessioned
    <3> QED BY <2>2, <3>2, <3>3, OnwardFollows DEF Onward
  <2>8. CASE LockAccount(r)
    <3>1. PICK locks : Put(r, [req[r] EXCEPT !.pc = "find", !.locks = locks])
      BY <2>8 DEF LockAccount, Lock, Put
    <3>2. /\ req[r].pc = "user" /\ req'[r].pc = "find"
          /\ req'[r].op = req[r].op /\ req'[r].user = req[r].user /\ req'[r].sess = req[r].sess
      BY <1>1, <2>8, <3>1 DEF LockAccount, Put, Blank
    <3> QED BY <2>2, <3>2, OnwardFollows DEF Onward
  <2> QED BY <1>5, <2>3, <2>4, <2>5, <2>6, <2>7, <2>8
<1>6. ASSUME FindSessions(r) \/ LockSession(r) \/ LookupAccount(r) \/ BeginWork(r) \/ LockToken(r) \/ LockAccount(r), End(r)
      PROVE  Follows(r)
  <2>1. UNCHANGED sessions
    BY <1>6 DEF FindSessions, LockSession, LookupAccount, BeginWork, LockToken, LockAccount, tables
  <2> QED BY <1>6, <2>1, SameSessions, EndFollows
<1> QED BY <1>2, <1>3, <1>4, <1>5, <1>6 DEF AccountStep

\* Entering and leaving an organization's transaction.
LEMMA EnterFollows ==
  ASSUME AccessInv, NEW r \in Requests, Belongs(r),
         ConsumeApiKey(r) \/ Enter(r) \/ Permit(r) \/ Work(r) \/ Switch(r) \/ InsertOrganization(r) \/ Join(r)
  PROVE  Follows(r)
<1>1. DOMAIN req = Requests /\ DOMAIN req[r] = DOMAIN Blank /\ Formed(r) /\ Accepting(r)
  BY DEF AccessInv, Formed
<1>2. UNCHANGED sessions
  BY DEF ConsumeApiKey, Enter, Permit, Work, Switch, InsertOrganization, Join, tables
<1>3. SessionsKept(r)
  BY <1>2, SameSessions
<1>4. CASE End(r)
  BY <1>3, <1>4, EndFollows
<1>5. ASSUME ~End(r) PROVE Follows(r)
  <2>1. CASE ConsumeApiKey(r)
    <3>1. PICK u, o : Put(r, [req[r] EXCEPT !.pc = "enter", !.user = u, !.org = o])
      BY <1>5, <2>1 DEF ConsumeApiKey
    <3>2. req[r].pc = "key" /\ req'[r].pc = "enter" /\ req'[r].op = req[r].op
      BY <1>1, <2>1, <3>1 DEF ConsumeApiKey, Put, Blank
    <3>3. req[r].op \in DOMAIN RoutePermission /\ req[r].op \notin Sessioned
      BY <1>1, <3>2 DEF Formed, RoutePermission, Sessioned
    <3> QED BY <1>3, <3>2, <3>3 DEF Follows, Belongs, Unreferenced
  <2>2. CASE Enter(r)
    <3>1. PICK n : Put(r, [req[r] EXCEPT !.pc = IF req[r].op \in DOMAIN RoutePermission THEN "permit" ELSE "switch",
                                         !.conns = n])
      BY <1>5, <2>2 DEF Enter, Connect, Put
    <3>2. /\ req[r].pc = "enter" /\ req'[r].pc = (IF req[r].op \in DOMAIN RoutePermission THEN "permit" ELSE "switch")
          /\ req'[r].op = req[r].op /\ req'[r].user = req[r].user /\ req'[r].sess = req[r].sess
      BY <1>1, <2>2, <3>1 DEF Enter, Put, Blank
    <3> QED BY <1>2, <1>3, <3>2 DEF Follows, Belongs, Unreferenced
  <2>3. CASE Permit(r)
    <3>1. Goto(r, FirstStatement(req[r].op)) /\ req[r].pc = "permit"
      BY <1>5, <2>3 DEF Permit
    <3>2. /\ req'[r].pc = FirstStatement(req[r].op)
          /\ req'[r].op = req[r].op /\ req'[r].user = req[r].user /\ req'[r].sess = req[r].sess
      BY <1>1, <3>1 DEF Goto, Blank
    <3>3. FirstStatement(req[r].op) \notin {"options", "create", "enter", "switch", "reference", "sessions"}
      BY <1>1, <3>1, FirstStatements DEF Formed
    <3> QED BY <1>3, <3>1, <3>2, <3>3, OnwardFollows DEF Onward
  <2>4. CASE Switch(r)
    <3>1. PICK locks : Put(r, [req[r] EXCEPT !.pc = "reference", !.locks = locks])
      BY <1>5, <2>4 DEF Switch, Lock, Put
    <3>2. /\ req[r].pc = "switch" /\ req'[r].pc = "reference"
          /\ req'[r].op = req[r].op /\ req'[r].user = req[r].user /\ req'[r].sess = req[r].sess
      BY <1>1, <2>4, <3>1 DEF Switch, Put, Blank
    <3> QED BY <1>2, <1>3, <3>2 DEF Follows, Belongs, Unreferenced
  <2>5. CASE InsertOrganization(r) \/ Join(r)
    <3>1. Leave(r, "enter") /\ req[r].pc \in {"create", "join"}
      BY <1>5, <2>5 DEF InsertOrganization, Join
    <3>2. /\ req'[r].pc = "enter"
          /\ req'[r].op = req[r].op /\ req'[r].user = req[r].user /\ req'[r].sess = req[r].sess
      BY <1>1, <3>1 DEF Leave, Put, Blank
    <3>3. req[r].op \in Sessioned
      BY <1>1, <3>1 DEF Belongs, Accepting, Sessioned
    <3> QED BY <1>2, <1>3, <3>1, <3>2, <3>3 DEF Follows, Belongs, Unreferenced
  <2> QED BY <1>5, <2>1, <2>2, <2>3, <2>4, <2>5 DEF Work
<1> QED BY <1>4, <1>5

\* The two statements that write the organization of a session.
LEMMA ReferenceFollows ==
  ASSUME AccessInv, NEW r \in Requests, Belongs(r), ReferenceMembership(r) \/ RemoveMember(r)
  PROVE  Follows(r)
<1>1. End(r)
  BY DEF ReferenceMembership, RemoveMember
<1>2. sessions \in Seq(Session) /\ \A s \in DOMAIN sessions : sessions[s] \in Session
  BY RowOf DEF AccessInv, TablesSound
<1>3. CASE ReferenceMembership(r)
  <2>1. /\ req[r].pc = "reference" /\ Free(r, MemberRow(req[r].org, req[r].user))
        /\ sessions' \in {sessions, [sessions EXCEPT ![req[r].sess].org = req[r].org]}
    BY <1>3 DEF ReferenceMembership
  <2>2. req[r].sess \in DOMAIN sessions /\ sessions[req[r].sess].user = req[r].user
    BY <2>1 DEF Belongs
  <2>3. CASE sessions' = sessions
    BY <1>1, <2>3, SameSessions, EndFollows
  <2>4. CASE sessions' = [sessions EXCEPT ![req[r].sess].org = req[r].org]
    <3>1. /\ DOMAIN sessions' = DOMAIN sessions
          /\ \A s \in DOMAIN sessions :
               /\ sessions'[s].user = sessions[s].user
               /\ sessions'[s].org = IF s = req[r].sess THEN req[r].org ELSE sessions[s].org
      BY <1>2, <2>2, <2>4 DEF Session
    <3>2. SessionsKept(r)
      BY <2>1, <2>2, <3>1 DEF SessionsKept
    <3> QED BY <1>1, <3>2, EndFollows
  <2> QED BY <2>1, <2>3, <2>4
<1>4. CASE RemoveMember(r)
  <2>1. \/ sessions' = sessions
        \/ sessions' = [s \in DOMAIN sessions |->
                          IF s \in Updated(r) THEN [sessions[s] EXCEPT !.org = NoOrg] ELSE sessions[s]]
    BY <1>4 DEF RemoveMember
  <2>2. /\ DOMAIN sessions' = DOMAIN sessions
        /\ \A s \in DOMAIN sessions :
             sessions'[s].user = sessions[s].user /\ sessions'[s].org \in {sessions[s].org, NoOrg}
    BY <1>2, <2>1 DEF Session
  <2>3. SessionsKept(r)
    BY <2>2 DEF SessionsKept
  <2> QED BY <1>1, <2>3, EndFollows
<1> QED BY <1>3, <1>4

\* Member changes, invitations and keys.
LEMMA MemberFollows ==
  ASSUME AccessInv, NEW r \in Requests, Belongs(r), MemberStep(r)
  PROVE  Follows(r)
<1>1. DOMAIN req = Requests /\ DOMAIN req[r] = DOMAIN Blank /\ Formed(r)
  BY DEF AccessInv, Formed
<1>2. CASE ConsumeApiKey(r) \/ Enter(r) \/ Permit(r) \/ Work(r) \/ Switch(r) \/ InsertOrganization(r) \/ Join(r)
  BY <1>2, EnterFollows
<1>3. CASE ReferenceMembership(r) \/ RemoveMember(r)
  BY <1>3, ReferenceFollows
<1>4. CASE ApplyRole(r) \/ WriteOverride(r) \/ RevokeInvitation(r) \/ InsertApiKey(r) \/ RevokeApiKey(r)
  <2>1. End(r) /\ UNCHANGED sessions
    BY <1>4 DEF ApplyRole, WriteOverride, RevokeInvitation, InsertApiKey, RevokeApiKey
  <2> QED BY <2>1, SameSessions, EndFollows
<1>5. ASSUME ReadActor(r) \/ LockTarget(r) \/ OpenInvitation(r) \/ ExistingMember(r) \/ InsertInvitation(r)
               \/ ResolveInvitation(r) \/ LockInvitation(r) \/ LockApiKey(r)
      PROVE  Follows(r)
  <2>1. SessionsKept(r)
    <3>1. UNCHANGED sessions
      BY <1>5 DEF ReadActor, LockTarget, OpenInvitation, ExistingMember, InsertInvitation, ResolveInvitation,
           LockInvitation, LockApiKey, tables
    <3> QED BY <3>1, SameSessions
  <2>2. req[r].pc \in {"actor", "target", "invite", "existing", "invitation-insert", "resolve", "invitation", "key-row"}
    BY <1>5 DEF ReadActor, LockTarget, OpenInvitation, ExistingMember, InsertInvitation, ResolveInvitation,
         LockInvitation, LockApiKey
  <2>3. ASSUME ~End(r)
        PROVE  /\ req'[r].op = req[r].op /\ req'[r].user = req[r].user /\ req'[r].sess = req[r].sess
               /\ req'[r].pc \in {"target", "apply", "find", "existing", "invitation-insert", "work", "begin", "join",
                                  "key-revoke"}
    <3>1. CASE ReadActor(r)
      <4>1. PICK role : Put(r, [req[r] EXCEPT !.pc = "target", !.actor = role])
        BY <3>1 DEF ReadActor
      <4> QED BY <1>1, <4>1 DEF Put, Blank
    <3>2. CASE LockTarget(r)
      <4>1. PICK target, locks :
              Put(r, [req[r] EXCEPT !.pc = IF req[r].op = "updateMember" THEN "apply" ELSE "find",
                                    !.target = target, !.locks = locks])
        BY <2>3, <3>2 DEF LockTarget, Put
      <4> QED BY <1>1, <4>1 DEF Put, Blank
    <3>3. CASE OpenInvitation(r)
      <4>1. PICK n : Put(r, [req[r] EXCEPT !.pc = "existing", !.conns = n])
        BY <2>3, <3>3 DEF OpenInvitation, Connect, Put
      <4> QED BY <1>1, <4>1 DEF Put, Blank
    <3>4. CASE ExistingMember(r)
      <4>1. Put(r, [req[r] EXCEPT !.pc = "invitation-insert"])
        BY <1>1, <2>3, <3>4 DEF ExistingMember, Goto, Put
      <4> QED BY <1>1, <4>1 DEF Put, Blank
    <3>5. CASE InsertInvitation(r)
      <4>1. PICK n : Put(r, [req[r] EXCEPT !.pc = "work", !.conns = n])
        BY <2>3, <3>5 DEF InsertInvitation, Put
      <4> QED BY <1>1, <4>1 DEF Put, Blank
    <3>6. CASE ResolveInvitation(r)
      <4>1. PICK o : Put(r, [req[r] EXCEPT !.pc = "begin", !.org = o])
        BY <2>3, <3>6 DEF ResolveInvitation
      <4> QED BY <1>1, <4>1 DEF Put, Blank
    <3>7. CASE LockInvitation(r)
      <4>1. PICK role, locks : Put(r, [req[r] EXCEPT !.pc = "join", !.role = role, !.locks = locks])
        BY <2>3, <3>7 DEF LockInvitation, Put
      <4> QED BY <1>1, <4>1 DEF Put, Blank
    <3>8. CASE LockApiKey(r)
      <4>1. PICK locks : Put(r, [req[r] EXCEPT !.pc = "key-revoke", !.locks = locks])
        BY <2>3, <3>8 DEF LockApiKey, Lock, Put
      <4> QED BY <1>1, <4>1 DEF Put, Blank
    <3> QED BY <1>5, <3>1, <3>2, <3>3, <3>4, <3>5, <3>6, <3>7, <3>8
  <2>4. CASE End(r)
    BY <2>1, <2>4, EndFollows
  <2>5. CASE ~End(r)
    BY <2>1, <2>2, <2>3, <2>5, OnwardFollows DEF Onward
  <2> QED BY <2>4, <2>5
<1> QED BY <1>2, <1>3, <1>4, <1>5 DEF MemberStep

\* A request arrives, and knows nothing of a session yet.
LEMMA BeginFollows ==
  ASSUME AccessInv, NEW r \in Requests, Belongs(r), Begin(r)
  PROVE  Follows(r)
<1>1. DOMAIN req = Requests /\ UNCHANGED sessions
  BY DEF AccessInv, Begin, Login, Signup, RequestToken, UseToken, Logout, SwitchOrganization, CreateOrganization,
         AcceptInvitation, Call, CallByKey, BySession, tables
<1>2. ASSUME NEW l, Arrive(r, l),
             /\ l.pc \notin {"options", "create", "enter", "switch", "reference", "sessions"}
             /\ l.pc \in {"account", "authenticate"} \/ l.op \notin Sessioned
      PROVE  Follows(r)
  <2>1. req'[r] = l
    BY <1>1, <1>2 DEF Arrive, Put
  <2> QED BY <1>1, <1>2, <2>1, SameSessions, OnwardFollows DEF Onward
<1>3. ASSUME NEW op, NEW s, NEW locals, BySession(r, op, s, locals), DOMAIN locals = DOMAIN Blank PROVE Follows(r)
  <2> DEFINE l == [locals EXCEPT !.pc = "authenticate", !.op = op, !.sess = s]
  <2>1. l.pc = "authenticate" /\ Arrive(r, l)
    BY <1>3 DEF BySession, Blank
  <2> HIDE DEF l
  <2> QED BY <1>2, <2>1
<1>4. PICK c \in mix :
        \/ c.op = "login" /\ Login(r, c.user, c.pw, c.ip, c.org)
        \/ c.op = "signup" /\ Signup(r, c.user, c.pw)
        \/ RequestToken(r, c.op, c.user)
        \/ UseToken(r, c.op, c.slot, c.pw)
        \/ Logout(r, c.sess)
        \/ SwitchOrganization(r, c.sess, c.org)
        \/ CreateOrganization(r, c.sess, c.org)
        \/ AcceptInvitation(r, c.sess, c.slot)
        \/ Call(r, c.op, c.sess, c)
        \/ CallByKey(r, c.op, c.key, c)
  BY DEF Begin
<1>5. DOMAIN c = DOMAIN Blank
  BY <1>4, CallsAssumption DEF AccessInv
<1>6. CASE c.op = "login" /\ Login(r, c.user, c.pw, c.ip, c.org)
  <2> DEFINE l == [Blank EXCEPT !.pc = "account", !.op = "login", !.user = c.user, !.pw = c.pw, !.ip = c.ip, !.org = c.org]
  <2>1. l.pc = "account" /\ Arrive(r, l)
    BY <1>6 DEF Login, Blank
  <2> HIDE DEF l
  <2> QED BY <1>2, <2>1
<1>7. CASE c.op = "signup" /\ Signup(r, c.user, c.pw)
  <2> DEFINE l == [Blank EXCEPT !.pc = "signup", !.op = "signup", !.user = c.user, !.pw = c.pw]
  <2>1. l.pc = "signup" /\ l.op = "signup" /\ Arrive(r, l)
    BY <1>7 DEF Signup, Blank
  <2> HIDE DEF l
  <2> QED BY <1>2, <2>1 DEF Sessioned
<1>8. CASE RequestToken(r, c.op, c.user)
  <2> DEFINE l == [Blank EXCEPT !.pc = "lookup", !.op = c.op, !.user = c.user]
  <2>1. l.pc = "lookup" /\ l.op \in {"requestPasswordReset", "resendEmailVerification"} /\ Arrive(r, l)
    BY <1>8 DEF RequestToken, Blank
  <2> HIDE DEF l
  <2> QED BY <1>2, <2>1 DEF Sessioned
<1>9. CASE UseToken(r, c.op, c.slot, c.pw)
  <2> DEFINE l == [Blank EXCEPT !.pc = "begin", !.op = c.op, !.slot = c.slot, !.pw = c.pw]
  <2>1. l.pc = "begin" /\ l.op \in {"resetPassword", "verifyEmail"} /\ Arrive(r, l)
    BY <1>9 DEF UseToken, Blank
  <2> HIDE DEF l
  <2> QED BY <1>2, <2>1 DEF Sessioned
<1>10. CASE Logout(r, c.sess)
  BY <1>3, <1>10 DEF Logout
<1>11. CASE SwitchOrganization(r, c.sess, c.org)
  BY <1>3, <1>11 DEF SwitchOrganization, Blank
<1>12. CASE CreateOrganization(r, c.sess, c.org)
  BY <1>3, <1>12 DEF CreateOrganization, Blank
<1>13. CASE AcceptInvitation(r, c.sess, c.slot)
  BY <1>3, <1>13 DEF AcceptInvitation, Blank
<1>14. CASE Call(r, c.op, c.sess, c)
  BY <1>3, <1>5, <1>14 DEF Call
<1>15. CASE CallByKey(r, c.op, c.key, c)
  <2> DEFINE l == [c EXCEPT !.pc = "key", !.op = c.op, !.key = c.key]
  <2>1. l.pc = "key" /\ l.op = c.op /\ Arrive(r, l) /\ c.op \in DOMAIN RoutePermission
    BY <1>5, <1>15 DEF CallByKey, Blank
  <2> HIDE DEF l
  <2> QED BY <1>2, <2>1 DEF Sessioned, RoutePermission
<1> QED BY <1>4, <1>6, <1>7, <1>8, <1>9, <1>10, <1>11, <1>12, <1>13, <1>14, <1>15

LEMMA NextSessionInv ==
  ASSUME AccessInv, SessionInv, [Next]_vars
  PROVE  SessionInv'
<1>1. CASE UNCHANGED vars
  BY <1>1 DEF vars, tables, SessionInv, Belongs, Unreferenced, Matching
<1>2. CASE Expire
  <2>1. req' = req /\ DOMAIN sessions' = DOMAIN sessions
        /\ \A s \in DOMAIN sessions : sessions'[s].user = sessions[s].user /\ sessions'[s].org = sessions[s].org
    <3>1. sessions \in Seq(Session) /\ \A s \in DOMAIN sessions : sessions[s] \in Session
      BY RowOf DEF AccessInv, TablesSound
    <3>2. ASSUME NEW s, ExpireSession(s)
          PROVE  req' = req /\ DOMAIN sessions' = DOMAIN sessions
                 /\ \A t \in DOMAIN sessions : sessions'[t].user = sessions[t].user /\ sessions'[t].org = sessions[t].org
      BY <3>1, <3>2 DEF ExpireSession, Session
    <3>3. CASE UNCHANGED <<req, sessions>>
      BY <3>3
    <3>4. UNCHANGED <<req, sessions>> \/ \E s : ExpireSession(s)
      BY <1>2 DEF Expire, ExpireToken, ExpireInvitation, ExpireApiKey, WindowEnds, tables
    <3> QED BY <3>2, <3>3, <3>4
  <2>2. ASSUME NEW q \in Requests PROVE Belongs(q)' /\ Unreferenced(q)'
    <3>1. Belongs(q)'
      BY <2>1 DEF SessionInv, Belongs
    <3>2. req[q].pc = "sessions" /\ req[q].op = "removeMember" =>
            \A s \in DOMAIN sessions : Matching(q, s)' => Matching(q, s)
      BY <2>1 DEF Matching
    <3>3. Unreferenced(q)'
      BY <2>1, <3>2 DEF SessionInv, Unreferenced
    <3> QED BY <3>1, <3>3
  <2> QED BY <2>2 DEF SessionInv
<1>3. CASE Restart
  <2>1. \A q \in Requests : req'[q].pc = "idle"
    BY <1>3 DEF Restart, Blank
  <2> QED BY <2>1 DEF SessionInv, Belongs, Unreferenced
<1>4. ASSUME NEW r \in Requests, Begin(r) \/ Step(r) \/ Victim(r) \/ Fail(r) PROVE SessionInv'
  <2>1. Alone(r)
    BY <1>4, BeginKept, AccountStepKept, MemberStepKept, ProjectStepKept, GivenUpKept DEF Step, Kept
  <2>2. Belongs(r) /\ Unreferenced(r)
    BY DEF SessionInv
  <2>3. CASE ProjectStep(r)
    <3>1. UNCHANGED sessions /\ (End(r) \/ Carried(r))
      BY <2>3, ProjectStepCarries DEF people
    <3> QED BY <2>1, <2>2, <3>1, SameSessions, EndFollows, CarriedFollows, FollowsPreserves
  <2>4. CASE Victim(r) \/ Fail(r)
    <3>1. UNCHANGED sessions /\ End(r)
      BY <2>4 DEF Victim, Fail, tables
    <3> QED BY <2>1, <2>2, <3>1, SameSessions, EndFollows, FollowsPreserves
  <2>5. CASE Begin(r)
    BY <2>1, <2>2, <2>5, BeginFollows, FollowsPreserves
  <2>6. CASE AccountStep(r)
    BY <2>1, <2>2, <2>6, AccountFollows, FollowsPreserves
  <2>7. CASE MemberStep(r)
    BY <2>1, <2>2, <2>7, MemberFollows, FollowsPreserves
  <2> QED BY <1>4, <2>3, <2>4, <2>5, <2>6, <2>7 DEF Step
<1> QED BY <1>1, <1>2, <1>3, <1>4 DEF Next

\* Requests move their own sessions only, and a removal misses none of its member's.
LEMMA SessionsInvariant == Spec => []SessionInv
<1>1. Init => SessionInv
  BY DEF Init, SessionInv, Belongs, Unreferenced, Blank
<1>2. AccessInv /\ SessionInv /\ [Next]_vars => SessionInv'
  BY NextSessionInv
<1> QED BY <1>1, <1>2, AccessInvariant, PTL DEF Spec

\* The DELETE of a membership is never refused for a session that still points
\* at it (removeMember, switchActiveOrganization, sessions_active_membership_fk).
THEOREM RemovalNeverRefusedHolds == Spec => []RemovalNeverRefused
<1>1. ASSUME SessionInv PROVE RemovalNeverRefused
  BY <1>1 DEF SessionInv, RemovalNeverRefused, Unreferenced, StillReferenced, Updated, Matching
<1> QED BY <1>1, SessionsInvariant, PTL
=============================================================================
