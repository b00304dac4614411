---------------------------- MODULE ProjectProofs ---------------------------
(***************************************************************************)
(* Theorems about the projects of Access and what cascades leave of them:  *)
(* the invariant ProjectInv, relative to AccessInv, by one lemma per kind  *)
(* of step, and the promises it implies.                                   *)
(***************************************************************************)
EXTENDS AccessProofs

-----------------------------------------------------------------------------
(* Finite sets of numbers. *)

LEMMA ImageFinite ==
  ASSUME NEW S, IsFiniteSet(S), NEW f, DOMAIN f = S
  PROVE  IsFiniteSet({f[x] : x \in S})
<1> DEFINE T == {f[x] : x \in S}
           g == [x \in S |-> f[x]]
<1>1. g \in Surjection(S, T)
  BY DEF Surjection
<1> HIDE DEF g
<1> QED BY <1>1, FS_Surjection

\* There is always a time nobody has taken.
LEMMA NumberOutside ==
  ASSUME NEW S, IsFiniteSet(S)
  PROVE  \E t \in 1 .. Cardinality(S) + 1 : t \notin S
<1>1. Cardinality(S) \in Nat
  BY FS_CardinalityType
<1>2. Cardinality(1 .. Cardinality(S) + 1) = Cardinality(S) + 1
  BY <1>1, FS_Interval
<1> SUFFICES ASSUME (1 .. Cardinality(S) + 1) \subseteq S PROVE FALSE
  OBVIOUS
<1>3. Cardinality(1 .. Cardinality(S) + 1) <= Cardinality(S)
  BY FS_Subset
<1> QED BY <1>1, <1>2, <1>3

\* A finite set of numbers has a greatest one.
LEMMA Greatest ==
  ASSUME NEW S \in SUBSET Nat, IsFiniteSet(S), S # {}
  PROVE  \E n \in S : \A m \in S : m <= n
<1> DEFINE Topless == {T \in FiniteSubsetsOf(S) : T # {} /\ \A n \in T : \E m \in T : ~(m <= n)}
<1> SUFFICES ASSUME Topless # {} PROVE FALSE
  BY DEF FiniteSubsetsOf
<1>1. PICK T \in Topless : \A U \in Topless : ~(<<U, T>> \in StrictSubsetOrdering(S))
  <2>1. Topless \subseteq FiniteSubsetsOf(S) /\ IsWellFoundedOn(StrictSubsetOrdering(S), FiniteSubsetsOf(S))
    BY FS_StrictSubsetOrderingWellFounded
  <2> HIDE DEF Topless
  <2> QED BY <2>1, WFMin
<1>2. PICK x \in T : TRUE
  BY <1>1
<1> DEFINE U == T \ {x}
<1>3. U \in FiniteSubsetsOf(S) /\ <<U, T>> \in StrictSubsetOrdering(S)
  <2>1. T \subseteq S /\ IsFiniteSet(T) /\ x \in T
    BY <1>1, <1>2 DEF FiniteSubsetsOf
  <2>2. U \subseteq S /\ IsFiniteSet(U) /\ U \subseteq T /\ U # T
    BY <2>1, FS_RemoveElement
  <2> HIDE DEF U
  <2> QED BY <2>1, <2>2 DEF FiniteSubsetsOf, StrictSubsetOrdering
<1>6. U \notin Topless
  BY <1>1, <1>3
<1>4. CASE U = {}
  BY <1>1, <1>2, <1>4 DEF FiniteSubsetsOf
<1>5. CASE U # {}
  <2>1. PICK n \in U : \A m \in U : m <= n
    BY <1>3, <1>5, <1>6
  <2>2. n \in Nat /\ x \in Nat /\ T \subseteq Nat
    BY <1>1, <1>2, <2>1 DEF FiniteSubsetsOf
  <2>3. \A m \in T : m = x \/ m <= n
    BY <2>1
  <2>4. CASE x <= n
    BY <1>1, <2>1, <2>2, <2>3, <2>4
  <2>5. CASE ~(x <= n)
    BY <1>1, <1>2, <2>2, <2>3, <2>5
  <2> QED BY <2>4, <2>5
<1> QED BY <1>4, <1>5

LEMMA TreeRows ==
  ASSUME TreeSound
  PROVE  /\ tree.projects \in Seq(Project) /\ tree.environments \in Seq(Environment) /\ tree.secrets \in Seq(Secret)
         /\ \A p \in DOMAIN tree.projects : tree.projects[p] \in Project
         /\ \A e \in DOMAIN tree.environments : tree.environments[e] \in Environment
         /\ \A s \in DOMAIN tree.secrets : tree.secrets[s] \in Secret
         /\ tree = [projects |-> tree.projects, environments |-> tree.environments, secrets |-> tree.secrets]
<1>1. /\ tree.projects \in Seq(Project) /\ tree.environments \in Seq(Environment) /\ tree.secrets \in Seq(Secret)
      /\ tree = [projects |-> tree.projects, environments |-> tree.environments, secrets |-> tree.secrets]
  BY DEF TreeSound
<1> QED BY <1>1, RowOf

\* A time of one's own (this.#now()).
LEMMA NowIsTime ==
  ASSUME AccessInv, TreeSound
  PROVE  Now \in Nat
<1>1. IsFiniteSet(DOMAIN tree.projects) /\ IsFiniteSet(DOMAIN tree.environments) /\ IsFiniteSet(DOMAIN tree.secrets)
  <2>1. ASSUME NEW T, NEW s \in Seq(T) PROVE IsFiniteSet(DOMAIN s)
    <3>1. DOMAIN s = 1 .. Len(s) /\ Len(s) \in Nat
      OBVIOUS
    <3> QED BY <3>1, FS_Interval
  <2> QED BY <2>1, TreeRows
<1> DEFINE f == [p \in DOMAIN tree.projects |-> tree.projects[p].deletedAt]
           g == [e \in DOMAIN tree.environments |-> tree.environments[e].deletedAt]
           h == [s \in DOMAIN tree.secrets |-> tree.secrets[s].deletedAt]
           k == [q \in Requests |-> req[q].stamp]
<1>2. IsFiniteSet({f[p] : p \in DOMAIN tree.projects})
  <2>1. DOMAIN f = DOMAIN tree.projects
    OBVIOUS
  <2> HIDE DEF f
  <2> QED BY <1>1, <2>1, ImageFinite
<1>3. IsFiniteSet({g[e] : e \in DOMAIN tree.environments})
  <2>1. DOMAIN g = DOMAIN tree.environments
    OBVIOUS
  <2> HIDE DEF g
  <2> QED BY <1>1, <2>1, ImageFinite
<1>4. IsFiniteSet({h[s] : s \in DOMAIN tree.secrets})
  <2>1. DOMAIN h = DOMAIN tree.secrets
    OBVIOUS
  <2> HIDE DEF h
  <2> QED BY <1>1, <2>1, ImageFinite
<1>5. IsFiniteSet({k[q] : q \in Requests})
  <2>1. DOMAIN k = Requests
    OBVIOUS
  <2> HIDE DEF k
  <2> QED BY <2>1, RequestsAssumption, ImageFinite
<1>6. Stamps = (({f[p] : p \in DOMAIN tree.projects} \cup {g[e] : e \in DOMAIN tree.environments})
                  \cup {h[s] : s \in DOMAIN tree.secrets}) \cup {k[q] : q \in Requests}
  BY DEF Stamps
<1> HIDE DEF f, g, h, k
<1>7. IsFiniteSet(Stamps)
  BY <1>2, <1>3, <1>4, <1>5, <1>6, FS_Union
<1>8. \E t \in 1 .. Cardinality(Stamps) + 1 : t \notin Stamps
  BY <1>7, NumberOutside
<1>9. Cardinality(Stamps) \in Nat
  BY <1>7, FS_CardinalityType
<1> QED BY <1>8, <1>9 DEF Now

-----------------------------------------------------------------------------
(* What a step of r may do to the tree: rows stay where they are, and are   *)
(* deleted or restored only while nobody else has them locked.              *)

TreeKept(r) ==
  /\ TreeSound'
  /\ DOMAIN tree.projects \subseteq DOMAIN tree'.projects
  /\ DOMAIN tree.environments \subseteq DOMAIN tree'.environments
  /\ DOMAIN tree.secrets \subseteq DOMAIN tree'.secrets
  /\ \A e \in DOMAIN tree.environments :
       /\ tree'.environments[e].project = tree.environments[e].project
       /\ \/ Free(r, EnvironmentRow(e))
          \/ /\ tree'.environments[e].deletedAt = tree.environments[e].deletedAt
             /\ tree'.environments[e].byProject = tree.environments[e].byProject
  /\ \A s \in DOMAIN tree.secrets :
       /\ tree'.secrets[s].environment = tree.secrets[s].environment
       /\ \/ Free(r, SecretRow(s))
          \/ /\ tree'.secrets[s].deletedAt = tree.secrets[s].deletedAt
             /\ tree'.secrets[s].byProject = tree.secrets[s].byProject
             /\ tree'.secrets[s].byEnvironment = tree.secrets[s].byEnvironment

LEMMA SameTree ==
  ASSUME TreeSound, NEW r \in Requests, tree' = tree
  PROVE  TreeKept(r)
BY DEF TreeKept, TreeSound

\* Which rows the statements of q want, as far as the tree decides it.
LEMMA SameWhere ==
  ASSUME TreeSound, NEW r \in Requests, TreeKept(r), NEW q \in Requests, 
         req'[q].op = req[q].op, req'[q].project = req[q].project, req'[q].slot = req[q].slot,
         req'[q].stamp = req[q].stamp, req'[q].order = req[q].order
  PROVE  /\ \A e \in DOMAIN tree.environments :
              tree'.environments[e].deletedAt = tree.environments[e].deletedAt
              /\ tree'.environments[e].byProject = tree.environments[e].byProject
                => ChangesEnvironment(q, e)' = ChangesEnvironment(q, e)
         /\ \A s \in DOMAIN tree.secrets :
              tree'.secrets[s].deletedAt = tree.secrets[s].deletedAt
              /\ tree'.secrets[s].byProject = tree.secrets[s].byProject
              /\ tree'.secrets[s].byEnvironment = tree.secrets[s].byEnvironment
                => ChangesSecret(q, s)' = ChangesSecret(q, s)
<1>1. ASSUME NEW e \in DOMAIN tree.environments,
             tree'.environments[e].deletedAt = tree.environments[e].deletedAt,
             tree'.environments[e].byProject = tree.environments[e].byProject
      PROVE  ChangesEnvironment(q, e)' = ChangesEnvironment(q, e)
  <2>1. tree'.environments[e].project = tree.environments[e].project
    BY DEF TreeKept
  <2> QED BY <1>1, <2>1 DEF ChangesEnvironment, Live
<1>2. ASSUME NEW s \in DOMAIN tree.secrets,
             tree'.secrets[s].deletedAt = tree.secrets[s].deletedAt,
             tree'.secrets[s].byProject = tree.secrets[s].byProject,
             tree'.secrets[s].byEnvironment = tree.secrets[s].byEnvironment
      PROVE  ChangesSecret(q, s)' = ChangesSecret(q, s)
  <2>1. /\ tree'.secrets[s].environment = tree.secrets[s].environment
        /\ tree.secrets[s].environment \in DOMAIN tree.environments
        /\ tree.secrets[s].environment \in DOMAIN tree'.environments
        /\ s \in DOMAIN tree'.secrets
    BY DEF TreeKept, TreeSound
  <2>2. \A p : (s \in SecretsIn(p))' <=> s \in SecretsIn(p)
    BY <2>1 DEF TreeKept, SecretsIn, EnvironmentsIn
  <2>3. s \in SecretsIn(req[q].project)' <=> s \in SecretsIn(req[q].project)
    BY <2>2
  <2> QED BY <1>2, <2>1, <2>3 DEF ChangesSecret, Live
<1> QED BY <1>1, <1>2

Settles(r) == Placed(r)' /\ Cascading(r)'

\* Other requests keep the rows they decided on.
LEMMA TreeKeptPreserves ==
  ASSUME AccessInv, ProjectInv, NEW r \in Requests, Alone(r), TreeKept(r), Settles(r), ops' \in Nat
  PROVE  ProjectInv'
<1>1. TreeSound /\ \A q \in Requests : Placed(q) /\ Cascading(q)
  BY DEF ProjectInv
<1>2. TreeSound' /\ (DOMAIN Start.tree.projects \subseteq DOMAIN tree.projects)'
  BY DEF ProjectInv, TreeKept
<1>3. ASSUME NEW q \in Requests, q # r PROVE Placed(q)' /\ Cascading(q)'
  <2>1. req'[q] = req[q] /\ Placed(q) /\ Cascading(q)
    BY <1>1, <1>3 DEF Alone
  <2>2. Placed(q)'
    BY <2>1 DEF Placed, TreeKept
  <2>3. ASSUME NEW row \in req[q].locks
        PROVE  /\ row[1] = "environment" =>
                    \E e \in DOMAIN tree'.environments : row = EnvironmentRow(e) /\ ChangesEnvironment(q, e)'
               /\ row[1] = "secret" => \E s \in DOMAIN tree'.secrets : row = SecretRow(s) /\ ChangesSecret(q, s)'
    <3>1. ~Free(r, row)
      BY <1>3 DEF Free
    <3>2. ASSUME row[1] = "environment"
          PROVE  \E e \in DOMAIN tree'.environments : row = EnvironmentRow(e) /\ ChangesEnvironment(q, e)'
      <4>1. PICK e \in DOMAIN tree.environments : row = EnvironmentRow(e) /\ ChangesEnvironment(q, e)
        BY <2>1, <2>3, <3>2 DEF Cascading
      <4>2. /\ tree'.environments[e].deletedAt = tree.environments[e].deletedAt
            /\ tree'.environments[e].byProject = tree.environments[e].byProject
            /\ e \in DOMAIN tree'.environments
        BY <3>1, <4>1 DEF TreeKept
      <4> QED BY <1>1, <2>1, <4>1, <4>2, SameWhere
    <3>3. ASSUME row[1] = "secret"
          PROVE  \E s \in DOMAIN tree'.secrets : row = SecretRow(s) /\ ChangesSecret(q, s)'
      <4>1. PICK s \in DOMAIN tree.secrets : row = SecretRow(s) /\ ChangesSecret(q, s)
        BY <2>1, <2>3, <3>3 DEF Cascading
      <4>2. /\ tree'.secrets[s].deletedAt = tree.secrets[s].deletedAt
            /\ tree'.secrets[s].byProject = tree.secrets[s].byProject
            /\ tree'.secrets[s].byEnvironment = tree.secrets[s].byEnvironment
            /\ s \in DOMAIN tree'.secrets
        BY <3>1, <4>1 DEF TreeKept
      <4> QED BY <1>1, <2>1, <4>1, <4>2, SameWhere
    <3> QED BY <3>2, <3>3
  <2>4. Cascading(q)'
    BY <2>1, <2>3 DEF Cascading, TreeKept
  <2> QED BY <2>2, <2>4
<1> QED BY <1>2, <1>3 DEF ProjectInv, Settles

-----------------------------------------------------------------------------
(* Steps of other packages. *)

LEMMA BlankSettles ==
  ASSUME NEW r \in Requests, req'[r] = Blank
  PROVE  Settles(r)
<1>1. /\ Blank.pc = "idle" /\ Blank.op = "none" /\ Blank.conns = 0 /\ Blank.slug = 0 /\ Blank.stamp = 0
      /\ Blank.order = <<>> /\ Blank.locks = {}
  BY DEF Blank
<1> HIDE DEF Blank
<1>2. Placed(r)'
  BY <1>1 DEF Placed, Labels, Connections, ProjectRoutes, EnvironmentRoutes, CascadeLabels
<1>3. Cascading(r)'
  BY <1>1 DEF Cascading, CascadeLabels
<1> QED BY <1>2, <1>3 DEF Settles

\* r keeps what it was asked for, and the time it knows.
Same(r) ==
  /\ req'[r].op = req[r].op /\ req'[r].project = req[r].project /\ req'[r].slot = req[r].slot
  /\ req'[r].slug = req[r].slug /\ req'[r].order = req[r].order /\ req'[r].stamp = req[r].stamp

\* r does nothing to the tree, and goes where nothing of it is relied on.
Outside(r) ==
  /\ tree' = tree
  /\ \/ End(r)
     \/ /\ Same(r)
        /\ req[r].pc \notin ProjectLabels
        /\ req'[r].pc \in Labels \ ProjectLabels
        /\ req'[r].conns = Connections(req'[r].pc)
        /\ \A row \in req'[r].locks : row \in req[r].locks \/ row[1] \notin {"project", "environment", "secret"}

LEMMA OutsideKept ==
  ASSUME AccessInv, ProjectInv, NEW r \in Requests, Outside(r)
  PROVE  TreeKept(r) /\ Settles(r)
<1>1. TreeSound /\ Placed(r) /\ Cascading(r) /\ DOMAIN req = Requests
  BY DEF ProjectInv, AccessInv
<1>2. TreeKept(r)
  BY <1>1, SameTree DEF Outside
<1>3. CASE End(r)
  BY <1>1, <1>2, <1>3, BlankSettles DEF End
<1>4. CASE ~End(r)
  <2>1. /\ tree' = tree /\ Same(r) /\ req[r].pc \notin ProjectLabels /\ req'[r].pc \in Labels \ ProjectLabels
        /\ req'[r].conns = Connections(req'[r].pc)
        /\ \A row \in req'[r].locks : row \in req[r].locks \/ row[1] \notin {"project", "environment", "secret"}
    BY <1>4 DEF Outside
  <2>2. Placed(r)'
    BY <1>1, <2>1 DEF Placed, Same, ProjectLabels, CascadeLabels
  <2>3. \A row \in req'[r].locks : row[1] \notin {"project", "environment", "secret"}
    BY <1>1, <2>1 DEF Cascading, ProjectLabels, CascadeLabels
  <2>4. Cascading(r)'
    BY <2>1, <2>3 DEF Cascading, ProjectLabels, CascadeLabels
  <2> QED BY <1>2, <2>2, <2>4 DEF Settles
<1> QED BY <1>3, <1>4

LEMMA AccountOutside ==
  ASSUME AccessInv, ProjectInv, NEW r \in Requests, AccountStep(r)
  PROVE  Outside(r)
<1>1. DOMAIN req = Requests /\ DOMAIN req[r] = DOMAIN Blank /\ req[r].conns = Connections(req[r].pc)
  BY DEF AccessInv, Formed, ProjectInv, Placed
<1>2. tree' = tree
  BY DEF AccountStep, tables, SelectAccount, VerifyPassword, InsertSession, SelectOrganization, Authenticate, Touch,
         RevokeSession, FindSessions, LockSession, InsertAccount, LookupAccount, IssueToken, BeginWork, LockToken,
         VerifyEmail, LockAccount, ResetPassword
<1> USE DEF Same, Connections, Labels, ProjectLabels, CascadeLabels
<1>3. ASSUME NEW label, NEW hash, NEW verified, Put(r, [req[r] EXCEPT !.pc = label, !.hash = hash, !.verified = verified]),
             label = "verify", req[r].pc = "account"
      PROVE  Outside(r)
  BY <1>1, <1>2, <1>3 DEF Outside, Put, Blank
<1>4. ASSUME NEW label, Goto(r, label), req[r].pc \notin ProjectLabels,
             label \in Labels \ ProjectLabels, Connections(label) = Connections(req[r].pc)
      PROVE  Outside(r)
  BY <1>1, <1>2, <1>4 DEF Outside, Goto, Blank
<1>5. CASE SelectAccount(r)
  BY <1>3, <1>5 DEF SelectAccount
<1>6. CASE VerifyPassword(r)
  BY <1>2, <1>4, <1>6 DEF VerifyPassword, Outside
<1>7. CASE InsertSession(r)
  <2>1. PICK s : Put(r, [req[r] EXCEPT !.pc = "authenticate", !.sess = s])
    BY <1>7 DEF InsertSession
  <2> QED BY <1>1, <1>2, <1>7, <2>1 DEF InsertSession, Outside, Put, Blank
<1>8. CASE SelectOrganization(r)
  <2>1. CASE End(r)
    BY <1>2, <2>1 DEF Outside
  <2>2. ASSUME ~End(r) PROVE Outside(r)
    <3>1. PICK o : Put(r, [req[r] EXCEPT !.pc = "enter", !.org = o])
      BY <1>8, <2>2 DEF SelectOrganization
    <3> QED BY <1>1, <1>2, <1>8, <3>1 DEF SelectOrganization, Outside, Put, Blank
  <2> QED BY <2>1, <2>2
<1>9. CASE Authenticate(r)
  <2>1. CASE End(r)
    BY <1>2, <2>1 DEF Outside
  <2>2. ASSUME ~End(r) PROVE Outside(r)
    <3>1. PICK u, o : Put(r, [req[r] EXCEPT !.pc = "touch", !.user = u, !.org = o])
      BY <1>9, <2>2 DEF Authenticate
    <3> QED BY <1>1, <1>2, <1>9, <3>1 DEF Authenticate, Outside, Put, Blank
  <2> QED BY <2>1, <2>2
<1>10. CASE Touch(r)
  BY <1>2, <1>4, <1>10 DEF Touch, Outside, AfterSession
<1>11. CASE FindSessions(r)
  BY <1>1, <1>2, <1>11 DEF FindSessions, Outside, Put, Blank
<1>12. CASE LockSession(r)
  <2>1. PICK s : Put(r, [req[r] EXCEPT !.todo = @ \ {s}, !.locks = @ \cup {SessionRow(s)}])
    BY <1>12 DEF LockSession
  <2> QED BY <1>1, <1>2, <1>12, <2>1 DEF LockSession, Outside, Put, Blank, SessionRow
<1>13. CASE LookupAccount(r)
  BY <1>2, <1>4, <1>13 DEF LookupAccount, Outside
<1>14. CASE BeginWork(r)
  BY <1>1, <1>2, <1>14 DEF BeginWork, Connect, Outside, Put, Blank
<1>15. CASE LockToken(r)
  <2>1. CASE End(r)
    BY <1>2, <2>1 DEF Outside
  <2>2. ASSUME ~End(r) PROVE Outside(r)
    <3>1. PICK u : Put(r, [req[r] EXCEPT !.pc = "user", !.user = u, !.locks = @ \cup {TokenRow(req[r].slot)}])
      BY <1>15, <2>2 DEF LockToken
    <3> QED BY <1>1, <1>2, <1>15, <3>1 DEF LockToken, Outside, Put, Blank, TokenRow
  <2> QED BY <2>1, <2>2
<1>16. CASE LockAccount(r)
  BY <1>1, <1>2, <1>16 DEF LockAccount, Lock, Outside, Put, Blank, UserRow
<1> QED BY <1>2, <1>5, <1>6, <1>7, <1>8, <1>9, <1>10, <1>11, <1>12, <1>13, <1>14, <1>15, <1>16
        DEF AccountStep, Outside, RevokeSession, InsertAccount, IssueToken, VerifyEmail, ResetPassword

LEMMA MemberOutside ==
  ASSUME AccessInv, ProjectInv, NEW r \in Requests, MemberStep(r), ~Permit(r)
  PROVE  Outside(r)
<1>1. DOMAIN req = Requests /\ DOMAIN req[r] = DOMAIN Blank /\ req[r].conns = Connections(req[r].pc)
  BY DEF AccessInv, Formed, ProjectInv, Placed
<1>2. tree' = tree
  BY DEF MemberStep, tables, ConsumeApiKey, Enter, Permit, Work, Switch, ReferenceMembership, InsertOrganization, ReadActor,
         LockTarget, ApplyRole, RemoveMember, WriteOverride, OpenInvitation, ExistingMember, InsertInvitation,
         RevokeInvitation, ResolveInvitation, LockInvitation, Join, InsertApiKey, LockApiKey, RevokeApiKey
<1>3. CASE End(r)
  BY <1>2, <1>3 DEF Outside
<1>4. ASSUME ~End(r) PROVE Outside(r)
  <2> USE DEF Same, Connections, Labels, ProjectLabels, CascadeLabels
  <2>1. CASE ConsumeApiKey(r)
    <3>1. PICK u, o : Put(r, [req[r] EXCEPT !.pc = "enter", !.user = u, !.org = o])
      BY <1>4, <2>1 DEF ConsumeApiKey
    <3> QED BY <1>1, <1>2, <2>1, <3>1 DEF ConsumeApiKey, Outside, Put, Blank
  <2>2. CASE Enter(r)
    <3>1. PICK label \in {"permit", "switch"} : Put(r, [[req[r] EXCEPT !.pc = label] EXCEPT !.conns = @ + 1])
      BY <1>4, <2>2 DEF Enter, Connect
    <3> QED BY <1>1, <1>2, <2>2, <3>1 DEF Enter, Outside, Put, Blank
  <2>3. CASE Switch(r)
    <3>1. Put(r, [req[r] EXCEPT !.pc = "reference", !.locks = @ \cup {SessionRow(req[r].sess)}])
      BY <1>4, <2>3 DEF Switch, Lock
    <3> QED BY <1>1, <1>2, <2>3, <3>1 DEF Switch, Outside, Put, Blank, SessionRow
  <2>4. CASE InsertOrganization(r) \/ Join(r)
    <3>1. Put(r, [req[r] EXCEPT !.pc = "enter", !.locks = {}, !.conns = 0])
      BY <1>4, <2>4 DEF InsertOrganization, Join, Leave
    <3> QED BY <1>1, <1>2, <2>4, <3>1 DEF InsertOrganization, Join, Outside, Put, Blank
  <2>5. CASE ReadActor(r)
    <3>1. PICK role : Put(r, [req[r] EXCEPT !.pc = "target", !.actor = role])
      BY <2>5 DEF ReadActor
    <3> QED BY <1>1, <1>2, <2>5, <3>1 DEF ReadActor, Outside, Put, Blank
  <2>6. CASE LockTarget(r)
    <3>1. PICK target :
            Put(r, [req[r] EXCEPT !.pc = IF req[r].op = "updateMember" THEN "apply" ELSE "find", !.target = target,
                                  !.locks = @ \cup {MemberRow(req[r].org, req[r].who)}])
      BY <1>4, <2>6 DEF LockTarget
    <3> QED BY <1>1, <1>2, <2>6, <3>1 DEF LockTarget, Outside, Put, Blank, MemberRow
  <2>7. CASE OpenInvitation(r)
    <3>1. Put(r, [[req[r] EXCEPT !.pc = "existing"] EXCEPT !.conns = @ + 1])
      BY <1>4, <2>7 DEF OpenInvitation, Connect
    <3> QED BY <1>1, <1>2, <2>7, <3>1 DEF OpenInvitation, Outside, Put, Blank
  <2>8. CASE ExistingMember(r)
    <3>1. Goto(r, "invitation-insert")
      BY <1>4, <2>8 DEF ExistingMember
    <3> QED BY <1>1, <1>2, <2>8, <3>1 DEF ExistingMember, Outside, Goto, Blank
  <2>9. CASE InsertInvitation(r)
    <3>1. Put(r, [req[r] EXCEPT !.pc = "work", !.conns = @ - 1])
      BY <1>4, <2>9 DEF InsertInvitation
    <3> QED BY <1>1, <1>2, <2>9, <3>1 DEF InsertInvitation, Outside, Put, Blank
  <2>10. CASE ResolveInvitation(r)
    <3>1. PICK o : Put(r, [req[r] EXCEPT !.pc = "begin", !.org = o])
      BY <1>4, <2>10 DEF ResolveInvitation
    <3> QED BY <1>1, <1>2, <2>10, <3>1 DEF ResolveInvitation, Outside, Put, Blank
  <2>11. CASE LockInvitation(r)
    <3>1. PICK role : Put(r, [req[r] EXCEPT !.pc = "join", !.role = role, !.locks = @ \cup {InvitationRow(req[r].slot)}])
      BY <1>4, <2>11 DEF LockInvitation
    <3> QED BY <1>1, <1>2, <2>11, <3>1 DEF LockInvitation, Outside, Put, Blank, InvitationRow
  <2>12. CASE LockApiKey(r)
    <3>1. Put(r, [req[r] EXCEPT !.pc = "key-revoke", !.locks = @ \cup {KeyRow(req[r].slot)}])
      BY <1>4, <2>12 DEF LockApiKey, Lock
    <3> QED BY <1>1, <1>2, <2>12, <3>1 DEF LockApiKey, Outside, Put, Blank, KeyRow
  <2> QED BY <1>4, <2>1, <2>2, <2>3, <2>4, <2>5, <2>6, <2>7, <2>8, <2>9, <2>10, <2>11, <2>12
          DEF MemberStep, Work, ReferenceMembership, ApplyRole, RemoveMember, WriteOverride, RevokeInvitation,
              InsertApiKey, RevokeApiKey
<1> QED BY <1>3, <1>4

\* The first statement of a route on projects or environments.
LEMMA PermitSettles ==
  ASSUME AccessInv, ProjectInv, NEW r \in Requests, Permit(r)
  PROVE  TreeKept(r) /\ Settles(r)
<1>1. /\ DOMAIN req = Requests /\ DOMAIN req[r] = DOMAIN Blank /\ req[r].pc = "permit"
      /\ req[r].op \in DOMAIN RoutePermission /\ Placed(r) /\ Cascading(r) /\ TreeSound
  BY DEF AccessInv, Formed, ProjectInv, Permit
<1>2. tree' = tree /\ TreeKept(r)
  BY <1>1, SameTree DEF Permit, tables
<1>3. CASE End(r)
  BY <1>1, <1>2, <1>3, BlankSettles DEF End
<1>4. CASE ~End(r)
  <2> DEFINE first == FirstStatement(req[r].op)
  <2>1. Goto(r, first)
    BY <1>4 DEF Permit
  <2>2. Same(r) /\ req'[r].pc = first /\ req'[r].conns = req[r].conns /\ req'[r].locks = req[r].locks
    BY <1>1, <2>1 DEF Same, Goto, Blank
  <2>3. req[r].conns = 1 /\ \A row \in req[r].locks : row[1] \notin {"project", "environment", "secret"}
    BY <1>1 DEF Placed, Connections, Cascading, CascadeLabels
  <2>4. \/ first \in {"actor", "invite", "invitation", "key-insert", "key-row", "override", "work"}
        \/ first = "project-insert" /\ req[r].op = "createProject"
        \/ first = "project" /\ req[r].op \in DOMAIN ProjectRoutes \ {"createProject"}
        \/ first = "active" /\ req[r].op \in {"createEnvironment", "reorderEnvironments"}
        \/ first = "environment" /\ req[r].op \in {"updateEnvironment", "deleteEnvironment", "restoreEnvironment"}
    <3>1. CASE req[r].op \in DOMAIN ProjectRoutes
      <4>1. /\ DOMAIN ProjectRoutes = {"createProject", "updateProject", "setArchived", "deleteProject", "restoreProject"}
            /\ DOMAIN EnvironmentRoutes \cap DOMAIN ProjectRoutes = {}
        BY DEF ProjectRoutes, EnvironmentRoutes
      <4>2. first = ProjectRoutes[req[r].op]
        BY <3>1, <4>1 DEF FirstStatement
      <4> HIDE DEF first
      <4> QED BY <3>1, <4>1, <4>2 DEF ProjectRoutes
    <3>2. CASE req[r].op \in DOMAIN EnvironmentRoutes
      <4>1. first = EnvironmentRoutes[req[r].op]
        BY <3>2 DEF FirstStatement, ProjectRoutes, EnvironmentRoutes
      <4> HIDE DEF first
      <4> QED BY <3>2, <4>1 DEF EnvironmentRoutes
    <3>3. CASE req[r].op \notin DOMAIN ProjectRoutes /\ req[r].op \notin DOMAIN EnvironmentRoutes
      BY <3>3 DEF FirstStatement
    <3> QED BY <3>1, <3>2, <3>3
  <2> HIDE DEF first
  <2>5. first \in Labels /\ Connections(first) = 1
    BY <2>4 DEF Labels, Connections
  <2>6. Placed(r)'
    BY <1>1, <1>2, <2>2, <2>3, <2>4, <2>5 DEF Placed, Same, CascadeLabels
  <2>7. Cascading(r)'
    BY <1>1, <1>2, <2>2, <2>3, <2>4 DEF Cascading, Same, CascadeLabels, ProjectRoutes
  <2> QED BY <1>2, <2>6, <2>7 DEF Settles
<1> QED BY <1>3, <1>4

\* A request arrives, with locals its call was validated for.
LEMMA BeginSettles ==
  ASSUME AccessInv, ProjectInv, NEW r \in Requests, Begin(r)
  PROVE  TreeKept(r) /\ Settles(r) /\ ops' \in Nat
<1> DEFINE Sound(l) ==
      /\ l.pc \in {"account", "signup", "lookup", "begin", "authenticate", "key"}
      /\ l.conns = 0 /\ l.locks = {} /\ l.slug \in Nat /\ l.stamp \in Nat /\ l.order \in Seq(Nat \ {0})
      /\ l.op \in DOMAIN ProjectRoutes \cup DOMAIN EnvironmentRoutes => l.project \in DOMAIN tree.projects
      /\ l.op \in {"updateEnvironment", "deleteEnvironment", "restoreEnvironment"} => l.slot \in DOMAIN tree.environments
      /\ l.op \in {"createProject", "createEnvironment"} => l.slug # 0
<1>1. DOMAIN req = Requests /\ TreeSound /\ ops \in Nat /\ DOMAIN Start.tree.projects \subseteq DOMAIN tree.projects
  BY DEF AccessInv, ProjectInv
<1>2. tree' = tree
  BY DEF Begin, Login, Signup, RequestToken, UseToken, Logout, SwitchOrganization, CreateOrganization,
         AcceptInvitation, Call, CallByKey, BySession, tables
<1>3. TreeKept(r)
  BY <1>1, <1>2, SameTree
<1>4. ASSUME NEW l, Arrive(r, l), Sound(l) PROVE Settles(r) /\ ops' \in Nat
  <2>1. req'[r] = l /\ ops' \in Nat
    BY <1>1, <1>4 DEF Arrive, Put
  <2>2. Placed(r)'
    BY <1>2, <1>4, <2>1 DEF Placed, Labels, Connections, CascadeLabels
  <2>3. Cascading(r)'
    BY <1>4, <2>1 DEF Cascading, CascadeLabels
  <2> QED BY <2>1, <2>2, <2>3 DEF Settles
<1>5. ASSUME NEW pc \in {"account", "signup", "lookup", "begin", "authenticate"}, NEW op, NEW l,
             op \notin DOMAIN ProjectRoutes \cup DOMAIN EnvironmentRoutes,
             l.pc = pc, l.op = op, l.conns = 0, l.locks = {}, l.slug = 0, l.stamp = 0, l.order = <<>>
      PROVE  Sound(l)
  BY <1>5 DEF ProjectRoutes, EnvironmentRoutes
<1>6. ASSUME NEW c \in mix, NEW pc \in {"authenticate", "key"}, NEW l,
             c.op \in {"updateEnvironment", "deleteEnvironment", "restoreEnvironment"} => c.slot \in DOMAIN tree.environments,
             l.pc = pc, l.op = c.op, l.conns = c.conns, l.locks = c.locks, l.slug = c.slug, l.stamp = c.stamp,
             l.order = c.order, l.project = c.project, l.slot = c.slot
      PROVE  Sound(l)
  BY <1>1, <1>6, CallsAssumption DEF AccessInv
<1> HIDE DEF Sound
<1>7. PICK c \in mix :
        \/ c.op = "login" /\ Login(r, c.user, c.pw, c.ip, c.org)
        \/ c.op = "signup" /\ Signup(r, c.user, c.pw)
        \/ RequestToken(r, c.op, c.user)
        \/ UseToken(r, c.op, c.slot, c.pw)
        \/ Logout(r, c.sess)
        \/ SwitchOrganization(r, c.sess, c.org)
        \/ CreateOrganization(r, c.sess, c.org)
        \/ AcceptInvitation(r, c.sess, c.slot)
        \/ /\ c.op \in {"updateEnvironment", "deleteEnvironment", "restoreEnvironment"} => c.slot \in DOMAIN tree.environments
           /\ Call(r, c.op, c.sess, c) \/ CallByKey(r, c.op, c.key, c)
  BY DEF Begin
<1>8. DOMAIN c = DOMAIN Blank
  BY <1>7, CallsAssumption DEF AccessInv
<1> USE <1>3
<1>9. CASE c.op = "login" /\ Login(r, c.user, c.pw, c.ip, c.org)
  <2> DEFINE l == [Blank EXCEPT !.pc = "account", !.op = "login", !.user = c.user, !.pw = c.pw, !.ip = c.ip, !.org = c.org]
  <2>1. /\ l.pc = "account" /\ l.op = "login" /\ l.conns = 0 /\ l.locks = {} /\ l.slug = 0 /\ l.stamp = 0
        /\ l.order = <<>> /\ Arrive(r, l)
    BY <1>9 DEF Login, Blank
  <2> HIDE DEF l
  <2>2. Sound(l)
    BY <1>5, <2>1 DEF ProjectRoutes, EnvironmentRoutes
  <2> QED BY <1>4, <2>1, <2>2
<1>10. CASE c.op = "signup" /\ Signup(r, c.user, c.pw)
  <2> DEFINE l == [Blank EXCEPT !.pc = "signup", !.op = "signup", !.user = c.user, !.pw = c.pw]
  <2>1. /\ l.pc = "signup" /\ l.op = "signup" /\ l.conns = 0 /\ l.locks = {} /\ l.slug = 0 /\ l.stamp = 0
        /\ l.order = <<>> /\ Arrive(r, l)
    BY <1>10 DEF Signup, Blank
  <2> HIDE DEF l
  <2>2. Sound(l)
    BY <1>5, <2>1 DEF ProjectRoutes, EnvironmentRoutes
  <2> QED BY <1>4, <2>1, <2>2
<1>11. CASE RequestToken(r, c.op, c.user)
  <2> DEFINE l == [Blank EXCEPT !.pc = "lookup", !.op = c.op, !.user = c.user]
  <2>1. /\ l.pc = "lookup" /\ l.op = c.op /\ l.conns = 0 /\ l.locks = {} /\ l.slug = 0 /\ l.stamp = 0
        /\ l.order = <<>> /\ Arrive(r, l) /\ c.op \in {"requestPasswordReset", "resendEmailVerification"}
    BY <1>11 DEF RequestToken, Blank
  <2> HIDE DEF l
  <2>2. Sound(l)
    BY <1>5, <2>1 DEF ProjectRoutes, EnvironmentRoutes
  <2> QED BY <1>4, <2>1, <2>2
<1>12. CASE UseToken(r, c.op, c.slot, c.pw)
  <2> DEFINE l == [Blank EXCEPT !.pc = "begin", !.op = c.op, !.slot = c.slot, !.pw = c.pw]
  <2>1. /\ l.pc = "begin" /\ l.op = c.op /\ l.conns = 0 /\ l.locks = {} /\ l.slug = 0 /\ l.stamp = 0
        /\ l.order = <<>> /\ Arrive(r, l) /\ c.op \in {"resetPassword", "verifyEmail"}
    BY <1>12 DEF UseToken, Blank
  <2> HIDE DEF l
  <2>2. Sound(l)
    BY <1>5, <2>1 DEF ProjectRoutes, EnvironmentRoutes
  <2> QED BY <1>4, <2>1, <2>2
<1>13. ASSUME NEW op \in {"logout", "switchOrganization", "createOrganization", "acceptInvitation"}, NEW s, NEW locals,
              BySession(r, op, s, locals), DOMAIN locals = DOMAIN Blank, locals.conns = 0, locals.locks = {},
              locals.slug = 0, locals.stamp = 0, locals.order = <<>>
       PROVE  Settles(r) /\ ops' \in Nat
  <2> DEFINE l == [locals EXCEPT !.pc = "authenticate", !.op = op, !.sess = s]
  <2>1. /\ l.pc = "authenticate" /\ l.op = op /\ l.conns = 0 /\ l.locks = {} /\ l.slug = 0 /\ l.stamp = 0
        /\ l.order = <<>> /\ Arrive(r, l)
    BY <1>13 DEF BySession, Blank
  <2> HIDE DEF l
  <2>2. Sound(l)
    BY <1>5, <2>1 DEF ProjectRoutes, EnvironmentRoutes
  <2> QED BY <1>4, <2>1, <2>2
<1>14. CASE Logout(r, c.sess)
  BY <1>13, <1>14 DEF Logout, Blank
<1>15. CASE SwitchOrganization(r, c.sess, c.org)
  BY <1>13, <1>15 DEF SwitchOrganization, Blank
<1>16. CASE CreateOrganization(r, c.sess, c.org)
  BY <1>13, <1>16 DEF CreateOrganization, Blank
<1>17. CASE AcceptInvitation(r, c.sess, c.slot)
  BY <1>13, <1>17 DEF AcceptInvitation, Blank
<1>18. ASSUME c.op \in {"updateEnvironment", "deleteEnvironment", "restoreEnvironment"} => c.slot \in DOMAIN tree.environments,
              Call(r, c.op, c.sess, c)
       PROVE  Settles(r) /\ ops' \in Nat
  <2> DEFINE l == [c EXCEPT !.pc = "authenticate", !.op = c.op, !.sess = c.sess]
  <2>1. /\ l.pc = "authenticate" /\ l.op = c.op /\ l.conns = c.conns /\ l.locks = c.locks /\ l.slug = c.slug
        /\ l.stamp = c.stamp /\ l.order = c.order /\ l.project = c.project /\ l.slot = c.slot /\ Arrive(r, l)
    BY <1>8, <1>18 DEF Call, BySession, Blank
  <2> HIDE DEF l
  <2>2. Sound(l)
    BY <1>6, <1>7, <1>18, <2>1
  <2> QED BY <1>4, <2>1, <2>2
<1>19. ASSUME c.op \in {"updateEnvironment", "deleteEnvironment", "restoreEnvironment"} => c.slot \in DOMAIN tree.environments,
              CallByKey(r, c.op, c.key, c)
       PROVE  Settles(r) /\ ops' \in Nat
  <2> DEFINE l == [c EXCEPT !.pc = "key", !.op = c.op, !.key = c.key]
  <2>1. /\ l.pc = "key" /\ l.op = c.op /\ l.conns = c.conns /\ l.locks = c.locks /\ l.slug = c.slug
        /\ l.stamp = c.stamp /\ l.order = c.order /\ l.project = c.project /\ l.slot = c.slot /\ Arrive(r, l)
    BY <1>8, <1>19 DEF CallByKey, Blank
  <2> HIDE DEF l
  <2>2. Sound(l)
    BY <1>6, <1>7, <1>19, <2>1
  <2> QED BY <1>4, <2>1, <2>2
<1> QED BY <1>7, <1>9, <1>10, <1>11, <1>12, <1>14, <1>15, <1>16, <1>17, <1>18, <1>19

-----------------------------------------------------------------------------
(* Statements of packages/projects and environments that only read or lock. *)

\* What is known of r before its statement.
LEMMA ProjectRequest ==
  ASSUME AccessInv, ProjectInv, NEW r \in Requests
  PROVE  /\ DOMAIN req = Requests /\ DOMAIN req[r] = DOMAIN Blank /\ Placed(r) /\ Cascading(r) /\ TreeSound
         /\ req[r].pc \notin CascadeLabels => \A row \in req[r].locks : row[1] \notin {"project", "environment", "secret"}
         /\ req[r].pc \notin {"environment-rows", "secret-rows"} =>
              \A row \in req[r].locks : row[1] \notin {"environment", "secret"}
BY DEF AccessInv, Formed, ProjectInv, Cascading, CascadeLabels

\* A statement before any row of a cascade is locked.
LEMMA EarlySettles ==
  ASSUME AccessInv, ProjectInv, NEW r \in Requests, tree' = tree, Placed(r)',
         \A row \in req'[r].locks :
           row[1] \notin {"environment", "secret"}
           /\ (row[1] = "project" => req'[r].pc \in CascadeLabels /\ row = ProjectRow(req'[r].project)),
         req'[r].pc = "environment-rows" => \A row \in req'[r].todo : \E e \in DOMAIN tree.environments : row = EnvironmentRow(e),
         req'[r].pc # "secret-rows",
         req'[r].op = "restoreProject" /\ req'[r].pc \in CascadeLabels => ProjectRow(req'[r].project) \in req'[r].locks,
         req'[r].op = "restoreProject" /\ req'[r].pc \in {"project-row"} \cup CascadeLabels => req'[r].stamp # 0,
         req'[r].op = "restoreEnvironment" /\ req'[r].pc \in {"active"} \cup CascadeLabels => req'[r].stamp # 0
  PROVE  TreeKept(r) /\ Settles(r)
<1>1. TreeKept(r)
  BY SameTree DEF ProjectInv
<1>2. Cascading(r)'
  BY DEF Cascading
<1> QED BY <1>1, <1>2 DEF Settles

LEMMA ProjectReadSettles ==
  ASSUME AccessInv, ProjectInv, NEW r \in Requests,
         SelectProject(r) \/ LockProject(r) \/ ActiveProject(r) \/ CountEnvironments(r)
  PROVE  TreeKept(r) /\ Settles(r)
<1>1. /\ DOMAIN req = Requests /\ DOMAIN req[r] = DOMAIN Blank /\ Placed(r) /\ Cascading(r) /\ TreeSound
      /\ req[r].pc \notin CascadeLabels => \A row \in req[r].locks : row[1] \notin {"project", "environment", "secret"}
  BY ProjectRequest
<1>2. tree' = tree
  BY DEF SelectProject, LockProject, ActiveProject, CountEnvironments, tables
<1>3. CASE End(r)
  BY <1>1, <1>2, <1>3, SameTree, BlankSettles DEF End
<1>4. ASSUME ~End(r) PROVE TreeKept(r) /\ Settles(r)
  <2>1. CASE SelectProject(r)
    <3> DEFINE row == ProjectOf(r)
    <3>1. PICK label, slug, stamp :
            /\ Put(r, [req[r] EXCEPT !.pc = label, !.slug = slug, !.stamp = stamp])
            /\ label = IF req[r].op \in {"updateProject", "setArchived"} THEN "project-write" ELSE "project-row"
            /\ slug = IF req[r].slug = 0 THEN row.slug ELSE req[r].slug
            /\ stamp = row.deletedAt
            /\ Live(row) <=> req[r].op # "restoreProject"
      BY <1>4, <2>1 DEF SelectProject
    <3>2. req[r].pc = "project" /\ req[r].op \in DOMAIN ProjectRoutes \ {"createProject"} /\ row \in Project
      <4>1. req[r].pc = "project" /\ req[r].op \in DOMAIN ProjectRoutes \ {"createProject"}
        BY <1>1, <2>1 DEF SelectProject, Placed
      <4>2. req[r].project \in DOMAIN tree.projects
        BY <1>1, <4>1 DEF Placed
      <4> QED BY <1>1, <4>1, <4>2, TreeRows DEF ProjectOf
    <3>3. slug \in Nat \ {0} /\ stamp \in Nat /\ (req[r].op = "restoreProject" => stamp # 0)
      BY <1>1, <3>1, <3>2 DEF Project, Live, Placed
    <3> HIDE DEF row
    <3>4. /\ req'[r].pc = label /\ req'[r].slug = slug /\ req'[r].stamp = stamp /\ req'[r].op = req[r].op
          /\ req'[r].project = req[r].project /\ req'[r].slot = req[r].slot /\ req'[r].order = req[r].order
          /\ req'[r].conns = req[r].conns /\ req'[r].locks = req[r].locks
      BY <1>1, <3>1 DEF Put, Blank
    <3>5. Placed(r)'
      BY <1>1, <1>2, <3>1, <3>2, <3>3, <3>4 DEF Placed, Labels, Connections, CascadeLabels, ProjectRoutes
    <3> QED BY <1>1, <1>2, <3>1, <3>2, <3>3, <3>4, <3>5, EarlySettles DEF CascadeLabels
  <2>2. CASE LockProject(r)
    <3>1. PICK stamp, locks :
            /\ Put(r, [req[r] EXCEPT !.pc = "environments", !.stamp = stamp, !.locks = locks])
            /\ stamp = IF req[r].op = "deleteProject" THEN Now ELSE req[r].stamp
            /\ locks = IF req[r].op = "deleteProject" => Live(ProjectOf(r)) THEN req[r].locks \cup {ProjectRow(req[r].project)}
                       ELSE req[r].locks
      BY <2>2 DEF LockProject
    <3>2. req[r].pc = "project-row" /\ req[r].op \in {"deleteProject", "restoreProject"}
      BY <1>1, <2>2 DEF LockProject, Placed
    <3>3. stamp \in Nat /\ (req[r].op = "restoreProject" => stamp # 0)
      BY <1>1, <3>1, <3>2, NowIsTime DEF Placed, Cascading
    <3>4. /\ req'[r].pc = "environments" /\ req'[r].slug = req[r].slug /\ req'[r].stamp = stamp /\ req'[r].op = req[r].op
          /\ req'[r].project = req[r].project /\ req'[r].slot = req[r].slot /\ req'[r].order = req[r].order
          /\ req'[r].conns = req[r].conns /\ req'[r].locks = locks
      BY <1>1, <3>1 DEF Put, Blank
    <3>5. Placed(r)'
      BY <1>1, <1>2, <3>2, <3>3, <3>4 DEF Placed, Labels, Connections, CascadeLabels, Cascades, Restores
    <3>6. \A row \in locks : row \in req[r].locks \/ row = ProjectRow(req[r].project)
      BY <3>1
    <3>7. req[r].op = "restoreProject" => ProjectRow(req[r].project) \in locks
      BY <3>1
    <3>8. ProjectRow(req[r].project)[1] = "project"
      BY DEF ProjectRow
    <3> QED BY <1>1, <1>2, <3>2, <3>3, <3>4, <3>5, <3>6, <3>7, <3>8, EarlySettles DEF CascadeLabels
  <2>3. CASE ActiveProject(r)
    <3>1. PICK label :
            /\ Goto(r, label)
            /\ label = CASE req[r].op = "createEnvironment" -> "count"
                         [] req[r].op = "reorderEnvironments" -> "order"
                         [] OTHER -> "environments"
      BY <1>4, <2>3 DEF ActiveProject
    <3>2. req[r].pc = "active" /\ req[r].op \in {"createEnvironment", "reorderEnvironments", "restoreEnvironment"}
      BY <1>1, <2>3 DEF ActiveProject, Placed
    <3>3. req[r].op = "restoreEnvironment" => req[r].stamp # 0
      BY <1>1, <3>2 DEF Cascading
    <3>4. /\ req'[r].pc = label /\ req'[r].slug = req[r].slug /\ req'[r].stamp = req[r].stamp /\ req'[r].op = req[r].op
          /\ req'[r].project = req[r].project /\ req'[r].slot = req[r].slot /\ req'[r].order = req[r].order
          /\ req'[r].conns = req[r].conns /\ req'[r].locks = req[r].locks
      BY <1>1, <3>1 DEF Goto, Blank
    <3>5. Placed(r)'
      BY <1>1, <1>2, <3>1, <3>2, <3>4 DEF Placed, Labels, Connections, CascadeLabels, Cascades, Restores
    <3> QED BY <1>1, <1>2, <3>1, <3>2, <3>3, <3>4, <3>5, EarlySettles DEF CascadeLabels
  <2>4. CASE CountEnvironments(r)
    <3>1. Goto(r, "environment-insert")
      BY <1>4, <2>4 DEF CountEnvironments
    <3>2. req[r].pc = "count" /\ req[r].op = "createEnvironment"
      BY <1>1, <2>4 DEF CountEnvironments, Placed
    <3>4. /\ req'[r].pc = "environment-insert" /\ req'[r].slug = req[r].slug /\ req'[r].stamp = req[r].stamp
          /\ req'[r].op = req[r].op /\ req'[r].project = req[r].project /\ req'[r].slot = req[r].slot
          /\ req'[r].order = req[r].order /\ req'[r].conns = req[r].conns /\ req'[r].locks = req[r].locks
      BY <1>1, <3>1 DEF Goto, Blank
    <3>5. Placed(r)'
      BY <1>1, <1>2, <3>2, <3>4 DEF Placed, Labels, Connections, CascadeLabels
    <3> QED BY <1>1, <1>2, <3>2, <3>4, <3>5, EarlySettles DEF CascadeLabels
  <2> QED BY <2>1, <2>2, <2>3, <2>4
<1> QED BY <1>3, <1>4

LEMMA EnvironmentReadSettles ==
  ASSUME AccessInv, ProjectInv, NEW r \in Requests, SelectEnvironment(r) \/ CountBeforeDelete(r) \/ CheckOrder(r)
  PROVE  TreeKept(r) /\ Settles(r)
<1>1. /\ DOMAIN req = Requests /\ DOMAIN req[r] = DOMAIN Blank /\ Placed(r) /\ Cascading(r) /\ TreeSound
      /\ req[r].pc \notin CascadeLabels => \A row \in req[r].locks : row[1] \notin {"project", "environment", "secret"}
  BY ProjectRequest
<1>2. tree' = tree
  BY DEF SelectEnvironment, CountBeforeDelete, CheckOrder, tables
<1>3. CASE End(r)
  BY <1>1, <1>2, <1>3, SameTree, BlankSettles DEF End
<1>4. ASSUME ~End(r) PROVE TreeKept(r) /\ Settles(r)
  <2>1. CASE SelectEnvironment(r)
    <3> DEFINE row == EnvironmentOf(r)
    <3>1. /\ req[r].pc = "environment" /\ row \in Environment
          /\ req[r].op \in {"updateEnvironment", "deleteEnvironment", "restoreEnvironment"}
      <4>1. req[r].pc = "environment" /\ req[r].op \in {"updateEnvironment", "deleteEnvironment", "restoreEnvironment"}
        BY <1>1, <2>1 DEF SelectEnvironment, Placed
      <4>2. req[r].slot \in DOMAIN tree.environments
        BY <1>1, <4>1 DEF Placed
      <4> QED BY <1>1, <4>1, <4>2, TreeRows DEF EnvironmentOf
    <3>2. CASE req[r].op = "restoreEnvironment"
      <4>1. PICK stamp : Put(r, [req[r] EXCEPT !.pc = "active", !.stamp = stamp]) /\ stamp = row.deletedAt /\ ~Live(row)
        BY <1>4, <2>1, <3>2 DEF SelectEnvironment
      <4>2. stamp \in Nat \ {0}
        BY <3>1, <4>1 DEF Environment, Live
      <4> HIDE DEF row
      <4>3. /\ req'[r].pc = "active" /\ req'[r].slug = req[r].slug /\ req'[r].stamp = stamp
            /\ req'[r].op = req[r].op /\ req'[r].project = req[r].project /\ req'[r].slot = req[r].slot
            /\ req'[r].order = req[r].order /\ req'[r].conns = req[r].conns /\ req'[r].locks = req[r].locks
        BY <1>1, <4>1 DEF Put, Blank
      <4>4. Placed(r)'
        BY <1>1, <1>2, <3>1, <3>2, <4>2, <4>3 DEF Placed, Labels, Connections, CascadeLabels
      <4> QED BY <1>1, <1>2, <3>1, <3>2, <4>2, <4>3, <4>4, EarlySettles DEF CascadeLabels
    <3>3. CASE req[r].op # "restoreEnvironment"
      <4>1. PICK label, slug, protected :
              /\ Put(r, [req[r] EXCEPT !.pc = label, !.slug = slug, !.protected = protected])
              /\ label = IF req[r].op = "updateEnvironment" THEN "environment-write" ELSE "census"
              /\ slug = IF req[r].slug = 0 THEN row.slug ELSE req[r].slug
              /\ protected = IF req[r].wants = "none" THEN row.protected ELSE req[r].wants = "on"
        BY <1>4, <2>1, <3>3 DEF SelectEnvironment
      <4>2. slug \in Nat \ {0}
        BY <1>1, <3>1, <4>1 DEF Environment, Placed
      <4>5. protected \in BOOLEAN
        BY <3>1, <4>1 DEF Environment
      <4> HIDE DEF row
      <4>3. /\ req'[r].pc = label /\ req'[r].slug = slug /\ req'[r].stamp = req[r].stamp
            /\ req'[r].op = req[r].op /\ req'[r].project = req[r].project /\ req'[r].slot = req[r].slot
            /\ req'[r].order = req[r].order /\ req'[r].conns = req[r].conns /\ req'[r].locks = req[r].locks
        BY <1>1, <4>1 DEF Put, Blank
      <4>6. req'[r].protected = protected
        BY <1>1, <4>1 DEF Put, Blank
      <4>4. Placed(r)'
        BY <1>1, <1>2, <3>1, <3>3, <4>1, <4>2, <4>3, <4>5, <4>6 DEF Placed, Labels, Connections, CascadeLabels
      <4> QED BY <1>1, <1>2, <3>1, <3>3, <4>1, <4>2, <4>3, <4>4, EarlySettles DEF CascadeLabels
    <3> QED BY <3>2, <3>3
  <2>2. CASE CountBeforeDelete(r)
    <3>1. PICK stamp : Put(r, [req[r] EXCEPT !.pc = "environments", !.stamp = stamp]) /\ stamp = Now
      BY <1>4, <2>2 DEF CountBeforeDelete
    <3>2. req[r].pc = "census" /\ req[r].op = "deleteEnvironment" /\ stamp \in Nat
      BY <1>1, <2>2, <3>1, NowIsTime DEF CountBeforeDelete, Placed
    <3>3. /\ req'[r].pc = "environments" /\ req'[r].slug = req[r].slug /\ req'[r].stamp = stamp
          /\ req'[r].op = req[r].op /\ req'[r].project = req[r].project /\ req'[r].slot = req[r].slot
          /\ req'[r].order = req[r].order /\ req'[r].conns = req[r].conns /\ req'[r].locks = req[r].locks
      BY <1>1, <3>1 DEF Put, Blank
    <3>4. Placed(r)'
      BY <1>1, <1>2, <3>2, <3>3 DEF Placed, Labels, Connections, CascadeLabels, Cascades
    <3> QED BY <1>1, <1>2, <3>2, <3>3, <3>4, EarlySettles DEF CascadeLabels
  <2>3. CASE CheckOrder(r)
    <3>1. Goto(r, "environments")
      BY <1>4, <2>3 DEF CheckOrder
    <3>2. req[r].pc = "order" /\ req[r].op = "reorderEnvironments"
      BY <1>1, <2>3 DEF CheckOrder, Placed
    <3>3. /\ req'[r].pc = "environments" /\ req'[r].slug = req[r].slug /\ req'[r].stamp = req[r].stamp
          /\ req'[r].op = req[r].op /\ req'[r].project = req[r].project /\ req'[r].slot = req[r].slot
          /\ req'[r].order = req[r].order /\ req'[r].conns = req[r].conns /\ req'[r].locks = req[r].locks
      BY <1>1, <3>1 DEF Goto, Blank
    <3>4. Placed(r)'
      BY <1>1, <1>2, <3>2, <3>3 DEF Placed, Labels, Connections, CascadeLabels, Cascades
    <3> QED BY <1>1, <1>2, <3>2, <3>3, <3>4, EarlySettles DEF CascadeLabels
  <2> QED BY <2>1, <2>2, <2>3
<1> QED BY <1>3, <1>4

\* The statements of a cascade find their rows and lock them.
LEMMA CascadeReadSettles ==
  ASSUME AccessInv, ProjectInv, NEW r \in Requests, FindEnvironments(r) \/ FindSecrets(r) \/ LockRow(r)
  PROVE  TreeKept(r) /\ Settles(r)
<1>1. DOMAIN req = Requests /\ DOMAIN req[r] = DOMAIN Blank /\ Placed(r) /\ Cascading(r) /\ TreeSound
  BY ProjectRequest
<1>2. tree' = tree /\ TreeKept(r)
  BY <1>1, SameTree DEF FindEnvironments, FindSecrets, LockRow, tables
<1>3. ASSUME Same(r)
      PROVE  /\ \A e \in DOMAIN tree.environments : ChangesEnvironment(r, e)' = ChangesEnvironment(r, e)
             /\ \A s \in DOMAIN tree.secrets : ChangesSecret(r, s)' = ChangesSecret(r, s)
  BY <1>1, <1>2, <1>3, SameWhere DEF Same
<1>4. CASE FindEnvironments(r)
  <2>1. PICK todo :
          /\ Put(r, [req[r] EXCEPT !.pc = "environment-rows", !.todo = todo])
          /\ todo = {EnvironmentRow(e) : e \in {e \in DOMAIN tree.environments : ChangesEnvironment(r, e)}}
    BY <1>4 DEF FindEnvironments
  <2>2. req[r].pc = "environments" /\ req'[r].pc = "environment-rows" /\ req'[r].todo = todo /\ Same(r)
        /\ req'[r].locks = req[r].locks /\ req'[r].conns = req[r].conns
    BY <1>1, <1>4, <2>1 DEF FindEnvironments, Put, Blank, Same
  <2>3. Placed(r)'
    BY <1>1, <1>2, <2>2 DEF Placed, Same, Labels, Connections, CascadeLabels
  <2>4. \A row \in todo : \E e \in DOMAIN tree.environments : row = EnvironmentRow(e)
    BY <2>1
  <2>5. \A row \in req[r].locks : row[1] \notin {"environment", "secret"}
    BY <1>1, <2>2 DEF Cascading
  <2>6. Cascading(r)'
    BY <1>1, <1>2, <2>2, <2>4, <2>5 DEF Cascading, Same, CascadeLabels
  <2> QED BY <1>2, <2>3, <2>6 DEF Settles
<1>5. CASE FindSecrets(r)
  <2>1. PICK todo :
          /\ Put(r, [req[r] EXCEPT !.pc = "secret-rows", !.todo = todo])
          /\ todo = {SecretRow(s) : s \in {s \in DOMAIN tree.secrets : ChangesSecret(r, s)}}
    BY <1>5 DEF FindSecrets
  <2>2. req[r].pc = "environment-rows" /\ req[r].op # "reorderEnvironments" /\ req'[r].pc = "secret-rows"
        /\ req'[r].todo = todo /\ Same(r) /\ req'[r].locks = req[r].locks /\ req'[r].conns = req[r].conns
    BY <1>1, <1>5, <2>1 DEF FindSecrets, Put, Blank, Same
  <2>3. Placed(r)'
    BY <1>1, <1>2, <2>2 DEF Placed, Same, Labels, Connections, CascadeLabels
  <2>4. \A row \in todo : \E s \in DOMAIN tree.secrets : row = SecretRow(s)
    BY <2>1
  <2>5. \A row \in req[r].locks : row[1] # "secret"
    BY <1>1, <2>2 DEF Cascading
  <2>6. Cascading(r)'
    BY <1>1, <1>2, <1>3, <2>2, <2>4, <2>5 DEF Cascading, Same, CascadeLabels
  <2> QED BY <1>2, <2>3, <2>6 DEF Settles
<1>6. CASE LockRow(r)
  <2>0. PICK row \in req[r].todo :
          Put(r, [req[r] EXCEPT !.todo = @ \ {row},
                                !.locks = IF IF row[1] = "environment" THEN ChangesEnvironment(r, row[2])
                                                                       ELSE ChangesSecret(r, row[2])
                                          THEN @ \cup {row} ELSE @])
    BY <1>6 DEF LockRow
  <2>1. PICK locks :
          /\ Put(r, [req[r] EXCEPT !.todo = @ \ {row}, !.locks = locks])
          /\ locks = IF IF row[1] = "environment" THEN ChangesEnvironment(r, row[2]) ELSE ChangesSecret(r, row[2])
                     THEN req[r].locks \cup {row} ELSE req[r].locks
    BY <2>0
  <2>2. req[r].pc \in {"environment-rows", "secret-rows"} /\ req'[r].pc = req[r].pc /\ req'[r].todo \subseteq req[r].todo
        /\ Same(r) /\ req'[r].locks = locks /\ req'[r].conns = req[r].conns
    BY <1>1, <1>6, <2>1 DEF LockRow, Put, Blank, Same
  <2>3. Placed(r)'
    BY <1>1, <1>2, <2>2 DEF Placed, Same
  <2>4. ASSUME row \in locks, row \notin req[r].locks
        PROVE  \/ /\ req[r].pc = "environment-rows"
                  /\ \E e \in DOMAIN tree.environments : row = EnvironmentRow(e) /\ ChangesEnvironment(r, e)
               \/ /\ req[r].pc = "secret-rows"
                  /\ \E s \in DOMAIN tree.secrets : row = SecretRow(s) /\ ChangesSecret(r, s)
    <3>1. CASE req[r].pc = "environment-rows"
      <4>1. PICK e \in DOMAIN tree.environments : row = EnvironmentRow(e)
        BY <1>1, <3>1 DEF Cascading
      <4> QED BY <2>1, <2>4, <3>1, <4>1 DEF EnvironmentRow
    <3>2. CASE req[r].pc = "secret-rows"
      <4>1. PICK s \in DOMAIN tree.secrets : row = SecretRow(s)
        BY <1>1, <3>2 DEF Cascading
      <4> QED BY <2>1, <2>4, <3>2, <4>1 DEF SecretRow
    <3> QED BY <2>2, <3>1, <3>2
  <2>5. \A l \in locks : l \in req[r].locks \/ l = row
    BY <2>1
  <2>6. \A e : EnvironmentRow(e)[1] = "environment" /\ SecretRow(e)[1] = "secret"
    BY DEF EnvironmentRow, SecretRow
  <2>7. ASSUME NEW l \in locks
        PROVE  /\ l[1] = "project" => l = ProjectRow(req[r].project)
               /\ l[1] = "environment" => \E e \in DOMAIN tree.environments : l = EnvironmentRow(e) /\ ChangesEnvironment(r, e)
               /\ l[1] = "secret" =>
                    req[r].pc = "secret-rows" /\ \E s \in DOMAIN tree.secrets : l = SecretRow(s) /\ ChangesSecret(r, s)
    <3>1. CASE l \in req[r].locks
      BY <1>1, <3>1 DEF Cascading
    <3>2. CASE l \notin req[r].locks
      BY <2>4, <2>5, <2>6, <2>7, <3>2
    <3> QED BY <3>1, <3>2
  <2>8. req[r].locks \subseteq locks
    BY <2>1
  <2>9. Cascading(r)'
    BY <1>1, <1>2, <1>3, <2>2, <2>7, <2>8 DEF Cascading, Same, CascadeLabels
  <2> QED BY <1>2, <2>3, <2>9 DEF Settles
<1> QED BY <1>4, <1>5, <1>6

-----------------------------------------------------------------------------
(* Statements that write. *)

\* A step that ends its request and keeps the tree.
LEMMA WriteSettles ==
  ASSUME AccessInv, NEW r \in Requests, End(r)
  PROVE  Settles(r)
BY BlankSettles DEF AccessInv, End

\* Columns of the tree that no other statement relies on may change, and rows be added.
LEMMA TreeGrows ==
  ASSUME TreeSound, NEW r \in Requests,
         NEW ps \in Seq(Project), NEW es \in Seq(Environment),
         tree' = [tree EXCEPT !.projects = ps, !.environments = es],
         DOMAIN tree.projects \subseteq DOMAIN ps, DOMAIN tree.environments \subseteq DOMAIN es,
         \A e \in DOMAIN es \ DOMAIN tree.environments : es[e].project \in DOMAIN ps,
         \A e \in DOMAIN tree.environments :
           /\ es[e].project = tree.environments[e].project
           /\ es[e].deletedAt = tree.environments[e].deletedAt
           /\ es[e].byProject = tree.environments[e].byProject
  PROVE  TreeKept(r)
<1>1. tree'.projects = ps /\ tree'.environments = es /\ tree'.secrets = tree.secrets
  BY TreeRows
<1>2. tree' \in [projects : Seq(Project), environments : Seq(Environment), secrets : Seq(Secret)]
  BY TreeRows
<1>3. /\ \A e \in DOMAIN es : es[e].project \in DOMAIN ps
      /\ \A s \in DOMAIN tree.secrets : tree.secrets[s].environment \in DOMAIN es
  BY DEF TreeSound
<1>4. TreeSound'
  BY <1>1, <1>2, <1>3 DEF TreeSound
<1> QED BY <1>1, <1>4 DEF TreeKept

LEMMA InsertProjectKept ==
  ASSUME AccessInv, ProjectInv, NEW r \in Requests, InsertProject(r)
  PROVE  TreeKept(r) /\ Settles(r)
<1>1. /\ Placed(r) /\ TreeSound /\ tree.projects \in Seq(Project) /\ tree.environments \in Seq(Environment)
  BY ProjectRequest, TreeRows
<1>2. Settles(r)
  BY WriteSettles DEF InsertProject
<1>3. CASE tree' = tree
  BY <1>1, <1>2, <1>3, SameTree
<1>4. CASE tree' # tree
  <2> DEFINE p == Len(tree.projects) + 1
             order == req[r].order
             new == [slug |-> req[r].slug, archived |-> FALSE, deletedAt |-> 0]
             default(i) == [project |-> p, slug |-> order[i], order |-> i - 1, protected |-> order[i] = Production,
                            deletedAt |-> 0, byProject |-> 0]
             defaults == [i \in 1 .. Len(order) |-> default(i)]
             ps == Append(tree.projects, new)
             es == tree.environments \o defaults
  <2>1. tree' = [tree EXCEPT !.projects = ps, !.environments = es]
    BY <1>4 DEF InsertProject
  <2>2. req[r].slug \in Nat \ {0} /\ order \in Seq(Nat \ {0})
    BY <1>1 DEF Placed, InsertProject
  <2>3. new \in Project
    BY <2>2 DEF Project
  <2>4. ps \in Seq(Project) /\ DOMAIN tree.projects \subseteq DOMAIN ps /\ p \in DOMAIN ps
    <3> HIDE DEF new
    <3> QED BY <1>1, <2>3
  <2>5. p \in Nat /\ Len(order) \in Nat
    BY <1>1, <2>2
  <2>6. ASSUME NEW i \in 1 .. Len(order) PROVE default(i) \in Environment
    <3>1. order[i] \in Nat \ {0} /\ i - 1 \in Nat
      BY <2>2
    <3> QED BY <2>5, <3>1 DEF Environment
  <2>7. defaults \in Seq(Environment) /\ DOMAIN defaults = 1 .. Len(order)
    <3> HIDE DEF default
    <3> QED BY <2>5, <2>6
  <2>8. \A i \in DOMAIN defaults : defaults[i].project = p
    BY <2>7
  <2> HIDE DEF new, defaults, default
  <2>9. /\ es \in Seq(Environment) /\ DOMAIN tree.environments \subseteq DOMAIN es
        /\ \A e \in DOMAIN tree.environments : es[e] = tree.environments[e]
        /\ \A e \in DOMAIN es \ DOMAIN tree.environments : \E i \in DOMAIN defaults : es[e] = defaults[i]
    <3>1. /\ es \in Seq(Environment) /\ Len(es) = Len(tree.environments) + Len(defaults)
          /\ \A e \in 1 .. Len(tree.environments) : es[e] = tree.environments[e]
      BY <1>1, <2>7
    <3>2. ASSUME NEW e \in DOMAIN es \ DOMAIN tree.environments
          PROVE  es[e] = defaults[e - Len(tree.environments)] /\ e - Len(tree.environments) \in DOMAIN defaults
      BY <1>1, <2>7, <3>1
    <3> QED BY <1>1, <3>1, <3>2
  <2>10. \A e \in DOMAIN es \ DOMAIN tree.environments : es[e].project \in DOMAIN ps
    BY <2>4, <2>8, <2>9
  <2> HIDE DEF ps, es
  <2> QED BY <1>1, <1>2, <2>1, <2>4, <2>9, <2>10, TreeGrows
<1> QED BY <1>3, <1>4

LEMMA WriteProjectKept ==
  ASSUME AccessInv, ProjectInv, NEW r \in Requests, WriteProject(r)
  PROVE  TreeKept(r) /\ Settles(r)
<1>1. /\ Placed(r) /\ TreeSound /\ tree.projects \in Seq(Project) /\ tree.environments \in Seq(Environment)
      /\ \A p \in DOMAIN tree.projects : tree.projects[p] \in Project
      /\ tree = [projects |-> tree.projects, environments |-> tree.environments, secrets |-> tree.secrets]
  BY ProjectRequest, TreeRows
<1>2. Settles(r)
  BY WriteSettles DEF WriteProject
<1>3. CASE tree' = tree
  BY <1>1, <1>2, <1>3, SameTree
<1>4. CASE tree' # tree
  <2>1. req[r].slug \in Nat \ {0} /\ req[r].pc = "project-write"
    BY <1>1 DEF Placed, WriteProject
  <2> DEFINE p == req[r].project
             archived == req[r].wants = "on"
  <2>2. \/ tree' = [tree EXCEPT !.projects[p].archived = archived]
        \/ tree' = [tree EXCEPT !.projects[p].slug = req[r].slug]
    BY <1>4 DEF WriteProject
  <2> DEFINE ps == [tree.projects EXCEPT ![p].archived = archived]
             qs == [tree.projects EXCEPT ![p].slug = req[r].slug]
  <2>3. ps \in Seq(Project) /\ qs \in Seq(Project) /\ DOMAIN ps = DOMAIN tree.projects /\ DOMAIN qs = DOMAIN tree.projects
    <3>1. \A q \in DOMAIN tree.projects : ps[q] \in Project /\ qs[q] \in Project
      BY <1>1, <2>1 DEF Project
    <3>2. /\ DOMAIN ps = DOMAIN tree.projects /\ ps = [q \in DOMAIN tree.projects |-> ps[q]]
          /\ DOMAIN qs = DOMAIN tree.projects /\ qs = [q \in DOMAIN tree.projects |-> qs[q]]
      OBVIOUS
    <3> HIDE DEF ps, qs
    <3> QED BY <1>1, <3>1, <3>2, UpdateRows
  <2>4. \/ tree' = [tree EXCEPT !.projects = ps, !.environments = tree.environments]
        \/ tree' = [tree EXCEPT !.projects = qs, !.environments = tree.environments]
    BY <1>1, <2>2
  <2> HIDE DEF ps, qs
  <2> QED BY <1>1, <1>2, <2>3, <2>4, TreeGrows
<1> QED BY <1>3, <1>4

LEMMA InsertEnvironmentKept ==
  ASSUME AccessInv, ProjectInv, NEW r \in Requests, InsertEnvironment(r)
  PROVE  TreeKept(r) /\ Settles(r)
<1>1. /\ Placed(r) /\ TreeSound /\ tree.projects \in Seq(Project) /\ tree.environments \in Seq(Environment)
      /\ \A e \in DOMAIN tree.environments : tree.environments[e] \in Environment
      /\ tree = [projects |-> tree.projects, environments |-> tree.environments, secrets |-> tree.secrets]
  BY ProjectRequest, TreeRows
<1>2. Settles(r)
  BY WriteSettles DEF InsertEnvironment
<1>3. CASE tree' = tree
  BY <1>1, <1>2, <1>3, SameTree
<1>4. CASE tree' # tree
  <2> DEFINE p == req[r].project
             live == LiveEnvironments(p)
             orders == {tree.environments[e].order : e \in live}
             top == CHOOSE n \in orders : \A m \in orders : m <= n
             next == IF orders = {} THEN 0 ELSE 1 + top
             protected == req[r].wants = "on"
             new == [project |-> p, slug |-> req[r].slug, order |-> next, protected |-> protected,
                     deletedAt |-> 0, byProject |-> 0]
             es == Append(tree.environments, new)
  <2>1. tree' = [tree EXCEPT !.environments = es]
    BY <1>4 DEF InsertEnvironment
  <2>2. p \in DOMAIN tree.projects /\ p \in Nat /\ req[r].slug \in Nat \ {0}
    BY <1>1 DEF Placed, InsertEnvironment, EnvironmentRoutes
  <2>3. next \in Nat
    <3>1. live \subseteq DOMAIN tree.environments
      BY DEF LiveEnvironments, EnvironmentsIn
    <3>2. orders \subseteq Nat
      BY <1>1, <3>1 DEF Environment
    <3>3. IsFiniteSet(orders)
      <4> DEFINE f == [e \in live |-> tree.environments[e].order]
      <4>1. DOMAIN tree.environments = 1 .. Len(tree.environments) /\ Len(tree.environments) \in Nat
        BY <1>1
      <4>2. IsFiniteSet(live)
        <5>1. IsFiniteSet(DOMAIN tree.environments)
          BY <4>1, FS_Interval
        <5> HIDE DEF live
        <5> QED BY <3>1, <5>1, FS_Subset
      <4>3. DOMAIN f = live /\ orders = {f[e] : e \in live}
        OBVIOUS
      <4> HIDE DEF f, live, orders
      <4> QED BY <4>2, <4>3, ImageFinite
    <3>4. orders # {} => \E n \in orders : \A m \in orders : m <= n
      <4> HIDE DEF orders
      <4> QED BY <3>2, <3>3, Greatest
    <3>5. orders # {} => top \in Nat
      <4> HIDE DEF orders
      <4> QED BY <3>2, <3>4
    <3> HIDE DEF orders, top
    <3> QED BY <3>5
  <2>4. new \in Environment
    <3>1. protected \in BOOLEAN
      OBVIOUS
    <3> HIDE DEF next, protected
    <3> QED BY <2>2, <2>3, <3>1 DEF Environment
  <2>5. new.project = p
    OBVIOUS
  <2> HIDE DEF new
  <2>6. /\ es \in Seq(Environment) /\ DOMAIN tree.environments \subseteq DOMAIN es
        /\ \A e \in DOMAIN tree.environments : es[e] = tree.environments[e]
        /\ \A e \in DOMAIN es \ DOMAIN tree.environments : es[e] = new
    BY <1>1, <2>4
  <2>7. tree' = [tree EXCEPT !.projects = tree.projects, !.environments = es]
    BY <1>1, <2>1
  <2> HIDE DEF es
  <2> QED BY <1>1, <1>2, <2>2, <2>5, <2>6, <2>7, TreeGrows
<1> QED BY <1>3, <1>4

LEMMA WriteEnvironmentKept ==
  ASSUME AccessInv, ProjectInv, NEW r \in Requests, WriteEnvironment(r)
  PROVE  TreeKept(r) /\ Settles(r)
<1>1. /\ Placed(r) /\ TreeSound /\ tree.projects \in Seq(Project) /\ tree.environments \in Seq(Environment)
      /\ \A e \in DOMAIN tree.environments : tree.environments[e] \in Environment
      /\ tree = [projects |-> tree.projects, environments |-> tree.environments, secrets |-> tree.secrets]
  BY ProjectRequest, TreeRows
<1>2. Settles(r)
  BY WriteSettles DEF WriteEnvironment
<1>3. CASE tree' = tree
  BY <1>1, <1>2, <1>3, SameTree
<1>4. CASE tree' # tree
  <2> DEFINE e == req[r].slot
             es == [tree.environments EXCEPT ![e].slug = req[r].slug, ![e].protected = req[r].protected]
  <2>1. tree' = [tree EXCEPT !.projects = tree.projects, !.environments = es]
    BY <1>1, <1>4 DEF WriteEnvironment
  <2>2. req[r].slug \in Nat \ {0} /\ req[r].protected \in BOOLEAN
    BY <1>1 DEF Placed, WriteEnvironment
  <2>3. ASSUME NEW f \in DOMAIN tree.environments
        PROVE  /\ es[f] \in Environment /\ es[f].project = tree.environments[f].project
               /\ es[f].deletedAt = tree.environments[f].deletedAt /\ es[f].byProject = tree.environments[f].byProject
    BY <1>1, <2>2 DEF Environment
  <2>4. DOMAIN es = DOMAIN tree.environments /\ es = [f \in DOMAIN tree.environments |-> es[f]]
    OBVIOUS
  <2> HIDE DEF es
  <2>5. es \in Seq(Environment)
    BY <1>1, <2>3, <2>4, UpdateRows
  <2> QED BY <1>1, <1>2, <2>1, <2>3, <2>4, <2>5, TreeGrows
<1> QED BY <1>3, <1>4

LEMMA CommitOrderKept ==
  ASSUME AccessInv, ProjectInv, NEW r \in Requests, CommitOrder(r)
  PROVE  TreeKept(r) /\ Settles(r)
<1>1. /\ Placed(r) /\ Cascading(r) /\ TreeSound /\ tree.projects \in Seq(Project) /\ tree.environments \in Seq(Environment)
      /\ \A e \in DOMAIN tree.environments : tree.environments[e] \in Environment
      /\ tree = [projects |-> tree.projects, environments |-> tree.environments, secrets |-> tree.secrets]
  BY ProjectRequest, TreeRows
<1>2. Settles(r)
  BY WriteSettles DEF CommitOrder
<1>3. CASE tree' = tree
  BY <1>1, <1>2, <1>3, SameTree
<1>4. CASE tree' # tree
  <2> DEFINE place(e) == CHOOSE i \in DOMAIN req[r].order : req[r].order[i] = e
             es == [e \in DOMAIN tree.environments |->
                      IF EnvironmentRow(e) \in req[r].locks THEN [tree.environments[e] EXCEPT !.order = place(e) - 1]
                      ELSE tree.environments[e]]
  <2>1. tree' = [tree EXCEPT !.projects = tree.projects, !.environments = es]
    BY <1>1, <1>4 DEF CommitOrder
  <2>2. ASSUME NEW e \in DOMAIN tree.environments, EnvironmentRow(e) \in req[r].locks
        PROVE  place(e) - 1 \in Nat
    <3>1. PICK f : EnvironmentRow(e) = EnvironmentRow(f) /\ ChangesEnvironment(r, f)
      BY <1>1, <2>2 DEF Cascading, EnvironmentRow
    <3>2. e = f
      BY <3>1 DEF EnvironmentRow
    <3>3. \E i \in DOMAIN req[r].order : req[r].order[i] = e
      BY <3>1, <3>2 DEF ChangesEnvironment, CommitOrder
    <3>4. DOMAIN req[r].order = 1 .. Len(req[r].order) /\ Len(req[r].order) \in Nat
      BY <1>1 DEF Placed
    <3>5. place(e) \in DOMAIN req[r].order
      BY <3>3
    <3> HIDE DEF place
    <3> QED BY <3>4, <3>5
  <2>3. ASSUME NEW e \in DOMAIN tree.environments
        PROVE  /\ es[e] \in Environment /\ es[e].project = tree.environments[e].project
               /\ es[e].deletedAt = tree.environments[e].deletedAt /\ es[e].byProject = tree.environments[e].byProject
    <3> HIDE DEF place
    <3> QED BY <1>1, <2>2 DEF Environment
  <2>4. DOMAIN es = DOMAIN tree.environments /\ es = [e \in DOMAIN tree.environments |-> es[e]]
    OBVIOUS
  <2> HIDE DEF es
  <2>5. es \in Seq(Environment)
    BY <1>1, <2>3, <2>4, UpdateRows
  <2> QED BY <1>1, <1>2, <2>1, <2>3, <2>4, <2>5, TreeGrows
<1> QED BY <1>3, <1>4

LEMMA CommitCascadeKept ==
  ASSUME AccessInv, ProjectInv, NEW r \in Requests, CommitCascade(r)
  PROVE  TreeKept(r) /\ Settles(r)
<1>1. /\ Placed(r) /\ TreeSound
      /\ tree.projects \in Seq(Project) /\ tree.environments \in Seq(Environment) /\ tree.secrets \in Seq(Secret)
      /\ \A p \in DOMAIN tree.projects : tree.projects[p] \in Project
      /\ \A e \in DOMAIN tree.environments : tree.environments[e] \in Environment
      /\ \A s \in DOMAIN tree.secrets : tree.secrets[s] \in Secret
  BY ProjectRequest, TreeRows
<1>2. Settles(r)
  BY WriteSettles DEF CommitCascade
<1>3. CASE tree' = tree
  BY <1>1, <1>2, <1>3, SameTree
<1>4. CASE tree' # tree
  <2> DEFINE found(row) == row \in req[r].locks
             ps == [p \in DOMAIN tree.projects |->
                      IF found(ProjectRow(p))
                      THEN [tree.projects[p] EXCEPT !.deletedAt = IF req[r].op = "deleteProject" THEN req[r].stamp ELSE 0]
                      ELSE tree.projects[p]]
             es == [e \in DOMAIN tree.environments |->
                      IF found(EnvironmentRow(e)) THEN CascadedEnvironment(r, tree.environments[e]) ELSE tree.environments[e]]
             ss == [s \in DOMAIN tree.secrets |->
                      IF found(SecretRow(s)) THEN CascadedSecret(r, tree.secrets[s]) ELSE tree.secrets[s]]
  <2>1. tree' = [projects |-> ps, environments |-> es, secrets |-> ss]
    BY <1>4 DEF CommitCascade
  <2>2. req[r].stamp \in Nat
    BY <1>1 DEF Placed
  <2>3. \A p \in DOMAIN tree.projects : ps[p] \in Project
    BY <1>1, <2>2 DEF Project
  <2>4. \A e \in DOMAIN tree.environments :
          /\ es[e] \in Environment /\ es[e].project = tree.environments[e].project
          /\ EnvironmentRow(e) \in req[r].locks \/ es[e] = tree.environments[e]
    BY <1>1, <2>2 DEF Environment, CascadedEnvironment
  <2>5. \A s \in DOMAIN tree.secrets :
          /\ ss[s] \in Secret /\ ss[s].environment = tree.secrets[s].environment
          /\ SecretRow(s) \in req[r].locks \/ ss[s] = tree.secrets[s]
    BY <1>1, <2>2 DEF Secret, CascadedSecret
  <2>6. /\ DOMAIN ps = DOMAIN tree.projects /\ ps = [p \in DOMAIN tree.projects |-> ps[p]]
        /\ DOMAIN es = DOMAIN tree.environments /\ es = [e \in DOMAIN tree.environments |-> es[e]]
        /\ DOMAIN ss = DOMAIN tree.secrets /\ ss = [s \in DOMAIN tree.secrets |-> ss[s]]
    OBVIOUS
  <2> HIDE DEF ps, es, ss
  <2>7. ps \in Seq(Project) /\ es \in Seq(Environment) /\ ss \in Seq(Secret)
    BY <1>1, <2>3, <2>4, <2>5, <2>6, UpdateRows
  <2>8. TreeSound'
    BY <1>1, <2>1, <2>4, <2>5, <2>6, <2>7 DEF TreeSound
  <2>9. \A row \in req[r].locks : Free(r, row)
    BY DEF AccessInv, Exclusive, Free
  <2> QED BY <1>2, <2>1, <2>4, <2>5, <2>6, <2>8, <2>9 DEF TreeKept
<1> QED BY <1>3, <1>4

-----------------------------------------------------------------------------
(* The invariant. *)

LEMMA ProjectStepSettles ==
  ASSUME AccessInv, ProjectInv, NEW r \in Requests, ProjectStep(r)
  PROVE  TreeKept(r) /\ Settles(r)
BY ProjectReadSettles, EnvironmentReadSettles, CascadeReadSettles, InsertProjectKept, WriteProjectKept,
   InsertEnvironmentKept, WriteEnvironmentKept, CommitCascadeKept, CommitOrderKept DEF ProjectStep

LEMMA StepAlone ==
  ASSUME AccessInv, NEW r \in Requests, Begin(r) \/ Step(r) \/ Victim(r) \/ Fail(r)
  PROVE  Alone(r)
BY BeginKept, AccountStepKept, MemberStepKept, ProjectStepKept, GivenUpKept DEF Step, Kept

LEMMA StepOps ==
  ASSUME NEW r \in Requests, Step(r) \/ Victim(r) \/ Fail(r)
  PROVE  ops' = ops
<1>1. CASE AccountStep(r)
  BY <1>1 DEF AccountStep, client, SelectAccount, VerifyPassword, InsertSession, SelectOrganization, Authenticate, Touch,
         RevokeSession, FindSessions, LockSession, InsertAccount, LookupAccount, IssueToken, BeginWork, LockToken,
         VerifyEmail, LockAccount, ResetPassword
<1>2. CASE MemberStep(r)
  BY <1>2 DEF MemberStep, client, ConsumeApiKey, Enter, Permit, Work, Switch, ReferenceMembership, InsertOrganization,
         ReadActor, LockTarget, ApplyRole, RemoveMember, WriteOverride, OpenInvitation, ExistingMember, InsertInvitation,
         RevokeInvitation, ResolveInvitation, LockInvitation, Join, InsertApiKey, LockApiKey, RevokeApiKey
<1>3. CASE ProjectStep(r)
  BY <1>3 DEF ProjectStep, client, InsertProject, SelectProject, WriteProject, LockProject, ActiveProject,
         CountEnvironments, InsertEnvironment, SelectEnvironment, WriteEnvironment, CountBeforeDelete, CheckOrder,
         FindEnvironments, FindSecrets, LockRow, CommitCascade, CommitOrder
<1> QED BY <1>1, <1>2, <1>3 DEF Step, Victim, Fail, client

LEMMA NextProjectInv ==
  ASSUME AccessInv, ProjectInv, [Next]_vars
  PROVE  ProjectInv'
<1>1. DOMAIN req = Requests /\ ops \in Nat /\ TreeSound
  BY DEF AccessInv, ProjectInv
<1>2. ASSUME UNCHANGED <<tree, ops>>, req' = req PROVE ProjectInv'
  <2>1. \A q \in Requests : Placed(q)'
    BY <1>2 DEF ProjectInv, Placed
  <2>2. ASSUME NEW q \in Requests PROVE Cascading(q)'
    BY <1>2 DEF ProjectInv, Cascading, ChangesEnvironment, ChangesSecret, SecretsIn, EnvironmentsIn, Live
  <2> QED BY <1>2, <2>1, <2>2 DEF ProjectInv, TreeSound
<1>3. CASE UNCHANGED vars
  BY <1>2, <1>3 DEF vars, tables, client
<1>4. CASE Expire
  BY <1>2, <1>4 DEF Expire, ExpireSession, ExpireToken, ExpireInvitation, ExpireApiKey, WindowEnds, tables, client
<1>5. CASE Restart
  <2>1. tree' = tree /\ ops' \in Nat /\ \A q \in Requests : req'[q] = Blank
    BY <1>1, <1>5 DEF Restart, tables
  <2>2. \A q \in Requests : Settles(q)
    BY <2>1, BlankSettles
  <2> QED BY <2>1, <2>2 DEF ProjectInv, TreeSound, Settles
<1>6. ASSUME NEW r \in Requests, Begin(r) \/ Step(r) \/ Victim(r) \/ Fail(r) PROVE ProjectInv'
  <2>1. Alone(r)
    BY <1>6, StepAlone
  <2>2. TreeKept(r) /\ Settles(r)
    <3>1. CASE Begin(r)
      BY <3>1, BeginSettles
    <3>2. CASE AccountStep(r)
      BY <3>2, AccountOutside, OutsideKept
    <3>3. CASE MemberStep(r)
      BY <3>3, MemberOutside, OutsideKept, PermitSettles
    <3>4. CASE ProjectStep(r)
      BY <3>4, ProjectStepSettles
    <3>5. CASE Victim(r) \/ Fail(r)
      <4>1. Outside(r)
        BY <3>5 DEF Victim, Fail, tables, Outside
      <4> QED BY <4>1, OutsideKept
    <3> QED BY <1>6, <3>1, <3>2, <3>3, <3>4, <3>5 DEF Step
  <2>3. ops' \in Nat
    BY <1>1, <1>6, StepOps, BeginSettles
  <2> QED BY <2>1, <2>2, <2>3, TreeKeptPreserves
<1> QED BY <1>3, <1>4, <1>5, <1>6 DEF Next

LEMMA InitProjectInv == Init => ProjectInv
<1> SUFFICES ASSUME Init PROVE ProjectInv
  OBVIOUS
<1>1. TreeSound /\ DOMAIN Start.tree.projects \subseteq DOMAIN tree.projects /\ ops \in Nat
  BY StartAssumption DEF Init, TreeSound
<1>2. ASSUME NEW r \in Requests PROVE Placed(r) /\ Cascading(r)
  <2>1. /\ req[r].pc = "idle" /\ req[r].op = "none" /\ req[r].conns = 0 /\ req[r].slug = 0 /\ req[r].stamp = 0
        /\ req[r].order = <<>> /\ req[r].locks = {}
    BY DEF Init, Blank
  <2>2. Placed(r)
    BY <2>1 DEF Placed, Labels, Connections, ProjectRoutes, EnvironmentRoutes, CascadeLabels
  <2>3. Cascading(r)
    BY <2>1 DEF Cascading, CascadeLabels
  <2> QED BY <2>2, <2>3
<1> QED BY <1>1, <1>2 DEF ProjectInv

\* What a cascade found and locked is still what its WHERE asks for when it
\* commits, and every request stands where its call may stand, with the
\* connections it may hold (projects and environments delete, restore, reorder).
THEOREM ProjectsInvariant == Spec => [](AccessInv /\ ProjectInv)
<1>1. AccessInv /\ ProjectInv /\ [Next]_vars => ProjectInv'
  BY NextProjectInv
<1> QED BY <1>1, InitProjectInv, AccessInvariant, PTL DEF Spec

\* Every table holds well-formed rows, the cascades of projects and environments
\* included, every request is at a statement of its code, and counts one
\* connection, or two while inviteMember opens its own (TenantDatabase).
THEOREM AccessTypes == Spec => []AccessTypeOK
<1>1. ASSUME AccessInv, ProjectInv PROVE AccessTypeOK
  <2>1. \A r \in Requests : req[r].pc \in Labels /\ req[r].conns \in 0 .. 2
    <3> SUFFICES ASSUME NEW r \in Requests PROVE req[r].pc \in Labels /\ req[r].conns \in 0 .. 2
      OBVIOUS
    <3>1. req[r].pc \in Labels /\ req[r].conns = Connections(req[r].pc)
      BY <1>1 DEF ProjectInv, Placed
    <3>2. Connections(req[r].pc) \in {0, 1, 2}
      BY DEF Connections
    <3> QED BY <3>1, <3>2
  <2>2. /\ users \in [Users -> User] /\ tokens \in Seq(Token) /\ sessions \in Seq(Session)
        /\ members \in [Orgs -> [Users -> Roles \cup {"none"}]]
        /\ overrides \in [Orgs -> [Users -> ProjectOverrideRoles \cup {"none"}]]
        /\ invitations \in Seq(Invitation) /\ keys \in Seq(Key)
    BY <1>1 DEF AccessInv, TablesSound
  <2>3. failures \in [Identities -> Nat] /\ DOMAIN req = Requests
    BY <1>1 DEF AccessInv, GuessesCounted
  <2>4. tree \in [projects : Seq(Project), environments : Seq(Environment), secrets : Seq(Secret)] /\ ops \in Nat
    BY <1>1 DEF ProjectInv, TreeSound
  <2> QED BY <2>1, <2>2, <2>3, <2>4 DEF AccessTypeOK
<1> QED BY <1>1, ProjectsInvariant, PTL

-----------------------------------------------------------------------------
(* Deletions. *)

\* What DeletionsKept says of one step.
Undone ==
  /\ \A e \in DOMAIN tree.environments :
       LET row == tree.environments[e] IN
       ~Live(row) /\ row # tree'.environments[e] =>
         IF row.byProject = 0 THEN RestoresEnvironment(e, row.deletedAt)
                              ELSE RestoresProject(row.project, row.byProject)
  /\ \A s \in DOMAIN tree.secrets :
       LET row == tree.secrets[s]  e == row.environment IN
       ~Live(row) /\ row # tree'.secrets[s] =>
         \/ row.byProject # 0 /\ RestoresProject(tree.environments[e].project, row.byProject)
         \/ row.byProject = 0 /\ row.byEnvironment # 0 /\ RestoresEnvironment(e, row.byEnvironment)

\* Rows are added, or live ones changed.
LEMMA LiveRowsChange ==
  ASSUME AccessInv, ProjectInv, NEW r \in Requests,
         InsertProject(r) \/ WriteProject(r) \/ InsertEnvironment(r) \/ WriteEnvironment(r) \/ CommitOrder(r)
  PROVE  Undone
<1>1. /\ Placed(r) /\ Cascading(r) /\ TreeSound
      /\ tree.projects \in Seq(Project) /\ tree.environments \in Seq(Environment) /\ tree.secrets \in Seq(Secret)
      /\ tree = [projects |-> tree.projects, environments |-> tree.environments, secrets |-> tree.secrets]
  BY ProjectRequest, TreeRows
<1>2. tree'.secrets = tree.secrets
  BY <1>1 DEF InsertProject, WriteProject, InsertEnvironment, WriteEnvironment, CommitOrder
<1> SUFFICES ASSUME NEW e \in DOMAIN tree.environments, ~Live(tree.environments[e])
             PROVE  tree'.environments[e] = tree.environments[e]
  BY <1>2 DEF Undone
<1>3. CASE InsertProject(r)
  <2> DEFINE p == Len(tree.projects) + 1
             defaults == [i \in 1 .. Len(req[r].order) |->
                            [project |-> p, slug |-> req[r].order[i], order |-> i - 1,
                             protected |-> req[r].order[i] = Production, deletedAt |-> 0, byProject |-> 0]]
  <2>1. tree' = tree \/ tree'.environments = tree.environments \o defaults
    BY <1>1, <1>3 DEF InsertProject
  <2>2. DOMAIN defaults = 1 .. Len(req[r].order) /\ Len(req[r].order) \in Nat
    BY <1>1 DEF Placed
  <2>3. \E S : defaults \in Seq(S)
    <3>1. defaults \in [1 .. Len(req[r].order) -> {defaults[i] : i \in 1 .. Len(req[r].order)}]
      OBVIOUS
    <3> HIDE DEF defaults
    <3>2. defaults \in Seq({defaults[i] : i \in 1 .. Len(req[r].order)})
      BY <2>2, <3>1
    <3> QED BY <3>2
  <2> HIDE DEF defaults
  <2> QED BY <1>1, <2>1, <2>3
<1>4. CASE WriteProject(r)
  BY <1>1, <1>4 DEF WriteProject
<1>5. CASE InsertEnvironment(r)
  <2>1. tree' = tree \/ \E row : tree' = [tree EXCEPT !.environments = Append(@, row)]
    BY <1>5 DEF InsertEnvironment
  <2>2. CASE tree' = tree
    BY <2>2
  <2>3. ASSUME NEW row, tree' = [tree EXCEPT !.environments = Append(@, row)]
        PROVE  tree'.environments[e] = tree.environments[e]
    <3>1. tree'.environments = Append(tree.environments, row)
      BY <1>1, <2>3
    <3> QED BY <1>1, <3>1
  <2> QED BY <2>1, <2>2, <2>3
<1>6. CASE WriteEnvironment(r)
  <2>1. tree' = tree \/ Live(tree.environments[req[r].slot])
    BY <1>6 DEF WriteEnvironment, EnvironmentOf
  <2>2. CASE e = req[r].slot
    BY <2>1, <2>2
  <2>3. CASE e # req[r].slot
    BY <1>1, <1>6, <2>3 DEF WriteEnvironment
  <2> QED BY <2>2, <2>3
<1>7. CASE CommitOrder(r)
  <2>1. EnvironmentRow(e) \notin req[r].locks
    <3> SUFFICES ASSUME EnvironmentRow(e) \in req[r].locks PROVE FALSE
      OBVIOUS
    <3>1. PICK f : EnvironmentRow(e) = EnvironmentRow(f) /\ ChangesEnvironment(r, f)
      BY <1>1 DEF Cascading, EnvironmentRow
    <3>2. e = f
      BY <3>1 DEF EnvironmentRow
    <3> QED BY <1>7, <3>1, <3>2 DEF ChangesEnvironment, CommitOrder
  <2> DEFINE place(f) == CHOOSE i \in DOMAIN req[r].order : req[r].order[i] = f
             es == [f \in DOMAIN tree.environments |->
                      IF EnvironmentRow(f) \in req[r].locks THEN [tree.environments[f] EXCEPT !.order = place(f) - 1]
                      ELSE tree.environments[f]]
  <2>2. tree' = tree \/ tree' = [tree EXCEPT !.environments = es]
    BY <1>7 DEF CommitOrder
  <2>3. es[e] = tree.environments[e]
    BY <2>1
  <2> HIDE DEF es
  <2> QED BY <1>1, <2>2, <2>3
<1> QED BY <1>3, <1>4, <1>5, <1>6, <1>7

\* A cascade changes deleted rows only to restore those its own deletion took.
LEMMA CascadeUndoes ==
  ASSUME AccessInv, ProjectInv, NEW r \in Requests, CommitCascade(r)
  PROVE  Undone
<1>1. /\ Placed(r) /\ Cascading(r) /\ TreeSound /\ req[r].pc = "secret-rows"
      /\ tree = [projects |-> tree.projects, environments |-> tree.environments, secrets |-> tree.secrets]
  BY ProjectRequest, TreeRows DEF CommitCascade
<1>2. req[r].op \in Cascades
  BY <1>1 DEF Placed
<1>3. CASE tree' = tree
  BY <1>3 DEF Undone
<1>4. CASE tree' # tree
  <2> DEFINE found(row) == row \in req[r].locks
             ps == [p \in DOMAIN tree.projects |->
                      IF found(ProjectRow(p))
                      THEN [tree.projects[p] EXCEPT !.deletedAt = IF req[r].op = "deleteProject" THEN req[r].stamp ELSE 0]
                      ELSE tree.projects[p]]
             es == [e \in DOMAIN tree.environments |->
                      IF found(EnvironmentRow(e)) THEN CascadedEnvironment(r, tree.environments[e]) ELSE tree.environments[e]]
             ss == [s \in DOMAIN tree.secrets |->
                      IF found(SecretRow(s)) THEN CascadedSecret(r, tree.secrets[s]) ELSE tree.secrets[s]]
  <2>1. tree' = [projects |-> ps, environments |-> es, secrets |-> ss]
    BY <1>4 DEF CommitCascade
  <2>2. req[r].op = "restoreEnvironment" => Live(tree.environments[req[r].slot]) \/ found(EnvironmentRow(req[r].slot))
    BY <1>4 DEF CommitCascade, EnvironmentOf
  <2>3. req[r].op = "restoreProject" => RestoresProject(req[r].project, req[r].stamp)
    <3> SUFFICES ASSUME req[r].op = "restoreProject" PROVE RestoresProject(req[r].project, req[r].stamp)
      OBVIOUS
    <3>1. ProjectRow(req[r].project) \in req[r].locks /\ req[r].project \in DOMAIN tree.projects
      BY <1>1 DEF Cascading, Placed, CascadeLabels, ProjectRoutes
    <3>2. ps[req[r].project].deletedAt = 0
      <4>1. tree.projects[req[r].project] \in Project
        BY <1>1, <3>1, TreeRows
      <4> QED BY <3>1, <4>1 DEF Project
    <3> HIDE DEF ps
    <3> QED BY <2>1, <3>2 DEF RestoresProject
  <2>4. req[r].op = "restoreEnvironment" => RestoresEnvironment(req[r].slot, req[r].stamp)
    <3> SUFFICES ASSUME req[r].op = "restoreEnvironment" PROVE RestoresEnvironment(req[r].slot, req[r].stamp)
      OBVIOUS
    <3>1. req[r].slot \in DOMAIN tree.environments
      BY <1>1 DEF Placed
    <3>2. tree.environments[req[r].slot] \in Environment
      BY <1>1, <3>1, TreeRows
    <3>3. es[req[r].slot].deletedAt = 0
      BY <2>2, <3>1, <3>2 DEF CascadedEnvironment, Environment, Live
    <3> HIDE DEF es
    <3> QED BY <2>1, <3>3 DEF RestoresEnvironment
  <2>5. ASSUME NEW e \in DOMAIN tree.environments, ~Live(tree.environments[e]), tree.environments[e] # tree'.environments[e]
        PROVE  IF tree.environments[e].byProject = 0 THEN RestoresEnvironment(e, tree.environments[e].deletedAt)
               ELSE RestoresProject(tree.environments[e].project, tree.environments[e].byProject)
    <3>1. EnvironmentRow(e) \in req[r].locks
      <4>1. tree'.environments = es
        BY <2>1
      <4> QED BY <2>5, <4>1
    <3>2. PICK f : EnvironmentRow(e) = EnvironmentRow(f) /\ ChangesEnvironment(r, f)
      BY <1>1, <3>1 DEF Cascading, EnvironmentRow
    <3>3. e = f
      BY <3>2 DEF EnvironmentRow
    <3>4. \/ /\ req[r].op = "restoreProject" /\ tree.environments[e].project = req[r].project
             /\ tree.environments[e].byProject = req[r].stamp
          \/ /\ req[r].op = "restoreEnvironment" /\ e = req[r].slot
             /\ tree.environments[e].deletedAt = req[r].stamp /\ tree.environments[e].byProject = 0
      BY <1>2, <2>5, <3>2, <3>3 DEF ChangesEnvironment, Cascades, Restores
    <3>5. req[r].op = "restoreProject" => req[r].stamp # 0
      BY <1>1 DEF Cascading, CascadeLabels
    <3> QED BY <2>3, <2>4, <3>4, <3>5
  <2>6. ASSUME NEW s \in DOMAIN tree.secrets, ~Live(tree.secrets[s]), tree.secrets[s] # tree'.secrets[s]
        PROVE  \/ /\ tree.secrets[s].byProject # 0
                  /\ RestoresProject(tree.environments[tree.secrets[s].environment].project, tree.secrets[s].byProject)
               \/ /\ tree.secrets[s].byProject = 0 /\ tree.secrets[s].byEnvironment # 0
                  /\ RestoresEnvironment(tree.secrets[s].environment, tree.secrets[s].byEnvironment)
    <3>1. SecretRow(s) \in req[r].locks
      <4>1. tree'.secrets = ss
        BY <2>1
      <4> QED BY <2>6, <4>1
    <3>2. PICK f : SecretRow(s) = SecretRow(f) /\ ChangesSecret(r, f)
      BY <1>1, <3>1 DEF Cascading, SecretRow
    <3>3. s = f
      BY <3>2 DEF SecretRow
    <3>4. \/ /\ req[r].op = "restoreProject" /\ s \in SecretsIn(req[r].project)
             /\ tree.secrets[s].byProject = req[r].stamp
          \/ /\ req[r].op = "restoreEnvironment" /\ tree.secrets[s].environment = req[r].slot
             /\ tree.secrets[s].byEnvironment = req[r].stamp /\ tree.secrets[s].byProject = 0
      BY <1>2, <2>6, <3>2, <3>3 DEF ChangesSecret, Cascades, Restores
    <3>5. req[r].op \in Restores => req[r].stamp # 0
      BY <1>1 DEF Cascading, CascadeLabels, Restores
    <3>6. s \in SecretsIn(req[r].project) => tree.environments[tree.secrets[s].environment].project = req[r].project
      BY DEF SecretsIn, EnvironmentsIn
    <3> QED BY <2>3, <2>4, <3>4, <3>5, <3>6 DEF Restores
  <2> QED BY <2>5, <2>6 DEF Undone
<1> QED BY <1>3, <1>4

\* A deletion is undone by a restore of that very deletion and by no other,
\* whatever ran meanwhile (projects and environments delete, restore).
THEOREM DeletionsKeptHolds == Spec => DeletionsKept
<1>1. ASSUME AccessInv, ProjectInv, [Next]_vars PROVE Undone
  <2>1. CASE tree' = tree
    BY <2>1 DEF Undone
  <2>2. ASSUME tree' # tree
        PROVE  \E r \in Requests : ProjectStep(r)
    <3>1. ~(Expire \/ Restart \/ UNCHANGED vars)
      BY <2>2 DEF vars, Expire, ExpireSession, ExpireToken, ExpireInvitation, ExpireApiKey, WindowEnds, Restart, tables
    <3>2. PICK r \in Requests : Begin(r) \/ Step(r) \/ Victim(r) \/ Fail(r)
      BY <1>1, <3>1 DEF Next
    <3>3. ~Begin(r)
      BY <2>2 DEF Begin, Login, Signup, RequestToken, UseToken, Logout, SwitchOrganization, CreateOrganization,
             AcceptInvitation, Call, CallByKey, BySession, tables
    <3>4. ~Victim(r) /\ ~Fail(r)
      BY <2>2 DEF Victim, Fail, tables
    <3>5. ~AccountStep(r)
      BY <1>1, <2>2, AccountOutside DEF Outside
    <3>6. ~MemberStep(r)
      BY <1>1, <2>2, MemberOutside DEF Outside, Permit, tables
    <3> QED BY <3>2, <3>3, <3>4, <3>5, <3>6 DEF Step
  <2>3. ASSUME NEW r \in Requests, ProjectStep(r), tree' # tree PROVE Undone
    <3>1. ~(SelectProject(r) \/ LockProject(r) \/ ActiveProject(r) \/ CountEnvironments(r) \/ SelectEnvironment(r)
              \/ CountBeforeDelete(r) \/ CheckOrder(r) \/ FindEnvironments(r) \/ FindSecrets(r) \/ LockRow(r))
      BY <2>3 DEF SelectProject, LockProject, ActiveProject, CountEnvironments, SelectEnvironment, CountBeforeDelete,
             CheckOrder, FindEnvironments, FindSecrets, LockRow, tables
    <3> QED BY <1>1, <2>3, <3>1, LiveRowsChange, CascadeUndoes DEF ProjectStep
  <2> QED BY <2>1, <2>2, <2>3
<1>2. AccessInv /\ ProjectInv /\ [Next]_vars => [Undone]_vars
  BY <1>1
<1>3. Spec => [][Next]_vars
  BY PTL DEF Spec
<1> QED BY <1>2, <1>3, ProjectsInvariant, PTL DEF DeletionsKept, Undone

\* What a request found behind a row lock stays as it was until it acts: members,
\* invitations, tokens, sessions and the rows of a cascade alike.
THEOREM ServerInvariant == Spec => []ServerInv
<1>1. AccessInv /\ SessionInv /\ (AccessInv /\ ProjectInv) => ServerInv
  BY DEF ServerInv
<1> QED BY <1>1, AccessInvariant, SessionsInvariant, ProjectsInvariant, PTL
=============================================================================
