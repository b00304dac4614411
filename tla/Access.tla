-------------------------------- MODULE Access ------------------------------
(***************************************************************************)
(* Requests that log in, join, leave and manage an organization and its    *)
(* projects, running together on one API server with one connection pool   *)
(* and one database: the composition of Accounts, Members and Projects,    *)
(* and what it promises.                                                   *)
(***************************************************************************)
EXTENDS Projects

CONSTANTS
  Start, \* the tables to begin with, and the failures counted so far
  Mixes  \* sets of calls that clients make together; a call is its locals at arrival

\* Requests are validated before their handlers run; a server starts on tables its own code left.
ASSUME CallsAssumption == \A m \in Mixes : \A c \in m :
  /\ DOMAIN c = DOMAIN Blank
  /\ c.locks = {}
  /\ c.op \in {"updateMember", "inviteMember", "setOverride"} => c.role \in ProjectOverrideRoles
  /\ c.op \in {"updateMember", "removeMember", "inviteMember", "setOverride", "removeOverride"} => c.who \in Users
  /\ c.op \in {"login", "signup", "requestPasswordReset", "resendEmailVerification"} => c.user \in Users
  /\ c.op \in {"createOrganization", "switchOrganization"} => c.org \in Orgs
  /\ c.op \in {"login", "signup", "resetPassword"} => c.pw \in Nat
  /\ c.conns = 0 /\ c.stamp = 0
  /\ c.project \in DOMAIN Start.tree.projects
  /\ c.slug \in Nat /\ (c.op \in {"createProject", "createEnvironment"} => c.slug # 0)
  /\ c.order \in Seq(Nat \ {0})
ASSUME StartAssumption ==
  /\ Start.users \in [Users -> User]
  /\ Start.tokens \in Seq(Token)
  /\ Start.sessions \in Seq(Session)
  /\ Start.members \in [Orgs -> [Users -> Roles \cup {"none"}]]
  /\ Start.overrides \in [Orgs -> [Users -> ProjectOverrideRoles \cup {"none"}]]
  /\ Start.invitations \in Seq(Invitation)
  /\ Start.keys \in Seq(Key)
  /\ Start.failures \in [Identities -> 0 .. MaxFailures - 1]
  /\ \A o \in Orgs : (\E u \in Users : Start.members[o][u] # "none") =>
       \E u \in Users : Start.members[o][u] = "owner" /\ \A v \in Users \ {u} : Start.members[o][v] # "owner"
  /\ \A i \in DOMAIN Start.invitations : \E u \in Users : Start.members[Start.invitations[i].org][u] = "owner"
  /\ \A o \in Orgs, u \in Users : Start.overrides[o][u] # "none" => Start.members[o][u] # "none"
  /\ Start.tree \in [projects : Seq(Project), environments : Seq(Environment), secrets : Seq(Secret)]
  /\ \A e \in DOMAIN Start.tree.environments : Start.tree.environments[e].project \in DOMAIN Start.tree.projects
  /\ \A s \in DOMAIN Start.tree.secrets : Start.tree.secrets[s].environment \in DOMAIN Start.tree.environments

-----------------------------------------------------------------------------
(* Steps. *)

\* A client calls a route.
Begin(r) == \E c \in mix :
  \/ c.op = "login" /\ Login(r, c.user, c.pw, c.ip, c.org)
  \/ c.op = "signup" /\ Signup(r, c.user, c.pw)
  \/ RequestToken(r, c.op, c.user)
  \/ c.slot \in DOMAIN tokens /\ UseToken(r, c.op, c.slot, c.pw)
  \/ /\ c.sess \in DOMAIN sessions
     /\ \/ c.op = "logout" /\ Logout(r, c.sess)
        \/ c.op = "switchOrganization" /\ SwitchOrganization(r, c.sess, c.org)
        \/ c.op = "createOrganization" /\ CreateOrganization(r, c.sess, c.org)
        \/ c.op = "acceptInvitation" /\ c.slot \in DOMAIN invitations /\ AcceptInvitation(r, c.sess, c.slot)
  \/ /\ c.op \in {"updateEnvironment", "deleteEnvironment", "restoreEnvironment"} =>
          c.slot \in DOMAIN tree.environments
     /\ \/ c.sess \in DOMAIN sessions /\ Call(r, c.op, c.sess, c)
        \/ c.key \in DOMAIN keys /\ CallByKey(r, c.op, c.key, c)

\* Time passes for something that expires.
Expire == \E c \in mix :
  \/ c.op = "expireSession" /\ c.sess \in DOMAIN sessions /\ ExpireSession(c.sess)
  \/ c.op = "expireToken" /\ c.slot \in DOMAIN tokens /\ ExpireToken(c.slot)
  \/ c.op = "expireInvitation" /\ c.slot \in DOMAIN invitations /\ ExpireInvitation(c.slot)
  \/ c.op = "expireApiKey" /\ c.key \in DOMAIN keys /\ ExpireApiKey(c.key)
  \/ c.op = "windowEnds" /\ c.user \in Identities /\ WindowEnds(c.user)

\* The rows the next statement of r waits for while r holds others.
WaitRows(r) ==
  CASE req[r].pc = "user" -> {UserRow(req[r].user)}
    [] req[r].pc = "sessions" -> {SessionRow(s) : s \in req[r].todo}
    [] req[r].pc \in {"environment-rows", "secret-rows"} -> req[r].todo
    [] req[r].pc \in {"reference", "join"} -> {MemberRow(req[r].org, req[r].user)}
    [] OTHER -> {}

\* PostgreSQL breaks a cycle of waiting transactions by aborting one of them.
Victim(r) ==
  /\ \E D \in SUBSET Requests :
       /\ r \in D
       /\ \A q \in D : WaitRows(q) # {} /\ \A row \in WaitRows(q) : \E p \in D \ {q} : row \in req[p].locks
  /\ End(r)
  /\ UNCHANGED <<tables, failures, client>>

\* A statement fails or the connection is lost: nothing of the transaction stays.
Fail(r) ==
  /\ \E c \in mix : c.op = "faults"
  /\ req[r].pc # "idle"
  /\ End(r)
  /\ UNCHANGED <<tables, failures, client>>

\* The server restarts: its requests and its limiter are gone.
Restart ==
  /\ \E c \in mix : c.op = "restart"
  /\ ops < MaxOps
  /\ ops' = ops + 1
  /\ req' = [r \in Requests |-> Blank]
  /\ failures' = [id \in Identities |-> 0]
  /\ UNCHANGED <<tables, mix>>

Step(r) == AccountStep(r) \/ MemberStep(r) \/ ProjectStep(r)

Next == Expire \/ Restart \/ \E r \in Requests : Begin(r) \/ Step(r) \/ Victim(r) \/ Fail(r)

Init ==
  /\ users = Start.users
  /\ tokens = Start.tokens
  /\ sessions = Start.sessions
  /\ members = Start.members
  /\ overrides = Start.overrides
  /\ invitations = Start.invitations
  /\ keys = Start.keys
  /\ tree = Start.tree
  /\ failures = Start.failures
  /\ req = [r \in Requests |-> Blank]
  /\ ops = 0
  /\ mix \in Mixes

Spec == Init /\ [][Next]_vars

\* A request that can go on goes on, and the deadlock detector runs.
FairSpec == Spec /\ \A r \in Requests : WF_vars(Step(r) \/ Victim(r))

-----------------------------------------------------------------------------
(* Types. *)

Labels ==
  {"idle", "account", "verify", "session", "authenticate", "options", "touch", "revoke", "find", "sessions",
   "signup", "lookup", "issue", "begin", "token", "user", "key", "enter", "permit", "work", "switch",
   "reference", "create", "actor", "target", "apply", "override", "invite", "existing", "invitation-insert",
   "invitation", "resolve", "join", "key-insert", "key-row", "key-revoke", "project-insert", "project",
   "project-write", "project-row", "active", "count", "environment-insert", "environment", "environment-write",
   "census", "order", "environments", "environment-rows", "secret-rows"}

\* Every table holds well-formed rows, every request is at a statement of its
\* code, and counts only the connections it can hold (TenantDatabase, AuthService).
AccessTypeOK ==
  /\ users \in [Users -> User]
  /\ tokens \in Seq(Token)
  /\ sessions \in Seq(Session)
  /\ members \in [Orgs -> [Users -> Roles \cup {"none"}]]
  /\ overrides \in [Orgs -> [Users -> ProjectOverrideRoles \cup {"none"}]]
  /\ invitations \in Seq(Invitation)
  /\ keys \in Seq(Key)
  /\ tree \in [projects : Seq(Project), environments : Seq(Environment), secrets : Seq(Secret)]
  /\ failures \in [Identities -> Nat]
  /\ DOMAIN req = Requests
  /\ \A r \in Requests : req[r].pc \in Labels /\ req[r].conns \in 0 .. 2
  /\ ops \in Nat

-----------------------------------------------------------------------------
(* Promises of packages/auth. *)

Guessing(id) == {r \in Requests : req[r].pc \in {"account", "verify"} /\ id \in LoginIdentities(r)}

\* Attempts that pass isBlocked together overshoot the limit of failed logins
\* by less than the number of requests in flight (LoginAttemptLimiter, login).
GuessBound == \A id \in Identities : failures[id] <= MaxFailures - 1 + Cardinality(Requests)

\* The password of an account changes only in the transaction that consumes one
\* of its reset tokens, once per token (#consumeUserToken, resetPassword).
TokenOnce == [][\A u \in Users :
  users[u].exists /\ users[u].pw # users'[u].pw =>
    \E t \in DOMAIN tokens :
      tokens[t].kind = "reset" /\ tokens[t].user = u /\ ~tokens[t].consumed /\ tokens'[t].consumed]_vars

-----------------------------------------------------------------------------
(* Promises of packages/tenancy and of the member routes. *)

\* An account joins an organization as the owner who creates it, or in the step
\* that accepts a pending invitation, with its role; an invitation is accepted
\* or revoked once, and never both (acceptInvitation, revokeInvitation).
InvitationOnce == [][
  /\ \A o \in Orgs, u \in Users :
       ~IsMember(o, u) /\ IsMember(o, u)' =>
         \/ members'[o][u] = "owner" /\ \A v \in Users : ~IsMember(o, v)
         \/ \E i \in DOMAIN invitations :
              /\ invitations[i].org = o /\ invitations[i].user = u /\ Pending(i)
              /\ invitations[i].role = members'[o][u] /\ invitations'[i].accepted
  /\ \A i \in DOMAIN invitations :
       ~Pending(i) => invitations'[i].accepted = invitations[i].accepted
                      /\ invitations'[i].revoked = invitations[i].revoked]_vars

\* Roles change and members leave only as the routes decided about the role they
\* still have: never an owner's, nor an administrator's by an actor who read its
\* own role as administrator (validateMemberChange).
MemberChangeChecked == [][\A o \in Orgs, u \in Users :
  members[o][u] \notin {"none", members'[o][u]} =>
    /\ members[o][u] # "owner"
    /\ \E r \in Requests :
         /\ req[r].org = o /\ req[r].who = u /\ req[r].target = members[o][u]
         /\ req[r].actor = "admin" => members[o][u] # "admin" /\ members'[o][u] # "admin"]_vars

\* An organization has exactly one owner for as long as it has members
\* (createOrganization, validateMemberChange, the roles an invitation can have).
OneOwner == \A o \in Orgs :
  (\E u \in Users : IsMember(o, u)) =>
    \E u \in Users : members[o][u] = "owner" /\ \A v \in Users \ {u} : members[o][v] # "owner"

\* When a removal reaches its DELETE, no session points at the membership any
\* more, so the foreign key never refuses it (removeMember, switchActiveOrganization).
RemovalNeverRefused == \A r \in Requests :
  req[r].pc = "sessions" /\ req[r].op = "removeMember" /\ req[r].todo = {} => ~StillReferenced(r)

\* Only members have a role in a project, and it gives them nothing their role in
\* the organization does not (ProjectRoleOverrideService, effectiveRole, removeMember).
OverrideOnlyLowers == \A o \in Orgs, u \in Users :
  /\ overrides[o][u] # "none" => IsMember(o, u)
  /\ IsMember(o, u) => \A p \in Permissions, protected \in BOOLEAN :
       Authorized(members[o][u], overrides[o][u], protected, p) => Authorized(members[o][u], "none", FALSE, p)

\* A restore, of a project or an environment that its request found deleted at
\* time t, commits in this step and leaves it live.
RestoresProject(p, t) ==
  /\ tree'.projects[p].deletedAt = 0
  /\ \E r \in Requests : req[r].op = "restoreProject" /\ req[r].project = p /\ req[r].stamp = t
RestoresEnvironment(e, t) ==
  /\ tree'.environments[e].deletedAt = 0
  /\ \E r \in Requests : req[r].op = "restoreEnvironment" /\ req[r].slot = e /\ req[r].stamp = t

\* A deletion is undone by a restore of that very deletion and by no other: what
\* was deleted before its project, or its environment, was stays deleted when that
\* comes back, whatever ran meanwhile (projects and environments delete, restore).
DeletionsKept == [][
  /\ \A e \in DOMAIN tree.environments :
       LET row == tree.environments[e] IN
       ~Live(row) /\ row # tree'.environments[e] =>
         IF row.byProject = 0 THEN RestoresEnvironment(e, row.deletedAt)
                              ELSE RestoresProject(row.project, row.byProject)
  /\ \A s \in DOMAIN tree.secrets :
       LET row == tree.secrets[s]  e == row.environment IN
       ~Live(row) /\ row # tree'.secrets[s] =>
         \/ row.byProject # 0 /\ RestoresProject(tree.environments[e].project, row.byProject)
         \/ row.byProject = 0 /\ row.byEnvironment # 0 /\ RestoresEnvironment(e, row.byEnvironment)]_vars

\* Every request is answered: no cycle of row locks lasts, and the pool, larger
\* than the number of requests at work, never runs dry for ever (inviteMember
\* takes a second connection while it holds one).
RequestsEnd == \A r \in Requests : req[r].pc # "idle" ~> req[r].pc = "idle"

-----------------------------------------------------------------------------
(* The inductive invariant of the proofs: what a request decided on under a *)
(* row lock stays true until it acts.                                       *)

HasOwner(o) == \E u \in Users : members[o][u] = "owner"

\* A request has its locals, names what there is, and knows who it works for
\* once its session, key or token was read.
Formed(r) ==
  LET q == req[r]
      tenant == q.op \in DOMAIN RoutePermission IN
  /\ DOMAIN q = DOMAIN Blank
  /\ q.op \in {"updateMember", "inviteMember", "setOverride"} => q.role \in ProjectOverrideRoles
  /\ q.op \in {"updateMember", "removeMember", "inviteMember", "setOverride", "removeOverride"} => q.who \in Users
  /\ q.op \in {"signup", "resetPassword"} => q.pw \in Nat
  /\ q.op \in {"createOrganization", "switchOrganization"} => q.org \in Orgs
  /\ q.op \in {"resetPassword", "verifyEmail"} =>
       q.slot \in DOMAIN tokens /\ tokens[q.slot].kind = IF q.op = "resetPassword" THEN "reset" ELSE "verify"
  /\ q.op = "acceptInvitation" => q.slot \in DOMAIN invitations
  /\ q.pc \in {"account", "verify", "session"} => q.op = "login"
  /\ q.pc \in {"authenticate", "touch"} =>
       tenant \/ q.op \in {"login", "logout", "switchOrganization", "createOrganization", "acceptInvitation"}
  /\ q.pc = "authenticate" => q.sess \in DOMAIN sessions
  /\ q.pc = "key" => q.key \in DOMAIN keys /\ tenant
  /\ q.pc = "permit" => tenant
  /\ q.pc = "begin" => q.op \in {"resetPassword", "verifyEmail", "acceptInvitation"}
  /\ q.pc = "token" => q.op \in {"resetPassword", "verifyEmail"}
  /\ q.pc = "signup" => q.op = "signup"
  /\ q.pc = "invite" => q.op = "inviteMember"
  /\ q.pc = "resolve" => q.op = "acceptInvitation"
  /\ q.pc = "override" => q.op \in {"setOverride", "removeOverride"}
  /\ \/ q.pc \in {"idle", "authenticate", "key"}
     \/ q.op \in {"resetPassword", "verifyEmail"} /\ q.pc \in {"begin", "token"}
     \/ q.user \in Users
  /\ q.pc = "touch" /\ tenant => q.org \in Orgs \cup {NoOrg}
  /\ q.pc \notin {"idle", "authenticate", "touch", "key"} /\ tenant => q.org \in Orgs
  /\ q.pc \in {"enter", "switch", "reference", "create", "key-insert"} => q.org \in Orgs

\* No row is locked twice.
Exclusive == \A r \in Requests : \A q \in Requests \ {r} : req[r].locks \cap req[q].locks = {}

\* A member about to be changed or removed is as it was when its row was locked.
ChangesMember(r) ==
  \/ req[r].pc = "apply"
  \/ req[r].pc \in {"find", "sessions"} /\ req[r].op = "removeMember"
Decided(r) ==
  /\ req[r].pc \in {"actor", "target", "apply"} => req[r].op \in {"updateMember", "removeMember"}
  /\ ChangesMember(r) =>
       /\ MemberRow(req[r].org, req[r].who) \in req[r].locks
       /\ req[r].target = members[req[r].org][req[r].who]
       /\ req[r].target # "none"
       /\ ValidChange(r, req[r].target)
       /\ req[r].pc = "apply" => req[r].op = "updateMember"

\* An invitation about to be accepted is still pending.
Accepting(r) ==
  LET i == req[r].slot IN
  /\ req[r].pc = "join" => req[r].op = "acceptInvitation"
  /\ req[r].op = "acceptInvitation" /\ req[r].pc \in {"begin", "invitation", "join"} => req[r].org = invitations[i].org
  /\ req[r].pc = "join" =>
       /\ InvitationRow(i) \in req[r].locks
       /\ Pending(i)
       /\ invitations[i].user = req[r].user
       /\ invitations[i].role = req[r].role

\* Whoever invites works in an organization that has an owner.
Inviting(r) == req[r].pc \in {"existing", "invitation-insert"} => req[r].op = "inviteMember" /\ HasOwner(req[r].org)

\* A token about to be consumed is not consumed yet.
Consuming(r) ==
  req[r].op \in {"resetPassword", "verifyEmail"} /\ req[r].pc \in {"user", "find", "sessions"} =>
    /\ TokenRow(req[r].slot) \in req[r].locks
    /\ ~tokens[req[r].slot].consumed
    /\ tokens[req[r].slot].user = req[r].user

\* Tables of well-formed rows; an owner for every organization that has members
\* or invitations; roles in projects for members only.
TablesSound ==
  /\ users \in [Users -> User]
  /\ tokens \in Seq(Token)
  /\ sessions \in Seq(Session)
  /\ members \in [Orgs -> [Users -> Roles \cup {"none"}]]
  /\ overrides \in [Orgs -> [Users -> ProjectOverrideRoles \cup {"none"}]]
  /\ invitations \in Seq(Invitation)
  /\ keys \in Seq(Key)
  /\ OneOwner
  /\ \A i \in DOMAIN invitations : HasOwner(invitations[i].org)
  /\ \A o \in Orgs, u \in Users : overrides[o][u] # "none" => IsMember(o, u)

\* Failures so far and attempts under way stay below the limit together.
GuessesCounted ==
  /\ failures \in [Identities -> Nat]
  /\ \A id \in Identities : failures[id] + Cardinality(Guessing(id)) <= MaxFailures - 1 + Cardinality(Requests)

\* What packages/auth, tenancy and authz rely on between two statements.
AccessInv ==
  /\ DOMAIN req = Requests
  /\ mix \in Mixes
  /\ TablesSound
  /\ \A r \in Requests : Formed(r) /\ Decided(r) /\ Accepting(r) /\ Inviting(r) /\ Consuming(r)
  /\ Exclusive
  /\ GuessesCounted

-----------------------------------------------------------------------------
(* Sessions that follow their account out of an organization.              *)

Sessioned == {"login", "switchOrganization", "createOrganization", "acceptInvitation"}

\* A request that moves a session to an organization moves its own account's.
Belongs(r) ==
  LET q == req[r] IN
  /\ q.pc = "options" => q.op = "login"
  /\ q.pc = "create" => q.op = "createOrganization"
  /\ q.pc = "enter" => q.op \in DOMAIN RoutePermission \cup Sessioned
  /\ q.pc \in {"switch", "reference"} => q.op \in Sessioned
  /\ q.op \in Sessioned /\ q.pc \notin {"idle", "account", "verify", "session", "authenticate"} =>
       q.sess \in DOMAIN sessions /\ sessions[q.sess].user = q.user

\* The sessions a removal has to move are those it waits for or has locked: no
\* other can come to point at a membership whose row it holds.
Unreferenced(r) ==
  req[r].pc = "sessions" /\ req[r].op = "removeMember" =>
    \A s \in DOMAIN sessions : Matching(r, s) => s \in req[r].todo \/ SessionRow(s) \in req[r].locks

SessionInv == \A r \in Requests : Belongs(r) /\ Unreferenced(r)

-----------------------------------------------------------------------------
(* Cascades that decide once: the rows a request has locked stay as its     *)
(* WHERE found them until it commits.                                       *)

\* Statements of packages/projects and environments, and those of them that
\* belong to a cascade or to a reordering.
CascadeLabels == {"environments", "environment-rows", "secret-rows"}
ProjectLabels ==
  {"project-insert", "project", "project-write", "project-row", "active", "count", "environment-insert",
   "environment", "environment-write", "census", "order"} \cup CascadeLabels
Restores == {"restoreProject", "restoreEnvironment"}
Cascades == {"deleteProject", "deleteEnvironment"} \cup Restores

\* The connections a request holds at a statement: one in a transaction, and two
\* while inviteMember has withOrg's and its own.
Connections(label) ==
  CASE label \in {"idle", "account", "verify", "session", "authenticate", "options", "touch", "revoke", "signup",
                  "lookup", "issue", "begin", "key", "enter", "resolve", "create"} -> 0
    [] label \in {"existing", "invitation-insert"} -> 2
    [] OTHER -> 1

\* A request is at a statement of its call, with locals its call may have there.
Placed(r) ==
  LET q == req[r] IN
  /\ q.pc \in Labels /\ q.conns = Connections(q.pc)
  /\ q.slug \in Nat /\ q.stamp \in Nat /\ q.order \in Seq(Nat \ {0})
  /\ q.op \in DOMAIN ProjectRoutes \cup DOMAIN EnvironmentRoutes => q.project \in DOMAIN tree.projects
  /\ q.op \in {"updateEnvironment", "deleteEnvironment", "restoreEnvironment"} => q.slot \in DOMAIN tree.environments
  /\ q.op \in {"createProject", "createEnvironment"} => q.slug # 0
  /\ q.pc \in {"project-write", "environment-write"} => q.slug # 0
  /\ q.pc = "environment-write" => q.protected \in BOOLEAN
  /\ q.pc = "project-insert" => q.op = "createProject"
  /\ q.pc \in {"count", "environment-insert"} => q.op = "createEnvironment"
  /\ q.pc = "project" => q.op \in DOMAIN ProjectRoutes \ {"createProject"}
  /\ q.pc = "project-write" => q.op \in {"updateProject", "setArchived"}
  /\ q.pc = "project-row" => q.op \in {"deleteProject", "restoreProject"}
  /\ q.pc = "active" => q.op \in {"createEnvironment", "reorderEnvironments", "restoreEnvironment"}
  /\ q.pc = "environment" => q.op \in {"updateEnvironment", "deleteEnvironment", "restoreEnvironment"}
  /\ q.pc = "environment-write" => q.op = "updateEnvironment"
  /\ q.pc = "census" => q.op = "deleteEnvironment"
  /\ q.pc = "order" => q.op = "reorderEnvironments"
  /\ q.pc \in CascadeLabels => q.op \in Cascades \cup {"reorderEnvironments"}
  /\ q.pc = "secret-rows" => q.op \in Cascades

\* The rows a cascade has locked still satisfy its WHERE, those it waits for are
\* there, and a restore holds its project and knows the deletion it undoes.
Cascading(r) ==
  LET q == req[r] IN
  /\ \A row \in q.locks :
       /\ row[1] \in {"environment", "secret"} => q.pc \in {"environment-rows", "secret-rows"}
       /\ row[1] = "project" => q.pc \in CascadeLabels /\ row = ProjectRow(q.project)
       /\ row[1] = "environment" =>
            \E e \in DOMAIN tree.environments : row = EnvironmentRow(e) /\ ChangesEnvironment(r, e)
       /\ row[1] = "secret" =>
            q.pc = "secret-rows" /\ \E s \in DOMAIN tree.secrets : row = SecretRow(s) /\ ChangesSecret(r, s)
  /\ q.pc = "environment-rows" => \A row \in q.todo : \E e \in DOMAIN tree.environments : row = EnvironmentRow(e)
  /\ q.pc = "secret-rows" => \A row \in q.todo : \E s \in DOMAIN tree.secrets : row = SecretRow(s)
  /\ q.op = "restoreProject" /\ q.pc \in CascadeLabels => ProjectRow(q.project) \in q.locks
  /\ q.op = "restoreProject" /\ q.pc \in {"project-row"} \cup CascadeLabels => q.stamp # 0
  /\ q.op = "restoreEnvironment" /\ q.pc \in {"active"} \cup CascadeLabels => q.stamp # 0

\* The tree is well formed, and nothing in it refers to what is not there.
TreeSound ==
  /\ tree \in [projects : Seq(Project), environments : Seq(Environment), secrets : Seq(Secret)]
  /\ \A e \in DOMAIN tree.environments : tree.environments[e].project \in DOMAIN tree.projects
  /\ \A s \in DOMAIN tree.secrets : tree.secrets[s].environment \in DOMAIN tree.environments

\* What packages/projects and environments rely on between two statements.
ProjectInv ==
  /\ TreeSound
  /\ DOMAIN Start.tree.projects \subseteq DOMAIN tree.projects
  /\ \A r \in Requests : Placed(r) /\ Cascading(r)
  /\ ops \in Nat

-----------------------------------------------------------------------------
\* The inductive invariant of the server: what a request found behind a row lock
\* stays as it was until the request acts (packages/auth, tenancy, projects,
\* environments and the member routes of apps/api).
ServerInv == AccessInv /\ SessionInv /\ ProjectInv
=============================================================================
