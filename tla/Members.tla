------------------------------- MODULE Members ------------------------------
(***************************************************************************)
(* packages/tenancy, api-keys and authz behind the routes of an            *)
(* organization: members and their roles, invitations, the active          *)
(* organization of a session, and API keys.                                *)
(***************************************************************************)
EXTENDS Accounts

RoleIn(o, u) == members[o][u]
IsMember(o, u) == RoleIn(o, u) # "none"

-----------------------------------------------------------------------------
(* Arrivals, and the transaction every tenant route runs in. *)

\* A tenant route called with a session ...
Call(r, op, s, locals) == op \in DOMAIN RoutePermission /\ BySession(r, op, s, locals)

\* ... or with an API key.
CallByKey(r, op, k, locals) ==
  /\ op \in DOMAIN RoutePermission
  /\ Arrive(r, [locals EXCEPT !.pc = "key", !.op = op, !.key = k])
  /\ UNCHANGED <<tables, failures>>

SwitchOrganization(r, s, o) == BySession(r, "switchOrganization", s, [Blank EXCEPT !.org = o])
CreateOrganization(r, s, o) == BySession(r, "createOrganization", s, [Blank EXCEPT !.org = o])
AcceptInvitation(r, s, i)   == BySession(r, "acceptInvitation", s, [Blank EXCEPT !.slot = i])

\* ApiKeyService.authenticate: consume_api_key and its COMMIT.
ConsumeApiKey(r) ==
  LET k == keys[req[r].key] IN
  /\ req[r].pc = "key"
  /\ FreeConnection
  /\ Free(r, KeyRow(req[r].key))
  /\ IF k.live /\ IsMember(k.org, k.user)
     THEN Put(r, [req[r] EXCEPT !.pc = "enter", !.user = k.user, !.org = k.org])
     ELSE End(r)
  /\ UNCHANGED <<tables, failures, client>>

\* withOrg: BEGIN and the membership check.
Enter(r) ==
  /\ req[r].pc = "enter"
  /\ IF IsMember(req[r].org, req[r].user)
     THEN Connect(r, [req[r] EXCEPT !.pc = IF req[r].op \in DOMAIN RoutePermission THEN "permit" ELSE "switch"])
     ELSE FreeConnection /\ End(r)
  /\ UNCHANGED <<tables, failures, client>>

\* enforceApiKeyScope, for keys of a whole organization.
InScope(r) == req[r].key # 0 /\ keys[req[r].key].access = "read_only" => req[r].op = "listMembers"

\* AuthorizationContextResolver.resolve and requirePermission, in a project or
\* (0) in none; only the first project has roles of its own here.
Grants(r, permission, project, protected) ==
  LET role == RoleIn(req[r].org, req[r].user) IN
  /\ role # "none"
  /\ Authorized(role, IF project = 1 THEN overrides[req[r].org][req[r].user] ELSE "none", protected, permission)

\* The first statement of the calls on projects, and on environments.
ProjectRoutes ==
  [createProject |-> "project-insert", updateProject |-> "project", setArchived |-> "project",
   deleteProject |-> "project", restoreProject |-> "project"]
EnvironmentRoutes ==
  [createEnvironment |-> "active", reorderEnvironments |-> "active", updateEnvironment |-> "environment",
   deleteEnvironment |-> "environment", restoreEnvironment |-> "environment"]

\* The project of a route, and whether its environment is protected.
RouteProject(r) ==
  IF req[r].op \in {"updateSecret"} \cup (DOMAIN ProjectRoutes \ {"createProject"}) \cup DOMAIN EnvironmentRoutes
  THEN req[r].project ELSE 0

RouteProtected(r) ==
  CASE req[r].op = "updateSecret" -> req[r].protected
    [] req[r].op \in {"updateEnvironment", "deleteEnvironment"} ->
         tree.environments[req[r].slot].deletedAt = 0 /\ tree.environments[req[r].slot].protected
    [] OTHER -> FALSE

FirstStatement(op) ==
  CASE op \in {"updateMember", "removeMember"} -> "actor" [] op = "inviteMember" -> "invite"
    [] op = "revokeInvitation" -> "invitation" [] op = "createApiKey" -> "key-insert"
    [] op = "revokeApiKey" -> "key-row" [] op \in {"setOverride", "removeOverride"} -> "override"
    [] op \in DOMAIN ProjectRoutes -> ProjectRoutes[op]
    [] op \in DOMAIN EnvironmentRoutes -> EnvironmentRoutes[op]
    [] OTHER -> "work"

\* enforceRoutePermission, and the refusal to remove oneself.
Permit(r) ==
  /\ req[r].pc = "permit"
  /\ IF /\ InScope(r)
        /\ Grants(r, RoutePermission[req[r].op], RouteProject(r), RouteProtected(r))
        /\ req[r].op = "removeMember" => req[r].who # req[r].user
     THEN Goto(r, FirstStatement(req[r].op))
     ELSE End(r)
  /\ UNCHANGED <<tables, failures, client>>

\* A read, or the work of another package; COMMIT.
Work(r) ==
  /\ req[r].pc = "work"
  /\ End(r)
  /\ UNCHANGED <<tables, failures, client>>

-----------------------------------------------------------------------------
(* The active organization of a session. *)

\* switchActiveOrganization: a second membership check and UPDATE sessions,
\* which looks at the foreign key only when the organization changes.
Switch(r) ==
  LET s == req[r].sess IN
  /\ req[r].pc = "switch"
  /\ \/ ~IsMember(req[r].org, req[r].user) /\ End(r)
     \/ /\ IsMember(req[r].org, req[r].user)
        /\ Free(r, SessionRow(s))
        /\ IF sessions[s].live /\ sessions[s].org # req[r].org
           THEN Lock(r, SessionRow(s), "reference")
           ELSE End(r)
  /\ UNCHANGED <<tables, failures, client>>

\* sessions_active_membership_fk waits for the membership's row; COMMIT.
ReferenceMembership(r) ==
  /\ req[r].pc = "reference"
  /\ Free(r, MemberRow(req[r].org, req[r].user))
  /\ sessions' = IF IsMember(req[r].org, req[r].user)
                 THEN [sessions EXCEPT ![req[r].sess].org = req[r].org] ELSE sessions
  /\ End(r)
  /\ UNCHANGED <<users, tokens, members, overrides, invitations, keys, tree, failures, client>>

\* createOrganization: the organization with its owner, or SLUG_EXISTS; COMMIT.
InsertOrganization(r) ==
  /\ req[r].pc = "create"
  /\ FreeConnection
  /\ \/ \E u \in Users : IsMember(req[r].org, u) /\ End(r) /\ UNCHANGED members
     \/ /\ \A u \in Users : ~IsMember(req[r].org, u)
        /\ members' = [members EXCEPT ![req[r].org][req[r].user] = "owner"]
        /\ Leave(r, "enter")
  /\ UNCHANGED <<users, tokens, sessions, overrides, invitations, keys, tree, failures, client>>

-----------------------------------------------------------------------------
(* Changes of members. *)

\* SELECT of the actor's role; COALESCE to read_only.
ReadActor(r) ==
  /\ req[r].pc = "actor"
  /\ LET role == RoleIn(req[r].org, req[r].user) IN
     Put(r, [req[r] EXCEPT !.pc = "target", !.actor = IF role = "none" THEN "read_only" ELSE role])
  /\ UNCHANGED <<tables, failures, client>>

\* Mutant: the owner is protected from removal only.
ValidChangeRemoval(r, target) ==
  /\ target = "owner" => req[r].op # "removeMember"
  /\ req[r].actor = "admin" => target # "admin" /\ req[r].role # "admin"

\* validateMemberChange.
ValidChange(r, target) ==
  /\ target # "owner"
  /\ req[r].actor = "admin" => target # "admin" /\ req[r].role # "admin"

\* Mutant: the target is read without FOR UPDATE.
LockTargetPlain(r) ==
  LET target == RoleIn(req[r].org, req[r].who) IN
  /\ req[r].pc = "target"
  /\ IF target # "none" /\ ValidChange(r, target)
     THEN Put(r, [req[r] EXCEPT !.pc = IF req[r].op = "updateMember" THEN "apply" ELSE "find", !.target = target])
     ELSE End(r)
  /\ UNCHANGED <<tables, failures, client>>

\* SELECT ... FOR UPDATE OF m of the target.
LockTarget(r) ==
  LET row == MemberRow(req[r].org, req[r].who)
      target == RoleIn(req[r].org, req[r].who) IN
  /\ req[r].pc = "target"
  /\ Free(r, row)
  /\ IF target # "none" /\ ValidChange(r, target)
     THEN Put(r, [req[r] EXCEPT !.pc = IF req[r].op = "updateMember" THEN "apply" ELSE "find",
                                !.target = target, !.locks = @ \cup {row}])
     ELSE End(r)
  /\ UNCHANGED <<tables, failures, client>>

\* UPDATE memberships SET role; COMMIT.
ApplyRole(r) ==
  /\ req[r].pc = "apply"
  /\ members' = [members EXCEPT ![req[r].org][req[r].who] =
                   IF IsMember(req[r].org, req[r].who) THEN req[r].role ELSE "none"]
  /\ End(r)
  /\ UNCHANGED <<users, tokens, sessions, overrides, invitations, keys, tree, failures, client>>

\* A session that still points at the membership makes its DELETE fail.
StillReferenced(r) ==
  \E s \in DOMAIN sessions \ Updated(r) : sessions[s].user = req[r].who /\ sessions[s].org = req[r].org

\* UPDATE sessions SET active_org_id = NULL done, DELETE FROM memberships with
\* its cascade over project roles; COMMIT.
RemoveMember(r) ==
  /\ req[r].pc = "sessions" /\ req[r].op = "removeMember" /\ req[r].todo = {}
  /\ IF StillReferenced(r)
     THEN UNCHANGED <<sessions, members, overrides>>
     ELSE /\ sessions' = [s \in DOMAIN sessions |->
                            IF s \in Updated(r) THEN [sessions[s] EXCEPT !.org = NoOrg] ELSE sessions[s]]
          /\ members' = [members EXCEPT ![req[r].org][req[r].who] = "none"]
          /\ overrides' = [overrides EXCEPT ![req[r].org][req[r].who] = "none"]
  /\ End(r)
  /\ UNCHANGED <<users, tokens, invitations, keys, tree, failures, client>>

\* setOverride (refused without a membership to refer to) and removeOverride; COMMIT.
WriteOverride(r) ==
  /\ req[r].pc = "override"
  /\ Free(r, MemberRow(req[r].org, req[r].who))
  /\ overrides' = [overrides EXCEPT ![req[r].org][req[r].who] =
       CASE req[r].op = "removeOverride" -> "none"
         [] req[r].op = "setOverride" /\ IsMember(req[r].org, req[r].who) -> req[r].role
         [] OTHER -> @]
  /\ End(r)
  /\ UNCHANGED <<users, tokens, sessions, members, invitations, keys, tree, failures, client>>

-----------------------------------------------------------------------------
(* Invitations. *)

\* createInvitation: withOrg on a second connection, and the inviter's role.
OpenInvitation(r) ==
  /\ req[r].pc = "invite"
  /\ IF RoleIn(req[r].org, req[r].user) \in {"owner", "admin"}
     THEN Connect(r, [req[r] EXCEPT !.pc = "existing"])
     ELSE FreeConnection /\ End(r)
  /\ UNCHANGED <<tables, failures, client>>

\* SELECT of the invited account's membership: ALREADY_MEMBER.
ExistingMember(r) ==
  /\ req[r].pc = "existing"
  /\ IF IsMember(req[r].org, req[r].who) THEN End(r) ELSE Goto(r, "invitation-insert")
  /\ UNCHANGED <<tables, failures, client>>

Rivals(r) == {i \in DOMAIN invitations : invitations[i].org = req[r].org /\ invitations[i].user = req[r].who /\ Pending(i)}

\* UPDATE of expired invitations and INSERT of the new one (INVITATION_EXISTS
\* while another is pending); COMMIT of the inner transaction.
InsertInvitation(r) ==
  LET stale == {i \in Rivals(r) : ~invitations[i].fresh}
      swept == [i \in DOMAIN invitations |->
                  IF i \in stale THEN [invitations[i] EXCEPT !.revoked = TRUE] ELSE invitations[i]] IN
  /\ req[r].pc = "invitation-insert"
  /\ \A i \in stale : Free(r, InvitationRow(i))
  /\ IF Rivals(r) = stale
     THEN /\ invitations' = Append(swept, [org |-> req[r].org, user |-> req[r].who, role |-> req[r].role,
                                           accepted |-> FALSE, revoked |-> FALSE, fresh |-> TRUE])
          /\ Put(r, [req[r] EXCEPT !.pc = "work", !.conns = @ - 1])
     ELSE End(r) /\ UNCHANGED invitations
  /\ UNCHANGED <<users, tokens, sessions, members, overrides, keys, tree, failures, client>>

\* UPDATE organization_invitations SET revoked_at of a pending one; COMMIT.
RevokeInvitation(r) ==
  /\ req[r].pc = "invitation" /\ req[r].op = "revokeInvitation"
  /\ Free(r, InvitationRow(req[r].slot))
  /\ invitations' = IF Pending(req[r].slot) /\ invitations[req[r].slot].org = req[r].org
                    THEN [invitations EXCEPT ![req[r].slot].revoked = TRUE] ELSE invitations
  /\ End(r)
  /\ UNCHANGED <<users, tokens, sessions, members, overrides, keys, tree, failures, client>>

\* resolve_invitation_org, outside any transaction.
ResolveInvitation(r) ==
  /\ req[r].pc = "resolve"
  /\ FreeConnection
  /\ IF Open(req[r].slot)
     THEN Put(r, [req[r] EXCEPT !.pc = "begin", !.org = invitations[req[r].slot].org])
     ELSE End(r)
  /\ UNCHANGED <<tables, failures, client>>

\* Mutant: SELECT without FOR UPDATE.
LockInvitationPlain(r) ==
  /\ req[r].pc = "invitation" /\ req[r].op = "acceptInvitation"
  /\ IF Open(req[r].slot) /\ invitations[req[r].slot].user = req[r].user
     THEN Put(r, [req[r] EXCEPT !.pc = "join", !.role = invitations[req[r].slot].role])
     ELSE End(r)
  /\ UNCHANGED <<tables, failures, client>>

\* SELECT ... FOR UPDATE, again for an open invitation, and the invited address.
LockInvitation(r) ==
  /\ req[r].pc = "invitation" /\ req[r].op = "acceptInvitation"
  /\ Free(r, InvitationRow(req[r].slot))
  /\ IF Open(req[r].slot) /\ invitations[req[r].slot].user = req[r].user
     THEN Put(r, [req[r] EXCEPT !.pc = "join", !.role = invitations[req[r].slot].role,
                                !.locks = @ \cup {InvitationRow(req[r].slot)}])
     ELSE End(r)
  /\ UNCHANGED <<tables, failures, client>>

\* INSERT INTO memberships (a conflict rolls back), UPDATE of the invitation,
\* COMMIT; the handler then switches the session to the organization.
Join(r) ==
  /\ req[r].pc = "join"
  /\ Free(r, MemberRow(req[r].org, req[r].user))
  /\ IF IsMember(req[r].org, req[r].user)
     THEN End(r) /\ UNCHANGED <<members, invitations>>
     ELSE /\ members' = [members EXCEPT ![req[r].org][req[r].user] = req[r].role]
          /\ invitations' = [invitations EXCEPT ![req[r].slot].accepted = TRUE]
          /\ Leave(r, "enter")
  /\ UNCHANGED <<users, tokens, sessions, overrides, keys, tree, failures, client>>

ExpireInvitation(i) ==
  /\ invitations[i].fresh
  /\ invitations' = [invitations EXCEPT ![i].fresh = FALSE]
  /\ UNCHANGED <<users, tokens, sessions, members, overrides, keys, tree, failures, req, client>>

-----------------------------------------------------------------------------
(* API keys of a whole organization. *)

\* ApiKeyService.create: the permission again, INSERT; COMMIT.
InsertApiKey(r) ==
  /\ req[r].pc = "key-insert"
  /\ keys' = IF Grants(r, "api_key.create", 0, FALSE)
             THEN Append(keys, [org |-> req[r].org, user |-> req[r].user, access |-> "read_write", live |-> TRUE])
             ELSE keys
  /\ End(r)
  /\ UNCHANGED <<users, tokens, sessions, members, overrides, invitations, tree, failures, client>>

\* ApiKeyService.revoke: SELECT ... FOR UPDATE of a key of the organization.
LockApiKey(r) ==
  /\ req[r].pc = "key-row"
  /\ IF keys[req[r].slot].org = req[r].org THEN Lock(r, KeyRow(req[r].slot), "key-revoke") ELSE End(r)
  /\ UNCHANGED <<tables, failures, client>>

\* The permission again, UPDATE api_keys SET revoked_at; COMMIT.
RevokeApiKey(r) ==
  /\ req[r].pc = "key-revoke"
  /\ keys' = IF Grants(r, "api_key.revoke", 0, FALSE)
             THEN [keys EXCEPT ![req[r].slot].live = FALSE] ELSE keys
  /\ End(r)
  /\ UNCHANGED <<users, tokens, sessions, members, overrides, invitations, tree, failures, client>>

ExpireApiKey(k) ==
  /\ keys[k].live
  /\ keys' = [keys EXCEPT ![k].live = FALSE]
  /\ UNCHANGED <<users, tokens, sessions, members, overrides, invitations, tree, failures, req, client>>

-----------------------------------------------------------------------------

MemberStep(r) ==
  \/ ConsumeApiKey(r) \/ Enter(r) \/ Permit(r) \/ Work(r)
  \/ Switch(r) \/ ReferenceMembership(r) \/ InsertOrganization(r)
  \/ ReadActor(r) \/ LockTarget(r) \/ ApplyRole(r) \/ RemoveMember(r) \/ WriteOverride(r)
  \/ OpenInvitation(r) \/ ExistingMember(r) \/ InsertInvitation(r) \/ RevokeInvitation(r)
  \/ ResolveInvitation(r) \/ LockInvitation(r) \/ Join(r)
  \/ InsertApiKey(r) \/ LockApiKey(r) \/ RevokeApiKey(r)
=============================================================================
