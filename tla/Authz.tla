-------------------------------- MODULE Authz -------------------------------
(***************************************************************************)
(* Roles and permissions of packages/authz: a matrix from organization     *)
(* roles to permissions, narrowed by a role in one project and by the      *)
(* protection of an environment.                                           *)
(***************************************************************************)
EXTENDS Naturals

Roles == {"owner", "admin", "member", "read_only"}
ProjectOverrideRoles == Roles \ {"owner"}

Permissions ==
  {"org.settings.read", "org.settings.update", "org.settings.delete",
   "org.members.read", "org.members.invite", "org.members.manage",
   "project.create", "project.read", "project.update", "project.archive", "project.delete",
   "environment.create", "environment.read", "environment.update", "environment.delete",
   "secret.read", "secret.write", "secret.delete",
   "api_key.read", "api_key.create", "api_key.revoke", "audit.read", "audit.export"}

ReadOnlyPermissions == {"org.settings.read", "org.members.read", "project.read", "environment.read", "secret.read"}

MemberPermissions ==
  ReadOnlyPermissions \cup {"project.create", "project.update", "environment.create", "environment.update",
                            "secret.write", "secret.delete"}

PermissionMatrix ==
  [owner |-> Permissions, admin |-> Permissions \ {"org.settings.delete"},
   member |-> MemberPermissions, read_only |-> ReadOnlyPermissions]

RoleRank == [read_only |-> 0, member |-> 1, admin |-> 2, owner |-> 3]

ProjectScopedPermissions ==
  {"project.read", "project.update", "project.archive", "project.delete",
   "environment.create", "environment.read", "environment.update", "environment.delete",
   "secret.read", "secret.write", "secret.delete", "api_key.read", "api_key.create", "api_key.revoke"}

ProtectedWritePermissions ==
  {"environment.create", "environment.update", "environment.delete", "secret.write", "secret.delete"}

\* Mutant: a role in the project replaces the role in the organization.
EffectiveRoleReplaced(orgRole, projectRole) == IF projectRole = "none" THEN orgRole ELSE projectRole

\* A role in a project lowers the role in the organization and never raises it.
EffectiveRole(orgRole, projectRole) ==
  IF projectRole # "none" /\ RoleRank[projectRole] < RoleRank[orgRole] THEN projectRole ELSE orgRole

\* The role that decides on a permission.
DecidingRole(orgRole, projectRole, permission) ==
  IF permission \in ProjectScopedPermissions THEN EffectiveRole(orgRole, projectRole) ELSE orgRole

\* authorize(...).allowed for a context.
Authorized(orgRole, projectRole, protected, permission) ==
  LET role == DecidingRole(orgRole, projectRole, permission) IN
  /\ permission \in PermissionMatrix[role]
  /\ protected /\ permission \in ProtectedWritePermissions => role \in {"owner", "admin"}

\* apiRoutePermissions: what the routes of this model demand, and what
\* the services no route calls yet (project roles, archiving and restoring) demand.
RoutePermission ==
  [updateMember |-> "org.members.manage", removeMember |-> "org.members.manage",
   setOverride |-> "org.members.manage", removeOverride |-> "org.members.manage",
   inviteMember |-> "org.members.invite", revokeInvitation |-> "org.members.invite",
   createApiKey |-> "api_key.create", revokeApiKey |-> "api_key.revoke",
   listMembers |-> "org.members.read", updateSecret |-> "secret.write",
   createProject |-> "project.create", updateProject |-> "project.update",
   setArchived |-> "project.archive", deleteProject |-> "project.delete", restoreProject |-> "project.delete",
   createEnvironment |-> "environment.create", updateEnvironment |-> "environment.update",
   reorderEnvironments |-> "environment.update", deleteEnvironment |-> "environment.delete",
   restoreEnvironment |-> "environment.delete"]
=============================================================================
