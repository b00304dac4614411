------------------------------ MODULE Projects ------------------------------
(***************************************************************************)
(* packages/projects and packages/environments: the projects of an         *)
(* organization, their environments and secrets, and the cascades that     *)
(* delete and restore them.  Environments tells the cascade over secrets   *)
(* against their writers; here it meets the cascade of the project, the    *)
(* order and the protection of environments.  Names, descriptions,         *)
(* settings and tags of projects are left out.                             *)
(***************************************************************************)
EXTENDS Members

Live(row) == row.deletedAt = 0

ProjectOf(r) == tree.projects[req[r].project]
EnvironmentOf(r) == tree.environments[req[r].slot]
EnvironmentsIn(p) == {e \in DOMAIN tree.environments : tree.environments[e].project = p}
LiveEnvironments(p) == {e \in EnvironmentsIn(p) : Live(tree.environments[e])}
SecretsIn(p) == {s \in DOMAIN tree.secrets : tree.secrets[s].environment \in EnvironmentsIn(p)}

\* this.#now(): times are only ever compared for equality, and no two deletions
\* take the same one.
Stamps ==
  {tree.projects[p].deletedAt : p \in DOMAIN tree.projects}
    \cup {tree.environments[e].deletedAt : e \in DOMAIN tree.environments}
    \cup {tree.secrets[s].deletedAt : s \in DOMAIN tree.secrets}
    \cup {req[q].stamp : q \in Requests}
Now == CHOOSE t \in 1 .. Cardinality(Stamps) + 1 : t \notin Stamps

\* The slug is taken by another project, or another environment of the project, deleted ones included.
ProjectSlugTaken(p, slug) == \E q \in DOMAIN tree.projects \ {p} : tree.projects[q].slug = slug
EnvironmentSlugTaken(p, e, slug) == \E f \in EnvironmentsIn(p) \ {e} : tree.environments[f].slug = slug

\* The slug of "production" and "prod", protected by default.
Production == 1

-----------------------------------------------------------------------------
(* Projects. *)

\* INSERT INTO projects with the environments its trigger adds, or SLUG_EXISTS; COMMIT.
InsertProject(r) ==
  LET p == Len(tree.projects) + 1
      defaults == [i \in 1 .. Len(req[r].order) |->
                     [project |-> p, slug |-> req[r].order[i], order |-> i - 1,
                      protected |-> req[r].order[i] = Production, deletedAt |-> 0, byProject |-> 0]] IN
  /\ req[r].pc = "project-insert"
  /\ tree' = IF ProjectSlugTaken(p, req[r].slug) THEN tree
             ELSE [tree EXCEPT !.projects = Append(@, [slug |-> req[r].slug, archived |-> FALSE, deletedAt |-> 0]),
                               !.environments = @ \o defaults]
  /\ End(r)
  /\ UNCHANGED <<users, tokens, sessions, members, overrides, invitations, keys, failures, client>>

\* #getById and the permission of the service.  A restore is refused for a
\* project that is not deleted, or whose recovery window is over.
SelectProject(r) ==
  LET row == ProjectOf(r) IN
  /\ req[r].pc = "project"
  /\ \/ /\ Grants(r, RoutePermission[req[r].op], req[r].project, FALSE)
        /\ Live(row) <=> req[r].op # "restoreProject"
        /\ Put(r, [req[r] EXCEPT
             !.pc = IF req[r].op \in {"updateProject", "setArchived"} THEN "project-write" ELSE "project-row",
             !.slug = IF @ = 0 THEN row.slug ELSE @,
             !.stamp = row.deletedAt])
     \/ /\ \/ req[r].op = "restoreProject" \/ ~Live(row)
           \/ ~Grants(r, RoutePermission[req[r].op], req[r].project, FALSE)
        /\ End(r)
  /\ UNCHANGED <<tables, failures, client>>

\* update and setArchived: UPDATE projects of a live one, or SLUG_EXISTS; COMMIT.
WriteProject(r) ==
  LET p == req[r].project IN
  /\ req[r].pc = "project-write"
  /\ Free(r, ProjectRow(p))
  /\ tree' =
       IF ~Live(ProjectOf(r)) \/ ProjectSlugTaken(p, req[r].slug) THEN tree
       ELSE IF req[r].op = "setArchived" THEN [tree EXCEPT !.projects[p].archived = req[r].wants = "on"]
       ELSE [tree EXCEPT !.projects[p].slug = req[r].slug]
  /\ End(r)
  /\ UNCHANGED <<users, tokens, sessions, members, overrides, invitations, keys, failures, client>>

\* delete: UPDATE projects of a live one, and on with a time of its own even if
\* there is none any more.  restore: UPDATE projects, whatever it is by now.
LockProject(r) ==
  LET p == req[r].project
      deletes == req[r].op = "deleteProject" IN
  /\ req[r].pc = "project-row"
  /\ Free(r, ProjectRow(p))
  /\ Put(r, [req[r] EXCEPT !.pc = "environments",
                           !.stamp = IF deletes THEN Now ELSE @,
                           !.locks = IF deletes => Live(ProjectOf(r)) THEN @ \cup {ProjectRow(p)} ELSE @])
  /\ UNCHANGED <<tables, failures, client>>

-----------------------------------------------------------------------------
(* Environments. *)

\* #requireActiveProject and the permission of the service.
ActiveProject(r) ==
  LET protected == \/ req[r].op = "createEnvironment" /\ req[r].wants = "on"
                   \/ req[r].op = "restoreEnvironment" /\ EnvironmentOf(r).protected IN
  /\ req[r].pc = "active"
  /\ IF Live(ProjectOf(r)) /\ Grants(r, RoutePermission[req[r].op], req[r].project, protected)
     THEN Goto(r, CASE req[r].op = "createEnvironment" -> "count"
                    [] req[r].op = "reorderEnvironments" -> "order"
                    [] OTHER -> "environments")
     ELSE End(r)
  /\ UNCHANGED <<tables, failures, client>>

\* create: the count of live environments, against MAX_ENVIRONMENTS.
CountEnvironments(r) ==
  /\ req[r].pc = "count"
  /\ IF Cardinality(LiveEnvironments(req[r].project)) < MaxEnvironments
     THEN Goto(r, "environment-insert") ELSE End(r)
  /\ UNCHANGED <<tables, failures, client>>

\* INSERT INTO environments behind the last live one, or SLUG_EXISTS; COMMIT.
InsertEnvironment(r) ==
  LET p == req[r].project
      orders == {tree.environments[e].order : e \in LiveEnvironments(p)}
      next == IF orders = {} THEN 0 ELSE 1 + CHOOSE n \in orders : \A m \in orders : m <= n IN
  /\ req[r].pc = "environment-insert"
  /\ tree' = IF EnvironmentSlugTaken(p, 0, req[r].slug) THEN tree
             ELSE [tree EXCEPT !.environments = Append(@,
                     [project |-> p, slug |-> req[r].slug, order |-> next, protected |-> req[r].wants = "on",
                      deletedAt |-> 0, byProject |-> 0])]
  /\ End(r)
  /\ UNCHANGED <<users, tokens, sessions, members, overrides, invitations, keys, failures, client>>

\* update, delete and restore: #get and the permission of the service; restore
\* refuses what is live, went with its project, or is past its recovery window.
SelectEnvironment(r) ==
  LET row == EnvironmentOf(r)
      op == req[r].op
      permitted == Grants(r, RoutePermission[op], row.project,
                          row.protected \/ (op = "updateEnvironment" /\ req[r].wants = "on")) IN
  /\ req[r].pc = "environment"
  /\ \/ /\ op = "restoreEnvironment" /\ ~Live(row) /\ row.byProject = 0
        /\ Put(r, [req[r] EXCEPT !.pc = "active", !.stamp = row.deletedAt])
     \/ /\ op # "restoreEnvironment" /\ Live(row) /\ permitted
        /\ Put(r, [req[r] EXCEPT !.pc = IF op = "updateEnvironment" THEN "environment-write" ELSE "census",
                                 !.slug = IF @ = 0 THEN row.slug ELSE @,
                                 !.protected = IF req[r].wants = "none" THEN row.protected ELSE req[r].wants = "on"])
     \/ op = "restoreEnvironment" /\ End(r)
     \/ op # "restoreEnvironment" /\ (~Live(row) \/ ~permitted) /\ End(r)
  /\ UNCHANGED <<tables, failures, client>>

\* update: UPDATE environments of a live one with all its columns, or SLUG_EXISTS; COMMIT.
WriteEnvironment(r) ==
  LET e == req[r].slot IN
  /\ req[r].pc = "environment-write"
  /\ Free(r, EnvironmentRow(e))
  /\ tree' = IF ~Live(EnvironmentOf(r)) \/ EnvironmentSlugTaken(req[r].project, e, req[r].slug) THEN tree
             ELSE [tree EXCEPT !.environments[e].slug = req[r].slug, !.environments[e].protected = req[r].protected]
  /\ End(r)
  /\ UNCHANGED <<users, tokens, sessions, members, overrides, invitations, keys, failures, client>>

\* delete: the counts of live environments and secrets, and the time of the deletion.
CountBeforeDelete(r) ==
  LET p == req[r].project
      secrets == {s \in DOMAIN tree.secrets : tree.secrets[s].environment = req[r].slot /\ Live(tree.secrets[s])} IN
  /\ req[r].pc = "census"
  /\ IF Cardinality(LiveEnvironments(p)) > 1 /\ (secrets # {} => req[r].wants = "confirmed")
     THEN Put(r, [req[r] EXCEPT !.pc = "environments", !.stamp = Now])
     ELSE End(r)
  /\ UNCHANGED <<tables, failures, client>>

\* reorder: the order names every live environment, and may move a protected one.
CheckOrder(r) ==
  LET live == LiveEnvironments(req[r].project)
      named == {req[r].order[i] : i \in DOMAIN req[r].order} IN
  /\ req[r].pc = "order"
  /\ IF /\ named = live
        /\ (\E e \in live : tree.environments[e].protected) =>
             Grants(r, "environment.update", req[r].project, TRUE)
     THEN Goto(r, "environments")
     ELSE End(r)
  /\ UNCHANGED <<tables, failures, client>>

-----------------------------------------------------------------------------
(* Cascades: UPDATE statements over many rows. *)

\* Mutant: the cascade of a project takes what is deleted already.
ChangesEnvironmentAny(r, e) ==
  LET row == tree.environments[e] IN
  CASE req[r].op = "deleteProject" -> row.project = req[r].project
    [] req[r].op = "restoreProject" -> row.project = req[r].project /\ row.byProject = req[r].stamp
    [] req[r].op = "deleteEnvironment" -> e = req[r].slot /\ Live(row)
    [] req[r].op = "restoreEnvironment" -> e = req[r].slot /\ row.deletedAt = req[r].stamp /\ row.byProject = 0
    [] OTHER -> row.project = req[r].project /\ Live(row) /\ \E i \in DOMAIN req[r].order : req[r].order[i] = e

\* The WHERE of the UPDATE environments ...
ChangesEnvironment(r, e) ==
  LET row == tree.environments[e] IN
  CASE req[r].op = "deleteProject" -> row.project = req[r].project /\ Live(row)
    [] req[r].op = "restoreProject" -> row.project = req[r].project /\ row.byProject = req[r].stamp
    [] req[r].op = "deleteEnvironment" -> e = req[r].slot /\ Live(row)
    [] req[r].op = "restoreEnvironment" -> e = req[r].slot /\ row.deletedAt = req[r].stamp /\ row.byProject = 0
    [] OTHER -> row.project = req[r].project /\ Live(row) /\ \E i \in DOMAIN req[r].order : req[r].order[i] = e

\* ... and of the UPDATE secrets.
ChangesSecret(r, s) ==
  LET row == tree.secrets[s] IN
  CASE req[r].op = "deleteProject" -> s \in SecretsIn(req[r].project) /\ Live(row)
    [] req[r].op = "restoreProject" -> s \in SecretsIn(req[r].project) /\ row.byProject = req[r].stamp
    [] req[r].op = "deleteEnvironment" -> row.environment = req[r].slot /\ Live(row)
    [] OTHER -> row.environment = req[r].slot /\ row.byEnvironment = req[r].stamp /\ row.byProject = 0

\* A statement starts: it finds its rows among what is committed ...
FindEnvironments(r) ==
  /\ req[r].pc = "environments"
  /\ Put(r, [req[r] EXCEPT !.pc = "environment-rows",
               !.todo = {EnvironmentRow(e) : e \in {e \in DOMAIN tree.environments : ChangesEnvironment(r, e)}}])
  /\ UNCHANGED <<tables, failures, client>>

FindSecrets(r) ==
  /\ req[r].pc = "environment-rows" /\ req[r].todo = {} /\ req[r].op # "reorderEnvironments"
  /\ Put(r, [req[r] EXCEPT !.pc = "secret-rows",
               !.todo = {SecretRow(s) : s \in {s \in DOMAIN tree.secrets : ChangesSecret(r, s)}}])
  /\ UNCHANGED <<tables, failures, client>>

\* ... and waits for them one by one, taking those its WHERE still holds for.
LockRow(r) ==
  /\ req[r].pc \in {"environment-rows", "secret-rows"}
  /\ \E row \in req[r].todo :
       /\ Free(r, row)
       /\ Put(r, [req[r] EXCEPT !.todo = @ \ {row},
                    !.locks = IF IF row[1] = "environment" THEN ChangesEnvironment(r, row[2]) ELSE ChangesSecret(r, row[2])
                              THEN @ \cup {row} ELSE @])
  /\ UNCHANGED <<tables, failures, client>>

\* A row as the cascade of r leaves it.
CascadedEnvironment(r, row) ==
  [row EXCEPT !.deletedAt = IF req[r].op \in {"deleteProject", "deleteEnvironment"} THEN req[r].stamp ELSE 0,
              !.byProject = IF req[r].op = "deleteProject" THEN req[r].stamp ELSE 0]
CascadedSecret(r, row) ==
  CASE req[r].op = "deleteProject" -> [row EXCEPT !.deletedAt = req[r].stamp, !.byProject = req[r].stamp]
    [] req[r].op = "restoreProject" -> [row EXCEPT !.deletedAt = 0, !.byProject = 0]
    [] req[r].op = "deleteEnvironment" -> [row EXCEPT !.deletedAt = req[r].stamp, !.byEnvironment = req[r].stamp]
    [] OTHER -> [row EXCEPT !.deletedAt = 0, !.byEnvironment = 0]

\* The last statement of a cascade, and COMMIT; restoring an environment ends
\* with a look at it, and fails if it is not live.
CommitCascade(r) ==
  LET found(row) == row \in req[r].locks IN
  /\ req[r].pc = "secret-rows" /\ req[r].todo = {}
  /\ tree' =
       IF req[r].op = "restoreEnvironment" /\ ~Live(EnvironmentOf(r)) /\ ~found(EnvironmentRow(req[r].slot))
       THEN tree
       ELSE [projects |-> [p \in DOMAIN tree.projects |->
                             IF found(ProjectRow(p))
                             THEN [tree.projects[p] EXCEPT !.deletedAt = IF req[r].op = "deleteProject" THEN req[r].stamp ELSE 0]
                             ELSE tree.projects[p]],
             environments |-> [e \in DOMAIN tree.environments |->
                                 IF found(EnvironmentRow(e)) THEN CascadedEnvironment(r, tree.environments[e])
                                 ELSE tree.environments[e]],
             secrets |-> [s \in DOMAIN tree.secrets |->
                            IF found(SecretRow(s)) THEN CascadedSecret(r, tree.secrets[s]) ELSE tree.secrets[s]]]
  /\ End(r)
  /\ UNCHANGED <<users, tokens, sessions, members, overrides, invitations, keys, failures, client>>

\* reorder: UPDATE environments SET display_order done; COMMIT, if the project still lives.
CommitOrder(r) ==
  LET place(e) == CHOOSE i \in DOMAIN req[r].order : req[r].order[i] = e IN
  /\ req[r].pc = "environment-rows" /\ req[r].todo = {} /\ req[r].op = "reorderEnvironments"
  /\ tree' = IF ~Live(ProjectOf(r)) THEN tree
             ELSE [tree EXCEPT !.environments = [e \in DOMAIN tree.environments |->
                     IF EnvironmentRow(e) \in req[r].locks THEN [tree.environments[e] EXCEPT !.order = place(e) - 1]
                     ELSE tree.environments[e]]]
  /\ End(r)
  /\ UNCHANGED <<users, tokens, sessions, members, overrides, invitations, keys, failures, client>>

-----------------------------------------------------------------------------

ProjectStep(r) ==
  \/ InsertProject(r) \/ SelectProject(r) \/ WriteProject(r) \/ LockProject(r)
  \/ ActiveProject(r) \/ CountEnvironments(r) \/ InsertEnvironment(r)
  \/ SelectEnvironment(r) \/ WriteEnvironment(r) \/ CountBeforeDelete(r) \/ CheckOrder(r)
  \/ FindEnvironments(r) \/ FindSecrets(r) \/ LockRow(r) \/ CommitCascade(r) \/ CommitOrder(r)
=============================================================================
