------------------------------- MODULE MCAccess -----------------------------
(***************************************************************************)
(* Instances of Access for TLC: an organization with an owner, an admin    *)
(* and a member, someone invited to it, and one not made yet; its project  *)
(* has a production environment and another, with a secret in each and one *)
(* deleted before.                                                         *)
(***************************************************************************)
EXTENDS Access, TLC

CONSTANTS olga, adam, mary, ivan, nina, o1, o2, ip1, r1, r2

TwoRequests == {r1, r2}
AllUsers == {olga, adam, mary, ivan, nina}
TwoOrgs == {o1, o2}
OneIp == {ip1}
TwoPasswords == {1, 2}

NoRoles == [u \in AllUsers |-> "none"]

Environ(slug, order, protected) ==
  [project |-> 1, slug |-> slug, order |-> order, protected |-> protected, deletedAt |-> 0, byProject |-> 0]
Secr(e, deletedAt) == [environment |-> e, deletedAt |-> deletedAt, byEnvironment |-> 0, byProject |-> 0]

Started ==
  [users |-> [u \in AllUsers |-> IF u = nina THEN [exists |-> FALSE, pw |-> 0, verified |-> FALSE]
                               ELSE [exists |-> TRUE, pw |-> 1, verified |-> TRUE]],
   tokens |-> <<[kind |-> "reset", user |-> mary, consumed |-> FALSE, fresh |-> TRUE]>>,
   sessions |-> <<[user |-> olga, org |-> o1, live |-> TRUE], [user |-> adam, org |-> o1, live |-> TRUE],
                  [user |-> mary, org |-> o1, live |-> TRUE], [user |-> mary, org |-> NoOrg, live |-> TRUE],
                  [user |-> ivan, org |-> NoOrg, live |-> TRUE]>>,
   members |-> (o1 :> (olga :> "owner" @@ adam :> "admin" @@ mary :> "member" @@ ivan :> "none" @@ nina :> "none")
                @@ o2 :> NoRoles),
   overrides |-> (o1 :> [NoRoles EXCEPT ![adam] = "member"] @@ o2 :> NoRoles),
   invitations |-> <<[org |-> o1, user |-> ivan, role |-> "member", accepted |-> FALSE, revoked |-> FALSE,
                      fresh |-> TRUE]>>,
   keys |-> <<[org |-> o1, user |-> adam, access |-> "read_write", live |-> TRUE]>>,
   tree |-> [projects |-> <<[slug |-> 1, archived |-> FALSE, deletedAt |-> 0]>>,
             environments |-> <<Environ(1, 0, TRUE), Environ(2, 1, FALSE)>>,
             secrets |-> <<Secr(1, 0), Secr(2, 0), Secr(2, 1)>>],
   failures |-> [id \in AllUsers \cup OneIp |-> 0]]

C(op) == [Blank EXCEPT !.op = op]
By(op, s) == [C(op) EXCEPT !.sess = s]
On(op, s, u, role) == [By(op, s) EXCEPT !.who = u, !.role = role]
At(op, s, slot) == [By(op, s) EXCEPT !.slot = slot]
To(op, s, o) == [By(op, s) EXCEPT !.org = o]
Slugged(op, s, slug) == [By(op, s) EXCEPT !.slug = slug]
Env(op, s, e, wants) == [At(op, s, e) EXCEPT !.wants = wants]
LoginAs(u, pw) == [C("login") EXCEPT !.user = u, !.pw = pw, !.ip = ip1, !.org = NoOrg]

Clients ==
  { \* guessing, and logging in, beside a password reset
    {LoginAs(mary, 1), LoginAs(mary, 2), [C("resetPassword") EXCEPT !.slot = 1, !.pw = 2],
     At("expireToken", 0, 1)},
    {LoginAs(mary, 1), LoginAs(mary, 2), LoginAs(adam, 2), [C("windowEnds") EXCEPT !.user = mary],
     C("restart")},
    \* accounts come to be
    {[C("signup") EXCEPT !.user = nina, !.pw = 1], [C("resendEmailVerification") EXCEPT !.user = nina],
     [C("verifyEmail") EXCEPT !.slot = 2], LoginAs(nina, 1), By("logout", 6), By("expireSession", 6)},
    {[C("signup") EXCEPT !.user = ivan, !.pw = 2], [C("requestPasswordReset") EXCEPT !.user = mary],
     [C("resetPassword") EXCEPT !.slot = 1, !.pw = 2], [C("resetPassword") EXCEPT !.slot = 2, !.pw = 1], C("faults")},
    \* an invitation accepted, revoked, replaced, expiring
    {At("acceptInvitation", 5, 1), At("revokeInvitation", 1, 1), On("inviteMember", 2, ivan, "admin"),
     At("expireInvitation", 0, 1)},
    {At("acceptInvitation", 5, 1), On("removeMember", 1, ivan, "none"), At("acceptInvitation", 5, 2),
     On("inviteMember", 1, ivan, "admin")},
    \* a member is changed, removed, and switches organizations meanwhile
    {On("updateMember", 1, mary, "admin"), On("removeMember", 2, mary, "none"), To("switchOrganization", 3, o1),
     To("switchOrganization", 4, o1), To("createOrganization", 3, o2)},
    {On("removeMember", 1, mary, "none"), [C("resetPassword") EXCEPT !.slot = 1, !.pw = 2],
     To("switchOrganization", 4, o1), C("faults")},
    {On("updateMember", 1, adam, "member"), On("updateMember", 2, mary, "admin"), On("updateMember", 2, olga, "member"),
     On("setOverride", 1, mary, "admin"), On("removeOverride", 1, adam, "none"), On("removeMember", 1, mary, "none")},
    \* API keys
    {On("removeMember", 1, adam, "none"), [C("updateMember") EXCEPT !.key = 1, !.who = mary, !.role = "read_only"],
     At("revokeApiKey", 1, 1), By("createApiKey", 2), By("listMembers", 3),
     [C("updateSecret") EXCEPT !.key = 1, !.protected = TRUE], [C("expireApiKey") EXCEPT !.key = 1]},
    \* the pool
    {On("inviteMember", 1, ivan, "member"), On("inviteMember", 2, ivan, "admin"), On("inviteMember", 1, mary, "admin")},
    \* cascades of projects and environments
    {By("deleteProject", 1), By("restoreProject", 1), Env("deleteEnvironment", 1, 2, "confirmed"),
     Env("restoreEnvironment", 1, 2, "none")},
    \* environments come, change and move
    {Env("updateEnvironment", 1, 2, "on"), [Env("updateEnvironment", 3, 2, "none") EXCEPT !.slug = 3],
     Slugged("createEnvironment", 3, 3), [By("reorderEnvironments", 1) EXCEPT !.order = <<2, 1>>],
     [By("reorderEnvironments", 2) EXCEPT !.order = <<1, 2>>], Env("deleteEnvironment", 1, 1, "none")},
    \* projects
    {[Slugged("createProject", 3, 2) EXCEPT !.order = <<2, 1>>], Slugged("updateProject", 3, 2),
     [By("setArchived", 1) EXCEPT !.wants = "on"], By("deleteProject", 1)}
  }
=============================================================================
