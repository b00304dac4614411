------------------------------- MODULE Accounts -----------------------------
(***************************************************************************)
(* packages/auth and the routes in front of it: sign-up, emailed tokens,   *)
(* login with its limiter, sessions, password reset and logout.            *)
(***************************************************************************)
EXTENDS AccessTables

-----------------------------------------------------------------------------
(* The login limiter, in the memory of the server. *)

LoginIdentities(r) == {req[r].user, req[r].ip}

\* Mutant: the failure that reaches the limit does not block yet.
IsBlockedLate(ids) == \E id \in ids : failures[id] > MaxFailures

IsBlocked(ids) == \E id \in ids : failures[id] >= MaxFailures

RecordFailure(ids) == failures' = [id \in Identities |-> failures[id] + IF id \in ids THEN 1 ELSE 0]

\* Mutant: a success takes back one failure.
ClearOne(ids) == failures' = [id \in Identities |-> failures[id] - (IF id \in ids THEN 1 ELSE 0)]

Clear(ids) == failures' = [id \in Identities |-> IF id \in ids THEN 0 ELSE failures[id]]

\* The window of an identity's bucket ends.
WindowEnds(id) ==
  /\ failures[id] # 0
  /\ failures' = [failures EXCEPT ![id] = 0]
  /\ UNCHANGED <<tables, req, client>>

-----------------------------------------------------------------------------
(* Login. *)

\* POST /auth/login and /cli/login: not blocked, so the password will be looked at.
Login(r, u, pw, ip, o) ==
  /\ ~IsBlocked({u, ip})
  /\ Arrive(r, [Blank EXCEPT !.pc = "account", !.op = "login", !.user = u, !.pw = pw, !.ip = ip, !.org = o])
  /\ UNCHANGED <<tables, failures>>

\* SELECT of the account.
SelectAccount(r) ==
  /\ req[r].pc = "account"
  /\ FreeConnection
  /\ Put(r, [req[r] EXCEPT !.pc = "verify", !.hash = users[req[r].user].pw,
                           !.verified = users[req[r].user].verified])
  /\ UNCHANGED <<tables, failures, client>>

\* The asynchronous Argon2 check answers.
VerifyPassword(r) ==
  /\ req[r].pc = "verify"
  /\ \/ /\ req[r].hash # req[r].pw
        /\ RecordFailure(LoginIdentities(r))
        /\ End(r)
     \/ /\ req[r].hash = req[r].pw
        /\ Clear(LoginIdentities(r))
        /\ IF req[r].verified THEN Goto(r, "session") ELSE End(r)
  /\ UNCHANGED <<tables, client>>

\* INSERT INTO sessions.
InsertSession(r) ==
  /\ req[r].pc = "session"
  /\ FreeConnection
  /\ sessions' = Append(sessions, [user |-> req[r].user, org |-> NoOrg, live |-> TRUE])
  /\ Put(r, [req[r] EXCEPT !.pc = "authenticate", !.sess = Len(sessions) + 1])
  /\ UNCHANGED <<users, tokens, members, overrides, invitations, keys, tree, failures, client>>

\* The organization the new session starts in: the one asked for, or the only one.
SelectOrganization(r) ==
  LET options == {o \in Orgs : members[o][req[r].user] # "none"} IN
  /\ req[r].pc = "options"
  /\ FreeConnection
  /\ \/ \E o \in options :
          /\ req[r].org = o \/ (req[r].org = NoOrg /\ options = {o})
          /\ Put(r, [req[r] EXCEPT !.pc = "enter", !.org = o])
     \/ /\ (req[r].org = NoOrg /\ Cardinality(options) # 1) \/ req[r].org \in Orgs \ options
        /\ End(r)
  /\ UNCHANGED <<tables, failures, client>>

-----------------------------------------------------------------------------
(* Sessions. *)

\* Where a handler goes on once its session is authenticated.
AfterSession(op) ==
  CASE op = "login" -> "options" [] op = "logout" -> "revoke" [] op = "createOrganization" -> "create"
    [] op = "acceptInvitation" -> "resolve" [] OTHER -> "enter"

\* AuthService.authenticate: SELECT of the session.  A tenant route takes its
\* organization from the session, and ends if there is none.
Authenticate(r) ==
  /\ req[r].pc = "authenticate"
  /\ FreeConnection
  /\ IF sessions[req[r].sess].live
     THEN Put(r, [req[r] EXCEPT !.pc = "touch", !.user = sessions[req[r].sess].user,
                    !.org = IF req[r].op \in DOMAIN RoutePermission THEN sessions[req[r].sess].org ELSE @])
     ELSE End(r)
  /\ UNCHANGED <<tables, failures, client>>

\* UPDATE sessions SET last_seen_at, which waits for the session's row.
Touch(r) ==
  /\ req[r].pc = "touch"
  /\ FreeConnection
  /\ Free(r, SessionRow(req[r].sess))
  /\ IF req[r].op \in DOMAIN RoutePermission /\ req[r].org = NoOrg
     THEN End(r)
     ELSE Goto(r, AfterSession(req[r].op))
  /\ UNCHANGED <<tables, failures, client>>

\* A request whose handler starts from its session cookie.
BySession(r, op, s, locals) ==
  /\ Arrive(r, [locals EXCEPT !.pc = "authenticate", !.op = op, !.sess = s])
  /\ UNCHANGED <<tables, failures>>

Logout(r, s) == BySession(r, "logout", s, Blank)

\* UPDATE sessions SET revoked_at.
RevokeSession(r) ==
  /\ req[r].pc = "revoke"
  /\ FreeConnection
  /\ Free(r, SessionRow(req[r].sess))
  /\ sessions' = [sessions EXCEPT ![req[r].sess].live = FALSE]
  /\ End(r)
  /\ UNCHANGED <<users, tokens, members, overrides, invitations, keys, tree, failures, client>>

\* Mutant: only sessions in use lose their organization.
MatchingLive(r, s) ==
  IF req[r].op = "resetPassword"
  THEN sessions[s].user = req[r].user /\ sessions[s].live
  ELSE sessions[s].user = req[r].who /\ sessions[s].org = req[r].org /\ sessions[s].live

\* An UPDATE of many sessions first finds the rows, then locks them one by one.
Matching(r, s) ==
  IF req[r].op = "resetPassword"
  THEN sessions[s].user = req[r].user /\ sessions[s].live
  ELSE sessions[s].user = req[r].who /\ sessions[s].org = req[r].org

FindSessions(r) ==
  /\ req[r].pc = "find"
  /\ Put(r, [req[r] EXCEPT !.pc = "sessions", !.todo = {s \in DOMAIN sessions : Matching(r, s)}])
  /\ UNCHANGED <<tables, failures, client>>

LockSession(r) ==
  /\ req[r].pc = "sessions"
  /\ \E s \in req[r].todo :
       /\ Free(r, SessionRow(s))
       /\ Put(r, [req[r] EXCEPT !.todo = @ \ {s}, !.locks = @ \cup {SessionRow(s)}])
  /\ UNCHANGED <<tables, failures, client>>

\* The rows the UPDATE changes: found, locked, and still matching.
Updated(r) == {s \in DOMAIN sessions : SessionRow(s) \in req[r].locks /\ Matching(r, s)}

ExpireSession(s) ==
  /\ sessions[s].live
  /\ sessions' = [sessions EXCEPT ![s].live = FALSE]
  /\ UNCHANGED <<users, tokens, members, overrides, invitations, keys, tree, failures, req, client>>

-----------------------------------------------------------------------------
(* Sign-up and emailed tokens.  Delivery never fails a request. *)

Signup(r, u, pw) ==
  /\ Arrive(r, [Blank EXCEPT !.pc = "signup", !.op = "signup", !.user = u, !.pw = pw])
  /\ UNCHANGED <<tables, failures>>

\* INSERT of the account and its verification token, or EMAIL_EXISTS.
InsertAccount(r) ==
  /\ req[r].pc = "signup"
  /\ FreeConnection
  /\ IF users[req[r].user].exists
     THEN UNCHANGED <<users, tokens>>
     ELSE /\ users' = [users EXCEPT ![req[r].user] = [exists |-> TRUE, pw |-> req[r].pw, verified |-> FALSE]]
          /\ tokens' = Append(tokens, [kind |-> "verify", user |-> req[r].user, consumed |-> FALSE, fresh |-> TRUE])
  /\ End(r)
  /\ UNCHANGED <<sessions, members, overrides, invitations, keys, tree, failures, client>>

\* requestPasswordReset and resendEmailVerification.
RequestToken(r, op, u) ==
  /\ op \in {"requestPasswordReset", "resendEmailVerification"}
  /\ Arrive(r, [Blank EXCEPT !.pc = "lookup", !.op = op, !.user = u])
  /\ UNCHANGED <<tables, failures>>

\* SELECT of the account: an unknown one, or one verified already, is ignored.
LookupAccount(r) ==
  /\ req[r].pc = "lookup"
  /\ FreeConnection
  /\ IF users[req[r].user].exists /\ (req[r].op = "resendEmailVerification" => ~users[req[r].user].verified)
     THEN Goto(r, "issue")
     ELSE End(r)
  /\ UNCHANGED <<tables, failures, client>>

IssueToken(r) ==
  /\ req[r].pc = "issue"
  /\ FreeConnection
  /\ tokens' = Append(tokens, [kind |-> IF req[r].op = "requestPasswordReset" THEN "reset" ELSE "verify",
                               user |-> req[r].user, consumed |-> FALSE, fresh |-> TRUE])
  /\ End(r)
  /\ UNCHANGED <<users, sessions, members, overrides, invitations, keys, tree, failures, client>>

\* A token comes back.
UseToken(r, op, t, pw) ==
  /\ tokens[t].kind = IF op = "resetPassword" THEN "reset" ELSE "verify"
  /\ op \in {"resetPassword", "verifyEmail"}
  /\ Arrive(r, [Blank EXCEPT !.pc = "begin", !.op = op, !.slot = t, !.pw = pw])
  /\ UNCHANGED <<tables, failures>>

\* BEGIN of a transaction outside withOrg, or of an acceptance.
BeginWork(r) ==
  /\ req[r].pc = "begin"
  /\ Connect(r, [req[r] EXCEPT !.pc = IF req[r].op = "acceptInvitation" THEN "invitation" ELSE "token"])
  /\ UNCHANGED <<tables, failures, client>>

\* Mutant: SELECT without FOR UPDATE.
LockTokenPlain(r) ==
  /\ req[r].pc = "token"
  /\ IF Usable(req[r].slot)
     THEN Put(r, [req[r] EXCEPT !.pc = "user", !.user = tokens[req[r].slot].user])
     ELSE End(r)
  /\ UNCHANGED <<tables, failures, client>>

\* SELECT ... FOR UPDATE of a token neither consumed nor expired.
LockToken(r) ==
  /\ req[r].pc = "token"
  /\ Free(r, TokenRow(req[r].slot))
  /\ IF Usable(req[r].slot)
     THEN Put(r, [req[r] EXCEPT !.pc = "user", !.user = tokens[req[r].slot].user,
                                !.locks = @ \cup {TokenRow(req[r].slot)}])
     ELSE End(r)
  /\ UNCHANGED <<tables, failures, client>>

\* UPDATE users SET email_verified_at, UPDATE of the token, COMMIT.
VerifyEmail(r) ==
  /\ req[r].pc = "user" /\ req[r].op = "verifyEmail"
  /\ Free(r, UserRow(req[r].user))
  /\ users' = [users EXCEPT ![req[r].user].verified = TRUE]
  /\ tokens' = [tokens EXCEPT ![req[r].slot].consumed = TRUE]
  /\ End(r)
  /\ UNCHANGED <<sessions, members, overrides, invitations, keys, tree, failures, client>>

\* UPDATE users SET password_hash.
LockAccount(r) ==
  /\ req[r].pc = "user" /\ req[r].op = "resetPassword"
  /\ Lock(r, UserRow(req[r].user), "find")
  /\ UNCHANGED <<tables, failures, client>>

\* UPDATE sessions SET revoked_at done, UPDATE of the token, COMMIT.
ResetPassword(r) ==
  /\ req[r].pc = "sessions" /\ req[r].op = "resetPassword" /\ req[r].todo = {}
  /\ users' = [users EXCEPT ![req[r].user].pw = req[r].pw]
  /\ sessions' = [s \in DOMAIN sessions |->
                    IF s \in Updated(r) THEN [sessions[s] EXCEPT !.live = FALSE] ELSE sessions[s]]
  /\ tokens' = [tokens EXCEPT ![req[r].slot].consumed = TRUE]
  /\ End(r)
  /\ UNCHANGED <<members, overrides, invitations, keys, tree, failures, client>>

ExpireToken(t) ==
  /\ tokens[t].fresh
  /\ tokens' = [tokens EXCEPT ![t].fresh = FALSE]
  /\ UNCHANGED <<users, sessions, members, overrides, invitations, keys, tree, failures, req, client>>

-----------------------------------------------------------------------------

AccountStep(r) ==
  \/ SelectAccount(r) \/ VerifyPassword(r) \/ InsertSession(r) \/ SelectOrganization(r)
  \/ Authenticate(r) \/ Touch(r) \/ RevokeSession(r) \/ FindSessions(r) \/ LockSession(r)
  \/ InsertAccount(r) \/ LookupAccount(r) \/ IssueToken(r)
  \/ BeginWork(r) \/ LockToken(r) \/ VerifyEmail(r) \/ LockAccount(r) \/ ResetPassword(r)
=============================================================================
