----------------------------- MODULE AccessTables ---------------------------
(***************************************************************************)
(* The rows the access packages share, the requests of the API server with *)
(* the row locks and pooled connections they hold, and the counters of the *)
(* login limiter.                                                          *)
(*                                                                         *)
(* A transaction's writes become visible at its COMMIT, which is one step  *)
(* with its last statement; before that it is known to others by the row   *)
(* locks it holds.                                                         *)
(***************************************************************************)
EXTENDS Authz, FiniteSets, Sequences

CONSTANTS
  Users,       \* accounts, by their email address
  Orgs,        \* organizations, by their slug
  Ips,         \* addresses clients log in from
  Passwords,   \* passwords, as numbers
  Requests,    \* requests the server works on at a time
  NoUser,      \* no account
  NoOrg,       \* no organization
  PoolSize,    \* connections of the pool
  MaxFailures, \* failed logins before an identity is blocked
  MaxEnvironments, \* live environments of a project
  MaxOps       \* requests of a behaviour

ASSUME PoolAssumption == PoolSize \in Nat /\ MaxFailures \in Nat \ {0} /\ MaxOps \in Nat /\ MaxEnvironments \in Nat
ASSUME PasswordsAssumption == Passwords \subseteq Nat \ {0}
ASSUME NoneAssumption == NoUser \notin Users /\ NoOrg \notin Orgs
ASSUME RequestsAssumption == IsFiniteSet(Requests)

VARIABLES
  users,       \* of each account: exists, its password and whether its address is verified
  tokens,      \* emailed tokens: kind, account, consumed, fresh (not expired)
  sessions,    \* sessions: account, active organization, live (neither revoked nor expired)
  members,     \* of each organization and account: its role, or "none"
  overrides,   \* of each organization and account: its role in the organization's project, or "none"
  invitations, \* invitations: organization, invited account, role, accepted, revoked, fresh (not expired)
  tree,        \* projects of the first organization, their environments and secrets
  keys,        \* API keys: organization, creator, access, live (neither revoked nor expired)
  failures,    \* of each identity of the limiter: failed logins in its window
  req,         \* of each request: where it is, its locals, its locks and connections
  ops,         \* requests so far
  mix          \* the calls clients make in this behaviour

tables == <<users, tokens, sessions, members, overrides, invitations, keys, tree>>
client == <<ops, mix>>
vars == <<tables, failures, req, client>>

User == [exists : BOOLEAN, pw : Nat, verified : BOOLEAN]
Token == [kind : {"verify", "reset"}, user : Users, consumed : BOOLEAN, fresh : BOOLEAN]
Session == [user : Users, org : Orgs \cup {NoOrg}, live : BOOLEAN]
Invitation == [org : Orgs, user : Users, role : ProjectOverrideRoles,
               accepted : BOOLEAN, revoked : BOOLEAN, fresh : BOOLEAN]
Key == [org : Orgs, user : Users, access : {"read_only", "read_write"}, live : BOOLEAN]
Project == [slug : Nat \ {0}, archived : BOOLEAN, deletedAt : Nat]
Environment == [project : Nat, slug : Nat \ {0}, order : Nat, protected : BOOLEAN, deletedAt : Nat, byProject : Nat]
Secret == [environment : Nat, deletedAt : Nat, byEnvironment : Nat, byProject : Nat]
Identities == Users \cup Ips

\* A token can still be consumed.
Usable(t) == ~tokens[t].consumed /\ tokens[t].fresh

\* Accepting or revoking is still possible; accepting asks for freshness too.
Pending(i) == ~invitations[i].accepted /\ ~invitations[i].revoked
Open(i) == Pending(i) /\ invitations[i].fresh

-----------------------------------------------------------------------------
(* Requests. *)

\* The locals of a request at rest.  user is the account logged in or acting,
\* who the other account concerned, slot the token, invitation or key; pw is the password given, or the new
\* one; hash and verified are the row login read; actor is the role a member
\* change read for its actor; todo are the rows an UPDATE still waits for.  slot,
\* with project, is an environment too; slug, order and wants are what the
\* request asks of it, stamp is the deletion time it read or chose; 0 is none.
Blank == [pc |-> "idle", op |-> "none", user |-> NoUser, sess |-> 0, key |-> 0, org |-> NoOrg, who |-> NoUser,
          slot |-> 0, role |-> "none", protected |-> FALSE, pw |-> 0, ip |-> NoUser, hash |-> 0, verified |-> FALSE,
          actor |-> "none", target |-> "none",
          project |-> 1, slug |-> 0, order |-> <<>>, wants |-> "none", stamp |-> 0, todo |-> {}, locks |-> {}, conns |-> 0]

Put(r, locals) == req' = [req EXCEPT ![r] = locals]
Goto(r, label) == req' = [req EXCEPT ![r].pc = label]

\* A request arrives.
Arrive(r, locals) ==
  /\ req[r].pc = "idle"
  /\ ops < MaxOps
  /\ ops' = ops + 1
  /\ Put(r, locals)
  /\ UNCHANGED mix

\* Mutant: an error path that forgets to release its client.
EndLeaking(r) == req' = [req EXCEPT ![r] = [Blank EXCEPT !.conns = req[r].conns]]

\* The answer is sent; whatever ran is rolled back, and its client released.
End(r) == req' = [req EXCEPT ![r] = Blank]

\* COMMIT and release, with more work of the same handler to come.
Leave(r, label) == Put(r, [req[r] EXCEPT !.pc = label, !.locks = {}, !.conns = 0])

-----------------------------------------------------------------------------
(* The connection pool. *)

Busy == {c \in Requests \X (1 .. 2) : c[2] <= req[c[1]].conns}

\* pool.connect() or pool.query() finds a connection; both wait for ever.
FreeConnection == Cardinality(Busy) < PoolSize

\* pool.connect() and BEGIN.
Connect(r, locals) ==
  /\ FreeConnection
  /\ Put(r, [locals EXCEPT !.conns = @ + 1])

-----------------------------------------------------------------------------
(* Row locks. *)

TokenRow(t)      == <<"token", t>>
UserRow(u)       == <<"user", u>>
SessionRow(s)    == <<"session", s>>
MemberRow(o, u)  == <<"member", <<o, u>>>>
InvitationRow(i) == <<"invitation", i>>
KeyRow(k)        == <<"key", k>>
ProjectRow(p)     == <<"project", p>>
EnvironmentRow(e) == <<"environment", e>>
SecretRow(s)      == <<"secret", s>>

\* No other request holds the row.
Free(r, row) == \A q \in Requests \ {r} : row \notin req[q].locks

\* The statement of r that locks row finds it free, and r goes on.
Lock(r, row, label) ==
  /\ Free(r, row)
  /\ Put(r, [req[r] EXCEPT !.pc = label, !.locks = @ \cup {row}])
=============================================================================
