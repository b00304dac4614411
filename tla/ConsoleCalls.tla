----------------------------- MODULE ConsoleCalls ---------------------------
(***************************************************************************)
(* One project as the API server keeps it, and the calls a console page    *)
(* has in flight.  The server answers calls in any order, and an answer,   *)
(* or the call itself, may be lost: the page then sees a failure of a call *)
(* whose effect it does not know.  What the server does inside one request *)
(* is the subject of SecretSystem; here a request is one step.             *)
(***************************************************************************)
EXTENDS Integers, Sequences, FiniteSets

CONSTANTS
  Envs,      \* environments, existing or to be made
  Keys,      \* secret keys, as numbers in their order
  NoEnv,     \* no environment
  PageSize,  \* secrets of a page of a listing
  MaxOthers  \* writes of other clients

ASSUME KeysAssumption == Keys \subseteq Nat /\ PageSize \in Nat

VARIABLES
  vault,   \* of each secret: who wrote each of its versions
  deleted, \* secrets that are soft-deleted
  order,   \* the project's environments, in their order
  retired, \* environments that were deleted; a new one has an id of its own
  calls,   \* calls in flight: what the page asked, and the answer once there is one
  clicks,  \* clicks so far
  others,  \* writes of other clients so far
  mix      \* what the user of this behaviour does, and how many of its clicks send a call

server == <<vault, deleted, order, retired, others>>
wire == <<calls, clicks>>

Slots == Envs \X Keys
Live == {order[i] : i \in DOMAIN order}
Present(s) == vault[s] # <<>> /\ s \notin deleted /\ s[1] \in Live
Version(s) == Len(vault[s])

\* A secret as the table shows it: its id is its slot, or temporary until the server answers.
Row(id, ver, pending) ==
  [id |-> id, env |-> id[1], key |-> id[2], ver |-> ver, pending |-> pending, conflict |-> FALSE]
View(s) == Row(s, Version(s), FALSE)

\* The list without environment e, which it names once.
Without(list, e) ==
  LET i == CHOOSE i \in DOMAIN list : list[i] = e
  IN SubSeq(list, 1, i - 1) \o SubSeq(list, i + 1, Len(list))

Put(f, x, y) == [z \in DOMAIN f \cup {x} |-> IF z = x THEN y ELSE f[z]]
Dropped(f, x) == [z \in DOMAIN f \ {x} |-> f[z]]

-----------------------------------------------------------------------------
(* Calls. *)

\* Calls the page detaches from: an effect was cleaned up or a dialog unmounted.
Detached(ops) ==
  [n \in DOMAIN calls |-> IF calls[n].ask.op \in ops THEN [calls[n] EXCEPT !.attached = FALSE] ELSE calls[n]]

FreshCall == CHOOSE n \in 1 .. Cardinality(DOMAIN calls) + 1 : n \notin DOMAIN calls

\* The calls `now`, and one more.
Sent(now, ask) ==
  Put(now, FreshCall, [ask |-> ask, attached |-> TRUE, reply |-> "none", rows |-> {}])

\* A click that sends a call.
Click == clicks < mix.clicks /\ clicks' = clicks + 1
Send(ask) == Click /\ calls' = Sent(calls, ask)

Answer(n, reply, rows) == calls' = [calls EXCEPT ![n].reply = reply, ![n].rows = rows]
Done(n) == calls[n].reply = "done"
Refuse(n, reply) == Answer(n, reply, {}) /\ UNCHANGED <<vault, deleted, order, retired>>

\* New versions of the secrets W, which are live again if they were deleted.
Write(W, writer) ==
  /\ vault' = [s \in Slots |-> IF s \in W THEN Append(vault[s], writer) ELSE vault[s]]
  /\ deleted' = deleted \ W
  /\ UNCHANGED <<order, retired>>

Written(W) == {Row(s, Version(s) + 1, FALSE) : s \in W}

-----------------------------------------------------------------------------
(* Requests of secrets, as the server answers them. *)

\* The console asks for the first page of a listing and for no other.
FirstPage(env) ==
  LET all == {s \in Slots : s[1] = env /\ Present(s)}
  IN {s \in all : Cardinality({earlier \in all : earlier[2] < s[2]}) < PageSize}

Reads(n, ask) ==
  CASE ask.op = "list" -> Answer(n, "done", {View(s) : s \in FirstPage(ask.env)})
    [] ask.op \in {"reveal", "compare"} ->
         IF ask.id \in Slots /\ Present(ask.id) THEN Answer(n, "done", {View(ask.id)}) ELSE Answer(n, "failed", {})
    [] OTHER -> Answer(n, "done", {})

ServeRead(n) ==
  /\ calls[n].ask.op \in {"list", "reveal", "compare", "preview"}
  /\ Reads(n, calls[n].ask)
  /\ UNCHANGED <<vault, deleted, order, retired>>

\* Mutant: the expected version is not compared.
ServeUpdateUnchecked(n) == LET ask == calls[n].ask IN
  /\ ask.op \in {"update", "rollback"}
  /\ IF ask.id \in Slots /\ Present(ask.id) /\ ask.replaces
     THEN Write({ask.id}, ask.writer) /\ Answer(n, "done", Written({ask.id}))
     ELSE Refuse(n, "failed")

\* An update or rollback whose If-Match is not the current version is refused.
ServeUpdate(n) == LET ask == calls[n].ask IN
  /\ ask.op \in {"update", "rollback"}
  /\ IF ask.id \in Slots /\ Present(ask.id) /\ ask.expected = Version(ask.id)
     THEN IF ask.replaces
          THEN Write({ask.id}, ask.writer) /\ Answer(n, "done", Written({ask.id}))
          ELSE Answer(n, "done", {View(ask.id)}) /\ UNCHANGED <<vault, deleted, order, retired>>
     ELSE Refuse(n, "failed")

\* Creating a key that is live is a conflict; one that was deleted comes back with its id.
ServeCreate(n) == LET ask == calls[n].ask IN
  /\ ask.op = "create"
  /\ IF ask.slot[1] \in Live /\ ~Present(ask.slot)
     THEN Write({ask.slot}, "batch") /\ Answer(n, "done", Written({ask.slot}))
     ELSE Refuse(n, "failed")

\* Mutant: keys that are new are added whether selected or not.
ImportedAddsAll(ask) ==
  {s \in {ask.env} \X ask.text.keys :
     CASE ask.strategy = "overwrite" -> TRUE
       [] ask.strategy = "skip" -> ~Present(s)
       [] ask.strategy = "merge" -> s[2] \in ask.selected \/ ~Present(s)}

\* What an import of the keys of `text` writes.
Imported(ask) ==
  {s \in {ask.env} \X ask.text.keys :
     CASE ask.strategy = "overwrite" -> TRUE
       [] ask.strategy = "skip" -> ~Present(s)
       [] ask.strategy = "merge" -> s[2] \in ask.selected}

ServeImport(n) == LET ask == calls[n].ask IN
  /\ ask.op = "import"
  /\ IF ask.env \in Live
     THEN Write(Imported(ask), "batch") /\ Answer(n, "done", Written(Imported(ask)))
     ELSE Refuse(n, "failed")

\* Promotion copies the selected keys of the source, or all of them; a selected key it lacks fails it.
Promoted(ask) == {s \in {ask.target} \X Keys :
                    Present(<<ask.source, s[2]>>) /\ (ask.keys = {} \/ s[2] \in ask.keys)}

ServePromote(n) == LET ask == calls[n].ask IN
  /\ ask.op = "promote"
  /\ IF {ask.source, ask.target} \subseteq Live /\ ask.keys \subseteq {s[2] : s \in Promoted(ask)}
     THEN Write(Promoted(ask), "batch") /\ Answer(n, "done", Written(Promoted(ask)))
     ELSE Refuse(n, "failed")

-----------------------------------------------------------------------------
(* Requests of environments. *)

Reorder(n, ids) ==
  /\ order' = ids
  /\ Answer(n, "done", {})
  /\ UNCHANGED <<vault, deleted, retired>>

\* Environments are created last, reordered when all of them are named, and
\* deleted with their secrets once that is confirmed.
ServeEnvironment(n) == LET ask == calls[n].ask IN
  \/ /\ ask.op = "envCreate"
     /\ IF ask.env \notin Live \cup retired THEN Reorder(n, Append(order, ask.env)) ELSE Refuse(n, "failed")
  \/ /\ ask.op = "envUpdate"
     /\ IF ask.env \in Live THEN Reorder(n, order) ELSE Refuse(n, "failed")
  \/ /\ ask.op = "envReorder"
     /\ IF {ask.list[i] : i \in DOMAIN ask.list} = Live THEN Reorder(n, ask.list) ELSE Refuse(n, "failed")
  \/ /\ ask.op = "envRemove"
     /\ IF ask.env \in Live /\ (ask.confirm \/ \A k \in Keys : ~Present(<<ask.env, k>>))
        THEN /\ order' = Without(order, ask.env)
             /\ deleted' = deleted \cup {s \in Slots : s[1] = ask.env /\ vault[s] # <<>>}
             /\ retired' = retired \cup {ask.env}
             /\ Answer(n, "done", {})
             /\ UNCHANGED vault
        ELSE Refuse(n, IF ask.env \in Live THEN "unconfirmed" ELSE "failed")

Serve(n) ==
  /\ calls[n].reply = "none"
  /\ \/ ServeRead(n) \/ ServeUpdate(n) \/ ServeCreate(n) \/ ServeImport(n) \/ ServePromote(n)
     \/ ServeEnvironment(n)
  /\ UNCHANGED <<clicks, others>>

\* The request or its answer is lost.
Lose(n) == Answer(n, "failed", {}) /\ UNCHANGED <<server, clicks>>

\* Another client writes or deletes a secret.
OtherWrites(s) ==
  /\ others < MaxOthers
  /\ others' = others + 1
  /\ s[1] \in Live
  /\ Write({s}, "other")
  /\ UNCHANGED wire

OtherDeletes(s) ==
  /\ others < MaxOthers
  /\ others' = others + 1
  /\ Present(s)
  /\ deleted' = deleted \cup {s}
  /\ UNCHANGED <<vault, order, retired, wire>>

=============================================================================
