-------------------------- MODULE EnvironmentManager ------------------------
(***************************************************************************)
(* The dialog that manages a project's environments.  Its handlers close   *)
(* over the list, the tab and the baseline of the moment of the click, and *)
(* what they put on the page when the server has answered is made of that  *)
(* list: those three are fields of the call.                               *)
(***************************************************************************)
EXTENDS ConsoleDialogs

VARIABLE manager \* the dialog: open, busy, the environment whose deletion was refused unconfirmed

page == <<table, dialogs, manager>>

NoManager == [open |-> FALSE, busy |-> FALSE, force |-> NoEnv]
EnvOps == {"envCreate", "envUpdate", "envReorder", "envRemove"}

Manager(new) == manager' = new /\ UNCHANGED <<table, dialogs>>

OpenManager == Manager([NoManager EXCEPT !.open = TRUE]) /\ UNCHANGED wire

CloseManager ==
  /\ manager.open
  /\ Manager(NoManager)
  /\ calls' = Detached(EnvOps)
  /\ UNCHANGED clicks

\* A call of the manager about env, and the list the page gets once it succeeds.
Run(op, env, list, confirm) ==
  /\ manager.open /\ ~manager.busy
  /\ Send([op |-> op, env |-> env, list |-> list, confirm |-> confirm, tab |-> active, source |-> diffSource])
  /\ Manager([manager EXCEPT !.busy = TRUE])

\* The environment at i changes places with its neighbour at j.
Move(i, j) ==
  /\ {i, j} \subseteq DOMAIN shown /\ (j = i + 1 \/ j = i - 1)
  /\ Run("envReorder", shown[i], [shown EXCEPT ![i] = shown[j], ![j] = shown[i]], FALSE)

SaveEnvironment(e) == e \in ShownEnvs /\ Run("envUpdate", e, shown, FALSE)

\* Mutant: the new environment is shown first.
CreateEnvironmentFirst(e) == e \notin ShownEnvs \cup retired /\ Run("envCreate", e, <<e>> \o shown, FALSE)

CreateEnvironment(e) == e \notin ShownEnvs \cup retired /\ Run("envCreate", e, Append(shown, e), FALSE)

\* Deleting is confirmed to the server when the table holds secrets of the
\* environment, or when the server has refused before.
RemoveEnvironment(e) ==
  /\ e \in ShownEnvs /\ Len(shown) > 1
  /\ Run("envRemove", e, Without(shown, e), manager.force = e \/ \E r \in rows : r.env = e)

\* A list from the manager drops the rows of environments that are gone and
\* repairs the tab and the baseline if the ones of the click are gone.
ApplyEnvironments(list, tab, source, rest) ==
  LET ids == {list[i] : i \in DOMAIN list} IN
  /\ shown' = list
  /\ rows' = {r \in rows : r.env \in ids}
  /\ active' = IF tab \in ids THEN active ELSE FirstOf(list)
  /\ diffSource' = IF source \in ids THEN diffSource ELSE FirstOf(list)
  /\ promotion' = IF source \in ids THEN promotion ELSE NoPromotion
  /\ calls' = IF active' = active THEN rest ELSE Listing(rest, active')
  /\ UNCHANGED <<editor, revealed, armed, sheet, drawer>>

EnvironmentAnswered(n) == LET ask == calls[n].ask IN
  /\ ask.op \in EnvOps
  /\ IF Done(n)
     THEN ApplyEnvironments(ask.list, ask.tab, ask.source, Dropped(calls, n))
     ELSE calls' = Dropped(calls, n) /\ UNCHANGED <<table, dialogs>>
  /\ manager' = IF ~calls[n].attached THEN manager
                ELSE IF Done(n)
                THEN [manager EXCEPT !.busy = FALSE, !.force = IF ask.op = "envRemove" THEN NoEnv ELSE @]
                ELSE [manager EXCEPT !.busy = FALSE, !.force = IF ask.op = "envRemove" /\ calls[n].reply = "unconfirmed" THEN ask.env ELSE @]

=============================================================================
