--------------------------- MODULE SecretWorkspace --------------------------
(***************************************************************************)
(* The table of a project's secrets in the console: its rows, changed      *)
(* before the server has answered and put back when it refuses, the        *)
(* editor, and values revealed for fifteen seconds.                        *)
(*                                                                         *)
(* Handlers run one at a time.  A handler that awaits a call keeps what it *)
(* read before: such values are fields of the call.  Rows are a set, so    *)
(* rows that agree in every field are one.                                 *)
(***************************************************************************)
EXTENDS ConsoleCalls

VARIABLES
  shown,      \* environments the page knows, in its order
  active,     \* environment of the selected tab
  diffSource, \* baseline environment of the comparison
  rows,       \* secrets of every environment listed so far
  editor,     \* the secret editor: its mode and the row it was opened on
  revealed,   \* values on the page: secret and version
  armed       \* secrets whose remasking timer runs

table == <<shown, active, diffSource, rows, editor, revealed, armed>>

NoEditor == [mode |-> "closed", row |-> <<>>]
ShownEnvs == {shown[i] : i \in DOMAIN shown}
FirstOf(list) == IF list = <<>> THEN NoEnv ELSE list[1]

\* The environment the page writes to: that of the tab, or the first.
Environment == IF active \in ShownEnvs THEN active ELSE FirstOf(shown)

Visible == {r \in rows : r.env = active}

\* Every row with this id replaced.
Mapped(id, row) == {IF r.id = id THEN row ELSE r : r \in rows}

Masked(id) == revealed' = {v \in revealed : v[1] # id} /\ armed' = armed \ {id}

-----------------------------------------------------------------------------
(* Tabs and the list of a tab. *)

\* The effect of a tab detaches from the list of the tab before and asks for its own.
Listing(now, env) ==
  LET left == [n \in DOMAIN now |-> IF now[n].ask.op = "list" THEN [now[n] EXCEPT !.attached = FALSE] ELSE now[n]]
  IN IF env = NoEnv THEN left ELSE Sent(left, [op |-> "list", env |-> env])

SelectTab(env) ==
  /\ env \in ShownEnvs \ {active}
  /\ Click
  /\ active' = env
  /\ calls' = Listing(calls, env)
  /\ UNCHANGED <<shown, diffSource, rows, editor, revealed, armed>>

SelectSource(env) ==
  /\ env \in ShownEnvs
  /\ diffSource' = env
  /\ UNCHANGED <<wire, shown, active, rows, editor, revealed, armed>>

ListAnswered(n) ==
  /\ calls[n].ask.op = "list"
  /\ rows' = IF calls[n].attached /\ Done(n)
             THEN {r \in rows : r.env # calls[n].ask.env} \cup calls[n].rows
             ELSE rows
  /\ UNCHANGED <<shown, active, diffSource, editor, revealed, armed>>

-----------------------------------------------------------------------------
(* Revealing. *)

Reveal(r) ==
  /\ r \in Visible
  /\ IF \E v \in revealed : v[1] = r.id
     THEN Masked(r.id) /\ UNCHANGED wire
     ELSE Send([op |-> "reveal", id |-> r.id]) /\ UNCHANGED <<revealed, armed>>
  /\ UNCHANGED <<shown, active, diffSource, rows, editor>>

\* Mutant: the timer is not started.
RevealAnsweredUntimed(n) ==
  /\ calls[n].ask.op = "reveal"
  /\ revealed' = IF Done(n) THEN revealed \cup {<<calls[n].ask.id, r.ver>> : r \in calls[n].rows} ELSE revealed
  /\ UNCHANGED <<shown, active, diffSource, rows, editor, armed>>

RevealAnswered(n) ==
  /\ calls[n].ask.op = "reveal"
  /\ LET id == calls[n].ask.id IN
     IF Done(n)
     THEN /\ revealed' = {v \in revealed : v[1] # id} \cup {<<id, r.ver>> : r \in calls[n].rows}
          /\ armed' = armed \cup {id}
     ELSE UNCHANGED <<revealed, armed>>
  /\ UNCHANGED <<shown, active, diffSource, rows, editor>>

\* Fifteen seconds are over.
Remask(id) ==
  /\ id \in armed
  /\ Masked(id)
  /\ UNCHANGED <<wire, shown, active, diffSource, rows, editor>>

-----------------------------------------------------------------------------
(* The editor. *)

Opened(mode, row) ==
  /\ editor' = [mode |-> mode, row |-> row]
  /\ UNCHANGED <<shown, diffSource, rows, revealed, armed>>

OpenAdd == Opened("add", <<>>) /\ UNCHANGED <<wire, active>>
OpenEdit(r) == r \in Visible /\ Opened("edit", r) /\ UNCHANGED <<wire, active>>
CloseEditor == editor' = NoEditor /\ UNCHANGED <<wire, shown, active, diffSource, rows, revealed, armed>>

\* A cell of the health report, which may be of any age, opens the editor of
\* its environment: on the row of the secret the cell names, if there is one.
FixHealthCell(s, named) ==
  /\ s[1] \in ShownEnvs
  /\ named => vault[s] # <<>>
  /\ LET mine == {r \in rows : r.id = s} IN
     IF named /\ mine # {} THEN \E r \in mine : Opened("edit", r) ELSE Opened("add", <<>>)
  /\ active' = s[1]
  /\ IF active = s[1] THEN UNCHANGED wire ELSE Click /\ calls' = Listing(calls, s[1])

\* Saving an edit shows its outcome at once and sends the version of the row
\* the editor was opened on.  Details alone make no version.
SaveEdit(replaces) ==
  /\ editor.mode = "edit"
  /\ Environment # NoEnv
  /\ LET before == editor.row
         after == [before EXCEPT !.ver = IF replaces THEN @ + 1 ELSE @, !.pending = TRUE, !.conflict = FALSE]
     IN /\ Send([op |-> "update", id |-> before.id, expected |-> before.ver, replaces |-> replaces,
                 before |-> before, writer |-> IF before.pending THEN "guess" ELSE "edit"])
        /\ rows' = Mapped(before.id, after)
        /\ IF replaces THEN Masked(before.id) ELSE UNCHANGED <<revealed, armed>>
  /\ editor' = NoEditor
  /\ UNCHANGED <<shown, active, diffSource>>

\* Mutant: what was predicted stays when the server refuses it.
UpdateAnsweredKeeps(n) == LET ask == calls[n].ask IN
  /\ ask.op = "update"
  /\ rows' = IF Done(n)
             THEN {IF r.id = ask.id THEN saved ELSE r : r \in rows, saved \in calls[n].rows}
             ELSE {IF r.id = ask.id THEN [r EXCEPT !.pending = FALSE, !.conflict = TRUE] ELSE r : r \in rows}
  /\ UNCHANGED <<shown, active, diffSource, editor, revealed, armed>>

UpdateAnswered(n) == LET ask == calls[n].ask IN
  /\ ask.op = "update"
  /\ rows' = IF Done(n)
             THEN {IF r.id = ask.id THEN saved ELSE r : r \in rows, saved \in calls[n].rows}
             ELSE Mapped(ask.id, [ask.before EXCEPT !.conflict = TRUE])
  /\ UNCHANGED <<shown, active, diffSource, editor, revealed, armed>>

\* Mutant: a row that waits for its first version has version 0.
SaveAddUnversioned(key) ==
  /\ editor.mode = "add"
  /\ Environment # NoEnv
  /\ LET temporary == <<Environment, key, clicks>> IN
     /\ Send([op |-> "create", slot |-> <<Environment, key>>, temporary |-> temporary])
     /\ rows' = rows \cup {Row(temporary, 0, TRUE)}
  /\ editor' = NoEditor
  /\ UNCHANGED <<shown, active, diffSource, revealed, armed>>

SaveAdd(key) ==
  /\ editor.mode = "add"
  /\ Environment # NoEnv
  /\ LET temporary == <<Environment, key, clicks>> IN
     /\ Send([op |-> "create", slot |-> <<Environment, key>>, temporary |-> temporary])
     /\ rows' = rows \cup {Row(temporary, 1, TRUE)}
  /\ editor' = NoEditor
  /\ UNCHANGED <<shown, active, diffSource, revealed, armed>>

CreateAnswered(n) == LET ask == calls[n].ask IN
  /\ ask.op = "create"
  /\ rows' = IF Done(n)
             THEN {IF r.id = ask.temporary THEN saved ELSE r : r \in rows, saved \in calls[n].rows}
             ELSE {r \in rows : r.id # ask.temporary}
  /\ UNCHANGED <<shown, active, diffSource, editor, revealed, armed>>

\* Rows after an import or a promotion: a saved secret takes the place of one
\* row with its environment and key, or is appended.
Merged(saved) ==
  LET same(s) == {r \in rows : r.env = s.env /\ r.key = s.key}
      hits == {R \in SUBSET UNION {same(s) : s \in saved} :
                 \A s \in saved : Cardinality(R \cap same(s)) = IF same(s) = {} THEN 0 ELSE 1}
  IN {(rows \ R) \cup saved : R \in hits}

=============================================================================
