--------------------------- MODULE ConsoleInvariant -------------------------
(***************************************************************************)
(* The inductive invariant of a console page: what its rows, its dialogs   *)
(* and the calls in flight may say of the server, whose versions h only    *)
(* grow, and of what the page has shown as settled, which is never less.   *)
(***************************************************************************)
EXTENDS Console

Writers == {"first", "edit", "guess", "batch", "other"}
Ops == {"list", "reveal", "compare", "preview", "update", "rollback", "create", "import", "promote"} \cup EnvOps

-----------------------------------------------------------------------------
(* Rows and calls. *)

\* A settled row is of a secret the server has, at a version it has had.
Sound(r, h) ==
  /\ r \in TableRow
  /\ ~r.pending => r.id \in Slots /\ r.ver \in 1 .. Len(h[r.id])

\* A settled row has been on the page.
Seen(r, seen) == ~r.pending => <<r.id, r.ver>> \in seen

\* An update can be taken back, and only what started from a settled row counts
\* as an edit of it; an import sends keys of its preview; a list from the manager
\* names environments.
AskSound(ask, h, seen) ==
  /\ ask.op \in Ops
  /\ ask.op = "list" => ask.env \in Envs
  /\ ask.op = "update" => Sound(ask.before, h) /\ ask.before.id = ask.id
  /\ ask.op \in {"update", "rollback"} =>
       ask.writer \in {"edit", "guess"} /\ (ask.writer = "edit" => <<ask.id, ask.expected>> \in seen)
  /\ ask.op = "create" => ask.slot \in Slots
  /\ ask.op \in {"preview", "import"} => ask.text.keys \subseteq Keys
  /\ ask.op = "preview" => ask.text \in Texts
  /\ ask.op = "import" /\ ask.strategy = "merge" => ask.selected \subseteq ask.reviewed.keys
  /\ ask.op \in EnvOps => ask.env \in Envs /\ ask.list \in Seq(Envs)

\* Answers show versions the server has; an import's, keys it was asked to write.
CallSound(c, h, seen) ==
  /\ DOMAIN c = {"ask", "attached", "reply", "rows"}
  /\ c.reply \in {"none", "done", "failed", "unconfirmed"}
  /\ AskSound(c.ask, h, seen)
  /\ \A r \in c.rows : Sound(r, h) /\ ~r.pending
  /\ c.ask.op = "reveal" /\ c.rows # {} => c.ask.id \in Slots
  /\ c.ask.op = "import" /\ c.ask.strategy = "merge" => {r.key : r \in c.rows} \subseteq c.ask.reviewed.keys

\* The calls of a click, all of which but the listing a tab asks for are counted.
Counted(now) == {n \in DOMAIN now : now[n].ask.op # "list"}

CallsSound(now, count, h, seen) ==
  /\ IsFiniteSet(DOMAIN now)
  /\ \A n \in DOMAIN now : CallSound(now[n], h, seen)
  /\ Cardinality(Counted(now)) <= count

-----------------------------------------------------------------------------
(* The server and the page. *)

\* What an edit replaced has been shown.
EditsSighted(h, seen) == \A s \in Slots : \A v \in 2 .. Len(h[s]) : h[s][v] = "edit" => <<s, v - 1>> \in seen

ServerSound ==
  /\ vault \in [Slots -> Seq(Writers)]
  /\ deleted \subseteq Slots
  /\ order \in Seq(Envs) /\ retired \subseteq Envs
  /\ EditsSighted(vault, settled)

PageSound ==
  /\ shown \in Seq(Envs) /\ active \in Envs \cup {NoEnv} /\ diffSource \in Envs \cup {NoEnv}
  /\ \A r \in rows : Sound(r, vault) /\ Seen(r, settled)
  /\ DOMAIN editor = DOMAIN NoEditor
  /\ editor.mode = "edit" => Sound(editor.row, vault) /\ Seen(editor.row, settled)
  /\ DOMAIN drawer = DOMAIN NoDrawer
  /\ drawer.open => Sound(drawer.row, vault) /\ Seen(drawer.row, settled)
  /\ DOMAIN sheet = DOMAIN NoSheet
  /\ {sheet.text, sheet.preview} \subseteq Texts \cup {NoText} /\ sheet.selected \subseteq Keys
  /\ sheet.preview # NoText => sheet.selected \subseteq sheet.preview.keys
  /\ revealed \subseteq Slots \X Nat

-----------------------------------------------------------------------------
(* The tabs. *)

\* What a call of the manager proposes, made of the list on the page.
Proposes(ask, list) ==
  /\ ask.op = "envCreate" => ask.list = Append(list, ask.env)
  /\ ask.op = "envUpdate" => ask.list = list
  /\ ask.op = "envRemove" => ask.list = Without(list, ask.env)

\* While one call of the manager at a time is under way and none fails, the tabs
\* are the project's environments before the server has changed them, and the
\* proposal of the call is afterwards.
TabsFollow ==
  ~tangled =>
    /\ \A m, n \in EnvCalls(calls) : m = n
    /\ EnvCalls(calls) = {} => shown = order
    /\ \A n \in EnvCalls(calls) :
         /\ calls[n].reply # "failed"
         /\ calls[n].reply = "none" => shown = order /\ Proposes(calls[n].ask, shown)
         /\ calls[n].reply = "unconfirmed" => shown = order
         /\ calls[n].reply = "done" => order = calls[n].ask.list

ConsoleInv == clicks \in Nat /\ ServerSound /\ PageSound /\ CallsSound(calls, clicks, vault, settled) /\ TabsFollow
=============================================================================
