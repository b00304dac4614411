-------------------------------- MODULE Console -----------------------------
(***************************************************************************)
(* A console page with its user, the server and other clients: the         *)
(* composition of the table, its dialogs and the environment manager.      *)
(***************************************************************************)
EXTENDS EnvironmentManager

CONSTANTS
  Start, \* the versions of each secret and the environments to begin with
  Mixes  \* users: what they do on the page, their clicks, and the faults there are

VARIABLES
  settled, \* versions the page has shown as settled
  tangled  \* environment calls have overlapped, or one has failed

\* What there is when the page is opened, whoever wrote it; no one writes as this page did.
ASSUME StartAssumption ==
  /\ Start.vault \in [Slots -> Seq({"first", "other"})] /\ Start.deleted \subseteq Slots
  /\ Start.order \in Seq(Envs) /\ Start.order # <<>>

vars == <<server, wire, page, mix, settled, tangled>>

Does(what) == what \in mix.does

-----------------------------------------------------------------------------
(* Steps. *)

EnvCalls(now) == {n \in DOMAIN now : now[n].ask.op \in EnvOps}

\* What the page shows as settled, in its table or its history drawer.
Showing == {<<r.id, r.ver>> : r \in {r \in rows \cup (IF drawer.open THEN {drawer.row} ELSE {}) : ~r.pending}}

Watch ==
  /\ settled' = settled \cup Showing'
  /\ tangled' = (tangled \/ Cardinality(EnvCalls(calls')) > 1 \/ \E n \in EnvCalls(calls') : calls'[n].reply = "failed")
  /\ UNCHANGED mix

\* Clicks on the table, which an open dialog covers, and clicks in a dialog.
Covered == sheet.open \/ drawer.open \/ promotion.open \/ manager.open
OnTable(A) == ~Covered /\ A /\ UNCHANGED <<dialogs, manager, server>> /\ Watch
Opening(A) == ~Covered /\ A /\ UNCHANGED <<manager, server>> /\ Watch
InDialog(A) == A /\ UNCHANGED <<manager, server>> /\ Watch
InManager(A) == A /\ UNCHANGED server /\ Watch

TableClick ==
  \/ \E e \in Envs : Does("tabs") /\ OnTable(SelectTab(e))
  \/ \E e \in Envs : Does("promote") /\ OnTable(SelectSource(e))
  \/ \E r \in rows : Does("reveal") /\ OnTable(Reveal(r))
  \/ \E r \in rows : Does("edit") /\ OnTable(OpenEdit(r))
  \/ Does("add") /\ OnTable(OpenAdd)
  \/ \E s \in Slots, named \in BOOLEAN : Does("fix") /\ OnTable(FixHealthCell(s, named))
  \/ editor # NoEditor /\ OnTable(CloseEditor)
  \/ \E replaces \in BOOLEAN : OnTable(SaveEdit(replaces))
  \/ \E k \in Keys : OnTable(SaveAdd(k))

ImportClick ==
  \/ Does("import") /\ Opening(OpenImport)
  \/ InDialog(CloseImport)
  \/ \E t \in Texts : InDialog(Type(t))
  \/ InDialog(Review)
  \/ InDialog(Back)
  \/ \E strategy \in {"skip", "overwrite", "merge"} : InDialog(Choose(strategy))
  \/ \E k \in Keys : InDialog(Toggle(k))
  \/ InDialog(CommitImport)

HistoryClick ==
  \/ \E r \in rows : Does("history") /\ Opening(OpenHistory(r))
  \/ InDialog(CloseHistory)
  \/ \E reveal \in BOOLEAN : InDialog(Compare(reveal))
  \/ InDialog(RollBack)

PromotionClick ==
  \/ \E e \in Envs, S \in {{}} \cup {{k} : k \in Keys} : Does("promote") /\ Opening(OpenPromotion(e, S))
  \/ InDialog(ClosePromotion)
  \/ InDialog(CommitPromotion)

ManagerClick ==
  \/ Does("manage") /\ ~Covered /\ InManager(OpenManager)
  \/ InManager(CloseManager)
  \/ \E i, j \in DOMAIN shown : InManager(Move(i, j))
  \/ \E e \in Envs : InManager(SaveEnvironment(e))
  \/ \E e \in Envs : InManager(CreateEnvironment(e))
  \/ \E e \in Envs : InManager(RemoveEnvironment(e))

Timer(id) == Remask(id) /\ UNCHANGED <<dialogs, manager, server>> /\ Watch
ComparisonTimer == InDialog(MaskComparison)

\* The page handles an answer, or learns that there will be none.
Handled(n, A) == calls[n].reply # "none" /\ A /\ UNCHANGED <<server, clicks>> /\ Watch
InTable(n, A) == Handled(n, A /\ calls' = Dropped(calls, n) /\ UNCHANGED <<dialogs, manager>>)
ByDialog(n, A) == Handled(n, A /\ calls' = Dropped(calls, n) /\ UNCHANGED manager)

Handle(n) ==
  \/ InTable(n, ListAnswered(n))
  \/ InTable(n, RevealAnswered(n))
  \/ InTable(n, UpdateAnswered(n))
  \/ InTable(n, CreateAnswered(n))
  \/ ByDialog(n, ReviewAnswered(n))
  \/ ByDialog(n, ImportAnswered(n))
  \/ ByDialog(n, CompareAnswered(n))
  \/ ByDialog(n, RollbackAnswered(n))
  \/ ByDialog(n, PromotionAnswered(n))
  \/ Handled(n, EnvironmentAnswered(n))

Outside(A) == A /\ UNCHANGED page /\ Watch

World ==
  \/ \E n \in DOMAIN calls : Outside(Serve(n))
  \/ \E n \in DOMAIN calls : Does("loss") /\ Outside(Lose(n))
  \/ \E s \in Slots : Does("others") /\ Outside(OtherWrites(s))
  \/ \E s \in Slots : Does("others") /\ Outside(OtherDeletes(s))

Next ==
  \/ TableClick \/ ImportClick \/ HistoryClick \/ PromotionClick \/ ManagerClick
  \/ \E id \in armed : Timer(id)
  \/ ComparisonTimer
  \/ \E n \in DOMAIN calls : Handle(n)
  \/ World

\* The page is opened on the first environment and asks for its secrets.
Init ==
  /\ vault = Start.vault /\ deleted = Start.deleted
  /\ order = Start.order /\ retired = {}
  /\ clicks = 0 /\ others = 0
  /\ calls = Put(<<>>, 1, [ask |-> [op |-> "list", env |-> Start.order[1]], attached |-> TRUE,
                           reply |-> "none", rows |-> {}])
  /\ shown = Start.order /\ active = Start.order[1] /\ diffSource = Start.order[1]
  /\ rows = {} /\ editor = NoEditor /\ revealed = {} /\ armed = {}
  /\ sheet = NoSheet /\ drawer = NoDrawer /\ promotion = NoPromotion /\ manager = NoManager
  /\ mix \in Mixes
  /\ settled = {} /\ tangled = FALSE

Spec == Init /\ [][Next]_vars

\* Timers fire.
FairSpec ==
  /\ Spec
  /\ \A s \in Slots : WF_vars(Timer(s))
  /\ WF_vars(ComparisonTimer)

-----------------------------------------------------------------------------
(* Types. *)

TableRow == [id : Slots \cup (Envs \X Keys \X Nat), env : Envs, key : Keys, ver : Nat \ {0},
             pending : BOOLEAN, conflict : BOOLEAN]

\* The page holds rows, selections and dialogs of their kinds, and as many calls
\* as its clicks have sent (SecretWorkspace, EnvironmentManager).
ConsoleTypeOK ==
  /\ vault \in [Slots -> Seq({"first", "edit", "guess", "batch", "other"})]
  /\ deleted \subseteq Slots
  /\ {Live, ShownEnvs, retired} \subseteq SUBSET Envs
  /\ {active, diffSource} \subseteq Envs \cup {NoEnv}
  /\ rows \subseteq TableRow
  /\ editor.mode = "edit" => editor.row \in TableRow
  /\ drawer.open => drawer.row \in TableRow
  /\ revealed \subseteq Slots \X Nat
  /\ sheet.selected \subseteq Keys /\ {sheet.text, sheet.preview} \subseteq Texts \cup {NoText}
  /\ Cardinality({n \in DOMAIN calls : calls[n].ask.op # "list"}) <= clicks

-----------------------------------------------------------------------------
(* Promises of the table. *)

\* A row that is not pending shows a version the server has: a prediction that
\* was refused or lost never stays as if it were saved (save, finishImport,
\* finishRollback, finishPromotion).
RowsCommitted == \A r \in rows : ~r.pending => r.id \in Slots /\ r.ver \in 1 .. Version(r.id)

\* A value saved from a settled row, or rolled back from its history, replaces
\* a version the page has shown: no version of another client is overwritten
\* unseen, whatever the order of the answers (save, VersionDrawer rollback).
NoBlindOverwrite ==
  \A s \in Slots : \A v \in 2 .. Version(s) : vault[s][v] = "edit" => <<s, v - 1>> \in settled

\* Revealed values and revealed comparisons are masked again (reveal, VersionDrawer).
Remasks ==
  /\ \A s \in Slots : (\E v \in revealed : v[1] = s) ~> (\A v \in revealed : v[1] # s)
  /\ (drawer.comparison = "revealed") ~> (drawer.comparison # "revealed")

-----------------------------------------------------------------------------
(* Promises of the dialogs. *)

Imports == {n \in DOMAIN calls : calls[n].ask.op = "import" /\ Done(n)}

\* An import of selected keys writes none the user has not been shown
\* (DotenvImport commit, selectedKeys).
SelectionKept ==
  \A n \in Imports : calls[n].ask.strategy = "merge" => {r.key : r \in calls[n].rows} \subseteq calls[n].ask.reviewed.keys

\* An import writes the text that was previewed (README.md:34): the textarea
\* can still be edited while its preview is awaited, so this does not hold.
ImportReviewed == \A n \in Imports : calls[n].ask.text = calls[n].ask.reviewed

\* As long as the calls of the manager succeed one at a time, the tabs are the
\* project's environments in their order (EnvironmentManager, applyEnvironments).
TabsAgree == ~tangled /\ EnvCalls(calls) = {} => shown = order

=============================================================================
