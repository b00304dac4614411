---------------------------- MODULE ConsoleDialogs --------------------------
(***************************************************************************)
(* The dialogs over the table: import, version history and promotion.  A   *)
(* dialog covers the table; closing one detaches it from its calls, whose  *)
(* answers still reach the table.  Choosing a file is typing its text.     *)
(***************************************************************************)
EXTENDS SecretWorkspace

CONSTANT Texts \* what a user pastes: its name and the keys it assigns

ASSUME TextsAssumption == \A text \in Texts : text.keys \subseteq Keys

VARIABLES
  sheet,    \* the import dialog
  drawer,   \* the version history
  promotion \* the promotion dialog

dialogs == <<sheet, drawer, promotion>>

NoText == [name |-> "none", keys |-> {}]
NoSheet == [open |-> FALSE, text |-> NoText, preview |-> NoText, strategy |-> "skip", selected |-> {}, busy |-> FALSE]
NoDrawer == [open |-> FALSE, row |-> <<>>, comparison |-> "none", busy |-> FALSE]
NoPromotion == [open |-> FALSE, source |-> NoEnv, target |-> NoEnv, keys |-> {}, busy |-> FALSE]

-----------------------------------------------------------------------------
(* Import. *)

Sheet(new) == sheet' = new /\ UNCHANGED <<table, drawer, promotion>>

OpenImport == Environment # NoEnv /\ Sheet([NoSheet EXCEPT !.open = TRUE]) /\ UNCHANGED wire

CloseImport ==
  /\ sheet.open
  /\ Sheet(NoSheet)
  /\ calls' = Detached({"preview", "import"})
  /\ UNCHANGED clicks

\* The text is on the page as long as there is no preview, while one is awaited too.
Type(text) ==
  /\ sheet.open /\ sheet.preview = NoText /\ sheet.text # text
  /\ Sheet([sheet EXCEPT !.text = text])
  /\ UNCHANGED wire

Review ==
  /\ sheet.open /\ sheet.preview = NoText /\ sheet.text # NoText /\ ~sheet.busy
  /\ Send([op |-> "preview", text |-> sheet.text])
  /\ Sheet([sheet EXCEPT !.busy = TRUE])

ReviewAnswered(n) ==
  /\ calls[n].ask.op = "preview"
  /\ IF ~calls[n].attached THEN Sheet(sheet)
     ELSE IF ~Done(n) THEN Sheet([sheet EXCEPT !.busy = FALSE])
     ELSE Sheet([sheet EXCEPT !.busy = FALSE, !.preview = calls[n].ask.text, !.selected = calls[n].ask.text.keys])

Back == sheet.preview # NoText /\ Sheet([sheet EXCEPT !.preview = NoText]) /\ UNCHANGED wire

Choose(strategy) ==
  /\ sheet.preview # NoText /\ sheet.strategy # strategy
  /\ Sheet([sheet EXCEPT !.strategy = strategy])
  /\ UNCHANGED wire

Toggle(k) ==
  /\ sheet.strategy = "merge" /\ k \in sheet.preview.keys
  /\ Sheet([sheet EXCEPT !.selected = IF k \in @ THEN @ \ {k} ELSE @ \cup {k}])
  /\ UNCHANGED wire

\* The call carries the text of the dialog; what was previewed is kept beside it.
CommitImport ==
  /\ sheet.preview # NoText /\ ~sheet.busy /\ Environment # NoEnv
  /\ sheet.strategy = "merge" => sheet.selected # {}
  /\ Send([op |-> "import", env |-> Environment, text |-> sheet.text, strategy |-> sheet.strategy,
           selected |-> IF sheet.strategy = "merge" THEN sheet.selected ELSE {}, reviewed |-> sheet.preview])
  /\ Sheet([sheet EXCEPT !.busy = TRUE])

ImportAnswered(n) ==
  /\ calls[n].ask.op = "import"
  /\ IF Done(n)
     THEN /\ rows' \in Merged(calls[n].rows)
          /\ sheet' = NoSheet
          /\ UNCHANGED <<shown, active, diffSource, editor, revealed, armed, drawer, promotion>>
     ELSE Sheet(IF calls[n].attached THEN [sheet EXCEPT !.busy = FALSE] ELSE sheet)

-----------------------------------------------------------------------------
(* Version history. *)

Drawer(new) == drawer' = new /\ UNCHANGED <<table, sheet, promotion>>

OpenHistory(r) ==
  /\ r \in Visible
  /\ Drawer([NoDrawer EXCEPT !.open = TRUE, !.row = r])
  /\ UNCHANGED wire

CloseHistory ==
  /\ drawer.open
  /\ Drawer(NoDrawer)
  /\ calls' = Detached({"compare", "rollback"})
  /\ UNCHANGED clicks

Compare(reveal) ==
  /\ drawer.open /\ ~drawer.busy
  /\ reveal => drawer.comparison = "masked"
  /\ Send([op |-> "compare", id |-> drawer.row.id, reveal |-> reveal])
  /\ Drawer([drawer EXCEPT !.busy = TRUE])

CompareAnswered(n) ==
  /\ calls[n].ask.op = "compare"
  /\ IF ~calls[n].attached THEN Drawer(drawer)
     ELSE IF ~Done(n) THEN Drawer([drawer EXCEPT !.busy = FALSE])
     ELSE Drawer([drawer EXCEPT !.busy = FALSE,
                                !.comparison = IF calls[n].ask.reveal THEN "revealed" ELSE "masked"])

\* "Mask now", or fifteen seconds are over.
MaskComparison ==
  /\ drawer.comparison = "revealed"
  /\ Drawer([drawer EXCEPT !.comparison = "masked"])
  /\ UNCHANGED wire

\* The timeline offers every version that was not current when it was loaded.
RollBack ==
  /\ drawer.open /\ ~drawer.busy
  /\ drawer.row.id \in Slots /\ Version(drawer.row.id) > 1
  /\ Send([op |-> "rollback", id |-> drawer.row.id, expected |-> drawer.row.ver, replaces |-> TRUE,
           writer |-> IF drawer.row.pending THEN "guess" ELSE "edit"])
  /\ Drawer([drawer EXCEPT !.busy = TRUE])

\* A rollback's answer shows the history of its secret, whatever is open by then.
RollbackAnswered(n) == LET ask == calls[n].ask IN
  /\ ask.op = "rollback"
  /\ IF Done(n)
     THEN \E saved \in calls[n].rows :
            /\ rows' = Mapped(ask.id, saved)
            /\ drawer' = IF calls[n].attached THEN [NoDrawer EXCEPT !.open = TRUE, !.row = saved]
                         ELSE [drawer EXCEPT !.open = TRUE, !.row = saved]
            /\ UNCHANGED <<shown, active, diffSource, editor, revealed, armed, sheet, promotion>>
     ELSE Drawer(IF calls[n].attached THEN [drawer EXCEPT !.busy = FALSE] ELSE drawer)

-----------------------------------------------------------------------------
(* Promotion. *)

Promotion(new) == promotion' = new /\ UNCHANGED <<table, sheet, drawer>>

\* One key, or with no key named all of them, of a comparison that listed some.
OpenPromotion(target, selected) ==
  /\ target \in ShownEnvs \ {diffSource}
  /\ \E k \in Keys : vault[<<diffSource, k>>] # <<>> /\ (selected = {} \/ selected = {k})
  /\ Promotion([NoPromotion EXCEPT !.open = TRUE, !.source = diffSource, !.target = target, !.keys = selected])
  /\ UNCHANGED wire

ClosePromotion ==
  /\ promotion.open
  /\ Promotion(NoPromotion)
  /\ calls' = Detached({"promote"})
  /\ UNCHANGED clicks

CommitPromotion ==
  /\ promotion.open /\ ~promotion.busy
  /\ Send([op |-> "promote", source |-> promotion.source, target |-> promotion.target, keys |-> promotion.keys])
  /\ Promotion([promotion EXCEPT !.busy = TRUE])

PromotionAnswered(n) ==
  /\ calls[n].ask.op = "promote"
  /\ IF Done(n)
     THEN /\ rows' \in Merged(calls[n].rows)
          /\ promotion' = NoPromotion
          /\ UNCHANGED <<shown, active, diffSource, editor, revealed, armed, sheet, drawer>>
     ELSE Promotion(IF calls[n].attached THEN [promotion EXCEPT !.busy = FALSE] ELSE promotion)

=============================================================================
