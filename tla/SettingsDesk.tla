---------------------------- MODULE SettingsDesk ----------------------------
(***************************************************************************)
(* The dashboard page's Sender info and Rates tabs: a list of settings,    *)
(* and above it one form that adds a setting or edits the one chosen in    *)
(* the list (src/src/api/admin/page.ts).  The two tabs are alike and       *)
(* separate; one is modelled.  What the server does with an edit, await by *)
(* await, is in Settings; here it is one step.                             *)
(*                                                                         *)
(* Lists are answered in any order, and one that is answered while another *)
(* tab is open is kept but not drawn.  What is typed is not a state of its *)
(* own: a save sends whatever the fields may hold by then.                 *)
(***************************************************************************)
EXTENDS Integers, Sequences, SequencesExt

CONSTANTS SettingKeys,  \* (ramp type, currency, rail), or (fiat, side)
          Texts,        \* names, or markups
          None,
          MaxAsks,      \* bound: requests in flight
          MaxClicks,    \* bound: what the operator clicks in one behaviour
          MaxOthers     \* bound: edits that other operators make

VARIABLES
    stored,  \* the rows; how many writes made them so, how many by others
    sheet,   \* siState or rmState, and what of it is drawn
    asks,    \* the requests in flight, oldest first
    clicks

sheetVars == <<stored, sheet, asks>>

NoRow == [id |-> None, text |-> None]
NoRows == [rows |-> [k \in SettingKeys |-> NoRow], version |-> 0]

(* The form: of a row, whose key it keeps, or (None) of a new setting. *)
NewForm == [of |-> None, key |-> None]

Ask(op, key, id, text) ==
    [op |-> op, key |-> key, id |-> id, text |-> text, reply |-> None,
     view |-> NoRows, late |-> FALSE]
AskList == Ask("list", None, None, None)

(* `drawn` is what the page shows of `list`; `acked` and `crossed` are     *)
(* history: the write that the last answer to an edit here was sure to     *)
(* follow, and whether the list drawn is one that a later one overtook.    *)
SheetInit ==
    /\ stored = [rows |-> [k \in SettingKeys |->
                              [id |-> <<k, 0>>, text |-> CHOOSE t \in Texts : TRUE]],
                 version |-> 0, others |-> 0]
    /\ sheet = [away |-> TRUE, shown |-> FALSE, list |-> NoRows, drawn |-> NoRows,
                editing |-> None, form |-> NewForm, acked |-> 0, crossed |-> FALSE]
    /\ asks = << >>

Click == clicks < MaxClicks /\ clicks' = clicks + 1
Send(c) == Len(asks) < MaxAsks /\ asks' = Append(asks, c)
Here == ~sheet.away /\ sheet.shown

RowOf(rows, id) == {k \in SettingKeys : id # None /\ rows[k].id = id}

(* renderSenderInfo, renderRates: nothing while another tab is open;       *)
(* otherwise the form is of the row being edited if there still is one.    *)
Render(s) ==
    IF s.away THEN s
    ELSE LET of == RowOf(s.list.rows, s.editing)
             id == IF of = {} THEN None ELSE s.editing
         IN  [s EXCEPT !.editing = id, !.drawn = s.list, !.shown = TRUE,
                       !.form = IF id = None THEN NewForm
                                ELSE [of |-> id, key |-> CHOOSE k \in of : TRUE]]

-----------------------------------------------------------------------------
(* What the operator does. *)

(* Opening the tab, and Reload: the list is asked for. *)
EnterTab ==
    /\ sheet.away
    /\ Click
    /\ sheet' = [sheet EXCEPT !.away = FALSE]
    /\ Send(AskList)
    /\ UNCHANGED stored

ReloadList ==
    /\ ~sheet.away
    /\ Click
    /\ Send(AskList)
    /\ UNCHANGED <<stored, sheet>>

LeaveTab ==
    /\ ~sheet.away
    /\ Click
    /\ sheet' = [sheet EXCEPT !.away = TRUE]
    /\ UNCHANGED <<stored, asks>>

StartEdit(k) ==
    /\ Here /\ sheet.drawn.rows[k] # NoRow
    /\ Click
    /\ sheet' = Render([sheet EXCEPT !.editing = sheet.drawn.rows[k].id])
    /\ UNCHANGED <<stored, asks>>

CancelEdit ==
    /\ Here /\ sheet.form.of # None
    /\ Click
    /\ sheet' = Render([sheet EXCEPT !.editing = None])
    /\ UNCHANGED <<stored, asks>>

(* Pressed, or Enter in a field: also while a save is under way.  The key  *)
(* fields of a row that is edited are disabled.                            *)
SaveForm(k, t) ==
    /\ Here
    /\ sheet.form.of # None => k = sheet.form.key
    /\ Click
    /\ Send(Ask("put", k, None, t))
    /\ UNCHANGED <<stored, sheet>>

(* The row of the button pressed, if the last list still has it. *)
DeleteRow(k) ==
    /\ Here /\ sheet.drawn.rows[k] # NoRow
    /\ RowOf(sheet.list.rows, sheet.drawn.rows[k].id) # {}
    /\ Click
    /\ Send(Ask("delete", k, sheet.drawn.rows[k].id, None))
    /\ UNCHANGED <<stored, sheet>>

-----------------------------------------------------------------------------
(* The answers. *)

(* A list that is answered leaves those asked for before it late. *)
Answered(n) ==
    RemoveAt([m \in DOMAIN asks |->
                [asks[m] EXCEPT !.late = @ \/ (asks[n].op = "list" /\ m < n)]], n)

ListAnswered(n) ==
    LET c == asks[n] IN
    /\ c.op = "list" /\ c.reply # None
    /\ sheet' = IF c.reply = "failed" THEN [sheet EXCEPT !.shown = FALSE]
                ELSE Render([sheet EXCEPT !.list = c.view, !.crossed = c.late])
    /\ asks' = Answered(n)
    /\ UNCHANGED <<stored, clicks>>

Acked(c) == [sheet EXCEPT !.acked = IF c.view.version > @ THEN c.view.version ELSE @]

SaveAnswered(n) ==
    LET c == asks[n] IN
    /\ c.op = "put" /\ c.reply # None
    /\ IF c.reply = "failed" THEN asks' = Answered(n) /\ UNCHANGED sheet
       ELSE /\ sheet' = [Acked(c) EXCEPT !.editing = None]
            /\ asks' = Append(Answered(n), AskList)
    /\ UNCHANGED <<stored, clicks>>

(* Mutant: a removed row is only read again when it was being edited. *)
ReloadIfEdited(n) ==
    LET c == asks[n] IN
    /\ c.op = "delete" /\ c.reply # None
    /\ IF c.reply = "failed" THEN asks' = Answered(n) /\ UNCHANGED sheet
       ELSE /\ sheet' = [Acked(c) EXCEPT !.editing = IF @ = c.id THEN None ELSE @]
            /\ asks' = IF sheet.editing = c.id THEN Append(Answered(n), AskList) ELSE Answered(n)
    /\ UNCHANGED <<stored, clicks>>

DeleteAnswered(n) ==
    LET c == asks[n] IN
    /\ c.op = "delete" /\ c.reply # None
    /\ IF c.reply = "failed" THEN asks' = Answered(n) /\ UNCHANGED sheet
       ELSE /\ sheet' = [Acked(c) EXCEPT !.editing = IF @ = c.id THEN None ELSE @]
            /\ asks' = Append(Answered(n), AskList)
    /\ UNCHANGED <<stored, clicks>>

-----------------------------------------------------------------------------
(* The server. *)

Write(k, row) ==
    [stored EXCEPT !.rows[k] = row, !.version = @ + 1]

(* PUT: a setting that says so already is not written again. *)
Put(k, t) ==
    IF stored.rows[k].text = t THEN stored
    ELSE Write(k, [text |-> t, id |-> IF stored.rows[k] = NoRow
                                      THEN <<k, stored.version + 1>> ELSE stored.rows[k].id])

(* Of an edit's answer only that it follows this write is of interest. *)
Reply(n, reply) ==
    asks' = [asks EXCEPT ![n].reply = reply, ![n].view =
               IF reply = "failed" THEN NoRows
               ELSE [rows |-> IF asks[n].op = "list" THEN stored'.rows ELSE NoRows.rows,
                     version |-> stored'.version]]

ServeList(n) ==
    /\ asks[n].op = "list" /\ asks[n].reply = None
    /\ UNCHANGED stored
    /\ Reply(n, "ok")
    /\ UNCHANGED <<sheet, clicks>>

ServePut(n) ==
    /\ asks[n].op = "put" /\ asks[n].reply = None
    /\ stored' = Put(asks[n].key, asks[n].text)
    /\ \E lost \in {"ok", "failed"} : Reply(n, lost)
    /\ UNCHANGED <<sheet, clicks>>

(* DELETE, by id: 404 when the row is gone, even if one was made since. *)
ServeDelete(n) ==
    LET k == asks[n].key IN
    /\ asks[n].op = "delete" /\ asks[n].reply = None
    /\ IF stored.rows[k].id = asks[n].id
       THEN stored' = Write(k, NoRow) /\ \E lost \in {"ok", "failed"} : Reply(n, lost)
       ELSE UNCHANGED stored /\ Reply(n, "failed")
    /\ UNCHANGED <<sheet, clicks>>

(* The passcode is wrong, the database is away, the request is lost. *)
RefuseAsk(n) ==
    /\ asks[n].reply = None
    /\ UNCHANGED stored
    /\ Reply(n, "failed")
    /\ UNCHANGED <<sheet, clicks>>

EditedElsewhere(k) ==
    /\ stored.others < MaxOthers
    /\ \E row \in {NoRow} \cup {Put(k, t).rows[k] : t \in Texts} :
         /\ row # stored.rows[k]
         /\ stored' = [Write(k, row) EXCEPT !.others = @ + 1]
    /\ UNCHANGED <<sheet, asks, clicks>>

SheetOperator ==
    \/ EnterTab \/ ReloadList \/ LeaveTab \/ CancelEdit
    \/ \E k \in SettingKeys :
         StartEdit(k) \/ DeleteRow(k) \/ (\E t \in Texts : SaveForm(k, t))

SheetAnswer ==
    \E n \in DOMAIN asks :
      \/ ListAnswered(n) \/ SaveAnswered(n) \/ DeleteAnswered(n)
      \/ ServeList(n) \/ ServePut(n) \/ ServeDelete(n) \/ RefuseAsk(n)

SheetNext ==
    SheetOperator \/ SheetAnswer \/ \E k \in SettingKeys : EditedElsewhere(k)

-----------------------------------------------------------------------------
(* Once nothing is under way, the list shows every edit that this page was *)
(* told was stored, whatever tab was open meanwhile and whichever lists    *)
(* failed: unless the list drawn is one that a later list overtook, which  *)
(* the page does not notice.                                               *)
OwnEditsShown ==
    asks = << >> /\ Here /\ ~sheet.crossed => sheet.drawn.version >= sheet.acked
=============================================================================
