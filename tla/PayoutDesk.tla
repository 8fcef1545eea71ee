----------------------------- MODULE PayoutDesk -----------------------------
(***************************************************************************)
(* The dashboard page's transaction dialog and what the server and the     *)
(* orchestrator do with what is pressed in it (src/src/api/admin/page.ts,  *)
(* src/src/api/admin/controllers.ts, src/src/core/admin/heldPayouts.ts).   *)
(*                                                                         *)
(* The page is one thread that never waits: every request is sent, the     *)
(* operator goes on clicking, and the code after the await runs when the   *)
(* answer comes, in any order, against whatever dialog is open by then.    *)
(* What the dialog SHOWS (dialog, confirm, fee) is kept apart from what    *)
(* the script REMEMBERS (ctx): the difference is what can go wrong.        *)
(*                                                                         *)
(* A payout is held by the orchestrator when sending it costs more than    *)
(* its cap; the operator looks at the price and may release it with a      *)
(* higher cap.  Amounts are whole cents.                                   *)
(***************************************************************************)
EXTENDS Integers, FiniteSets, Bags

CONSTANTS Onramps, Offramps, Applications, None,
          Paid,        \* the cap every payout starts with: what the customer paid
          Costs,       \* the prices of sending a payout
          MaxCap,      \* the orchestrator's max_source_amount_cap
          MaxCalls,    \* bound: requests in flight
          MaxElsewhere,\* bound: releases after which other operators stay out of it
          MaxClicks    \* bound: what the operator clicks in one behaviour

ASSUME DeskAssumption == None \notin {"ok", "failed", "releasing", "replaying", "replay"}

Txns == Onramps \cup Offramps

VARIABLES
    \* the orchestrator
    payout,     \* [Offramps -> [state, cap]]
    cost,       \* [Offramps -> what sending the payout costs now]
    keys,       \* the idempotency keys of the accept-rate requests it has carried out
    \* the server
    records,    \* admin actions of accepted rates, by key: a bag
    lost,       \* keys whose answer never reached the server's next step
    \* the page
    ctx,        \* detailCtx: the transaction and the hold the script remembers
    dialog,     \* what $("detail") shows; None when it is closed
    confirm,    \* $("acceptRateModal") with acceptRateCtx; None when it is closed
    fee,        \* $("approveFeeModal") with approveFeeCtx; None when it is closed
    waiting,    \* which of the two shared buttons are disabled: {"send", "fee"}
    calls,      \* the requests in flight: a bag
    clicks,
    agreed      \* history: what the operator has agreed to by pressing Send

serverVars == <<payout, cost, keys, records, lost>>
pageVars == <<ctx, dialog, confirm, fee, waiting>>
deskVars == <<serverVars, pageVars, calls, clicks, agreed>>

View == [held : BOOLEAN, cap : Int, cost : Costs \cup {None}]

(* A request and, once the server has handled it, its reply (with the hold *)
(* it carries, when it carries one).  shown is                             *)
(* what the operator was looking at when it was sent; wait, the button     *)
(* that stays disabled until the code after the await is done.             *)
Call(op, of, shown, terms, wait) ==
    [op |-> op, of |-> of, shown |-> shown, terms |-> terms, wait |-> wait,
     reply |-> None, view |-> None]

Writes == {"mark", "fiatReceived", "retry", "approveFee", "acceptRate", "attest"}

InFlight == BagToSet(calls)
Without(c) == calls (-) SetToBag({c})
With(c) == calls (+) SetToBag({c})
Replace(c, d) == Without(c) (+) SetToBag({d})
Answer(c, reply) == calls' = Replace(c, [c EXCEPT !.reply = reply])
Carry(c, view) == calls' = Replace(c, [c EXCEPT !.reply = "ok", !.view = view])

(* One click, as long as there are clicks and requests left. *)
Click == clicks < MaxClicks /\ clicks' = clicks + 1
Send(c) == BagCardinality(calls) < MaxCalls /\ calls' = With(c)

(* A click lands in the topmost modal dialog; the rows behind it are inert.*)
AtRows == dialog = None /\ confirm = None /\ fee = None
AtDialog == dialog # None /\ confirm = None /\ fee = None
AtTxn == AtDialog /\ dialog.kind = "txn"

DeskInit ==
    /\ payout = [f \in Offramps |-> [state |-> "held", cap |-> Paid]]
    /\ cost \in [Offramps -> {c \in Costs : c > Paid /\ c <= MaxCap}]
    /\ keys = {}
    /\ records = EmptyBag
    /\ lost = {}
    /\ ctx = None
    /\ dialog = None
    /\ confirm = None
    /\ fee = None
    /\ waiting = {}
    /\ calls = EmptyBag
    /\ clicks = 0
    /\ agreed = {}

-----------------------------------------------------------------------------
(* The dialog of a transaction. *)

(* A row is clicked: openDetail asks for the transaction.  Two clicks      *)
(* before the first answer put two openings in flight.                     *)
ClickRow(t) ==
    /\ AtRows
    /\ Click
    /\ Send(Call("open", t, t, None, "none"))
    /\ UNCHANGED <<serverVars, pageVars, agreed>>

Actionable(view) == view # None /\ view.held

(* openDetail once everything it awaits is there: ctx and the dialog's     *)
(* body are replaced together, whatever the dialog showed; a payout the    *)
(* operator may release has its price asked for at once.                   *)
Rendered(t, view) ==
    /\ ctx' = [of |-> t, hold |-> view]
    /\ dialog' = [kind |-> "txn", of |-> t, busy |-> {},
                  box |-> IF Actionable(view) THEN "asking" ELSE "none", price |-> None]

ShowDetail(c, view) ==
    /\ Rendered(c.of, view)
    /\ calls' = IF Actionable(view)
                THEN Replace(c, Call("quote", c.of, c.of, None, "none"))
                ELSE Without(c)
    /\ waiting' = waiting \ {c.wait}
    /\ UNCHANGED <<serverVars, confirm, fee, clicks, agreed>>

(* Mutant: the script remembers the transaction before it asks for its hold. *)
RememberedEarly(c) ==
    /\ c.op = "open" /\ c.reply = "ok"
    /\ IF c.of \in Offramps
       THEN /\ calls' = Replace(c, [c EXCEPT !.op = "hold", !.reply = None])
            /\ ctx' = [of |-> c.of, hold |-> None]
            /\ UNCHANGED <<serverVars, dialog, confirm, fee, waiting, clicks, agreed>>
       ELSE ShowDetail(c, None)

(* An offramp whose payout is pending has its hold asked for before        *)
(* anything is shown.  Every offramp here has a payout that is pending     *)
(* until it is paid.                                                       *)
OpenAnswered(c) ==
    /\ c.op = "open" /\ c.reply = "ok"
    /\ IF c.of \in Offramps
       THEN /\ calls' = Replace(c, [c EXCEPT !.op = "hold", !.reply = None])
            /\ UNCHANGED <<serverVars, pageVars, clicks, agreed>>
       ELSE ShowDetail(c, None)

HoldAnswered(c) ==
    /\ c.op = "hold" /\ c.reply # None
    /\ ShowDetail(c, c.view)

(* The transaction could not be read: the old dialog stays. *)
OpenFailed(c) ==
    /\ c.op = "open" /\ c.reply = "failed"
    /\ calls' = Without(c)
    /\ waiting' = waiting \ {c.wait}
    /\ UNCHANGED <<serverVars, ctx, dialog, confirm, fee, clicks, agreed>>

CloseDetail ==
    /\ AtDialog
    /\ Click
    /\ dialog' = None
    /\ UNCHANGED <<serverVars, ctx, confirm, fee, waiting, calls, agreed>>

(* A button of the dialog is disabled until its answer. *)
Press(button, c) ==
    /\ Click
    /\ button \notin dialog.busy
    /\ dialog' = [dialog EXCEPT !.busy = @ \cup {button}]
    /\ Send(c)
    /\ UNCHANGED <<serverVars, ctx, confirm, fee, waiting, agreed>>

(* Mark Successful and Mark Failed are two buttons: the second may be      *)
(* pressed while the first is being answered.                              *)
Mark(outcome) ==
    /\ AtTxn
    /\ Press(outcome, Call("mark", ctx.of, dialog.of, None, outcome))

MarkFiatReceived ==
    /\ AtTxn /\ dialog.of \in Onramps
    /\ Press("fiat", Call("fiatReceived", ctx.of, dialog.of, None, "fiat"))

(* Offered for a payout that is not on hold. *)
RetryFiatPayout ==
    /\ AtTxn /\ dialog.of \in Offramps /\ dialog.box = "none"
    /\ Press("retry", Call("retry", ctx.of, dialog.of, None, "retry"))

(* The answer of a mark closes whatever $("detail") shows by then. *)
MarkAnswered(c) ==
    /\ c.op \in {"mark", "fiatReceived"} /\ c.reply = "ok"
    /\ dialog' = None
    /\ calls' = Without(c)
    /\ UNCHANGED <<serverVars, ctx, confirm, fee, waiting, clicks, agreed>>

(* A retried payout's dialog is opened afresh. *)
RetryAnswered(c) ==
    /\ c.op = "retry" /\ c.reply = "ok"
    /\ calls' = Replace(c, Call("open", c.of, c.of, None, "none"))
    /\ UNCHANGED <<serverVars, pageVars, clicks, agreed>>

(* A request that was refused or lost: a message, and its button is        *)
(* enabled again if it is still on the page.                               *)
PressFailed(c) ==
    /\ c.op \in {"mark", "fiatReceived", "retry"} /\ c.reply = "failed"
    /\ calls' = Without(c)
    /\ dialog' = IF dialog # None /\ dialog.of = c.shown
                 THEN [dialog EXCEPT !.busy = @ \ {c.wait}] ELSE dialog
    /\ UNCHANGED <<serverVars, ctx, confirm, fee, waiting, clicks, agreed>>

-----------------------------------------------------------------------------
(* The approval of a platform fee, from the dialog or from its row. *)

ApproveFee ==
    /\ AtTxn
    /\ Click
    /\ fee' = [of |-> ctx.of, names |-> dialog.of]
    /\ UNCHANGED <<serverVars, ctx, dialog, confirm, waiting, calls, agreed>>

ApproveFeeRow(t) ==
    /\ AtRows
    /\ Click
    /\ fee' = [of |-> t, names |-> t]
    /\ UNCHANGED <<serverVars, ctx, dialog, confirm, waiting, calls, agreed>>

CloseFee ==
    /\ fee # None
    /\ Click
    /\ fee' = None
    /\ UNCHANGED <<serverVars, ctx, dialog, confirm, waiting, calls, agreed>>

(* The Enter key submits too, and does not look at the disabled button. *)
SubmitFee ==
    /\ fee # None
    /\ Click
    /\ Send(Call("approveFee", fee.of, fee.names, None, "fee"))
    /\ waiting' = waiting \cup {"fee"}
    /\ UNCHANGED <<serverVars, ctx, dialog, confirm, fee, agreed>>

FeeAnswered(c) ==
    /\ c.op = "approveFee" /\ c.reply # None
    /\ calls' = Without(c)
    /\ waiting' = waiting \ {"fee"}
    /\ IF c.reply = "ok" THEN fee' = None /\ dialog' = None
                         ELSE UNCHANGED <<fee, dialog>>
    /\ UNCHANGED <<serverVars, ctx, confirm, clicks, agreed>>

-----------------------------------------------------------------------------
(* Releasing a payout that is on hold for its price. *)

(* Refresh price. *)
CheckHoldRate ==
    /\ AtTxn /\ dialog.box \notin {"none", "asking"}
    /\ Press("quote", Call("quote", ctx.of, dialog.of, None, "quote"))

(* checkHoldRate after its await does not look at whose price it is: the   *)
(* script remembers it, and a dialog with a price box shows it.            *)
QuoteAnswered(c) ==
    /\ c.op = "quote" /\ c.reply # None
    /\ calls' = Without(c)
    /\ ctx' = IF c.reply = "failed" THEN ctx ELSE [ctx EXCEPT !.hold = c.view]
    /\ dialog' = IF dialog = None \/ dialog.box = "none" THEN dialog
                 ELSE [dialog EXCEPT !.box = IF c.reply = "ok" THEN "price" ELSE "failed",
                                     !.price = c.view, !.busy = @ \ {"quote"}]
    /\ UNCHANGED <<serverVars, confirm, fee, waiting, clicks, agreed>>

(* Today's cost plus 0.1%, rounded up to a cent, and never above what the  *)
(* orchestrator allows; a cost within the cap leaves the cap alone.        *)
Buffered(c) == (c * 1001 + 999) \div 1000
SuggestedCap(c, cap) ==
    IF c <= cap THEN cap
    ELSE IF Buffered(c) > MaxCap THEN MaxCap ELSE Buffered(c)

(* The Send button is in the box only with a price that may be accepted. *)
Sendable(price) ==
    /\ price # None
    /\ price.held
    /\ price.cost > price.cap => price.cost <= MaxCap

(* The confirmation names the dialog's transaction and says how much more  *)
(* than the shown cap the payout may cost; acceptRateCtx keeps the terms.  *)
OpenAcceptRateConfirm ==
    /\ AtTxn /\ Sendable(dialog.price)
    /\ ctx.hold # None /\ ctx.hold.cost # None
    /\ Click
    /\ confirm' = [of |-> ctx.of, names |-> dialog.of,
                   expected |-> ctx.hold.cap,
                   new |-> SuggestedCap(ctx.hold.cost, ctx.hold.cap)]
    /\ UNCHANGED <<serverVars, ctx, dialog, fee, waiting, calls, agreed>>

CloseAcceptRate ==
    /\ confirm # None
    /\ Click
    /\ confirm' = None
    /\ UNCHANGED <<serverVars, ctx, dialog, fee, waiting, calls, agreed>>

Terms == [expected |-> confirm.expected, new |-> confirm.new]

SubmitAcceptRate ==
    /\ confirm # None /\ "send" \notin waiting
    /\ Click
    /\ Send(Call("acceptRate", confirm.of, confirm.names, Terms, "send"))
    /\ waiting' = waiting \cup {"send"}
    /\ agreed' = agreed \cup {[of |-> confirm.names, cap |-> confirm.expected,
                               extra |-> confirm.new - confirm.expected]}
    /\ UNCHANGED <<serverVars, ctx, dialog, confirm, fee>>

(* Accepted: the confirmation that is open by then is closed and the       *)
(* payout's dialog is opened afresh; the button waits for that too.        *)
AcceptAnswered(c) ==
    /\ c.op = "acceptRate" /\ c.reply \in {"ok", "replay"}
    /\ confirm' = None
    /\ calls' = Replace(c, Call("open", c.of, c.of, None, "send"))
    /\ UNCHANGED <<serverVars, ctx, dialog, fee, waiting, clicks, agreed>>

(* A wrong passcode, a payout that changed, no answer: the confirmation    *)
(* stays and may be sent again.                                            *)
AcceptFailed(c) ==
    /\ c.op = "acceptRate" /\ c.reply = "failed"
    /\ calls' = Without(c)
    /\ waiting' = waiting \ {"send"}
    /\ UNCHANGED <<serverVars, ctx, dialog, confirm, fee, clicks, agreed>>

-----------------------------------------------------------------------------
(* Dakota attestations share the dialog. *)

(* The dialog opens at once, still empty. *)
OpenDakota(a) ==
    /\ AtRows
    /\ Click
    /\ dialog' = [kind |-> "loading", of |-> a, busy |-> {}, box |-> "none", price |-> None]
    /\ Send(Call("dakota", a, a, None, "none"))
    /\ UNCHANGED <<serverVars, ctx, confirm, fee, waiting, agreed>>

(* Whatever the dialog shows by then is replaced: the body, with the       *)
(* button that carries the application's id, not the dialog's being open.  *)
DakotaAnswered(c) ==
    /\ c.op = "dakota" /\ c.reply # None
    /\ calls' = Without(c)
    /\ dialog' = IF dialog = None THEN None
                 ELSE [kind |-> IF c.reply = "ok" THEN "dakota" ELSE "loading",
                       of |-> c.of, busy |-> {}, box |-> "none", price |-> None]
    /\ UNCHANGED <<serverVars, ctx, confirm, fee, waiting, clicks, agreed>>

(* Every agreement is ticked and the button pressed. *)
AttestedId == dialog.of
Attest ==
    /\ AtDialog /\ dialog.kind = "dakota"
    /\ Press("attest", Call("attest", AttestedId, dialog.of, None, "attest"))

AttestAnswered(c) ==
    /\ c.op = "attest" /\ c.reply # None
    /\ calls' = Without(c)
    /\ dialog' = IF dialog # None /\ dialog.of = c.shown
                 THEN [dialog EXCEPT !.busy = @ \ {"attest"}] ELSE dialog
    /\ UNCHANGED <<serverVars, ctx, confirm, fee, waiting, clicks, agreed>>

-----------------------------------------------------------------------------
(* The server. *)

(* A request without its passcode, for a transaction that is not there     *)
(* (a row of another tab), or whose answer is lost on the way.             *)
Refuse(c) ==
    /\ c.reply = None
    /\ Answer(c, "failed")
    /\ UNCHANGED <<serverVars, pageVars, clicks, agreed>>

(* Reads and actions whose effect is the business of other modules. *)
Serve(c) ==
    /\ c.reply = None /\ c.op \notin {"hold", "quote", "acceptRate"}
    /\ Answer(c, "ok")
    /\ UNCHANGED <<serverVars, pageVars, clicks, agreed>>

(* getHeldPayout: the hold as it is at the orchestrator, with a live price *)
(* when one is asked for.                                                  *)
HoldOf(f, quote) ==
    [held |-> payout[f].state = "held", cap |-> payout[f].cap,
     cost |-> IF quote THEN cost[f] ELSE None]

ServeHold(c) ==
    /\ c.reply = None /\ c.op \in {"hold", "quote"}
    /\ Carry(c, HoldOf(c.of, c.op = "quote"))
    /\ UNCHANGED <<serverVars, pageVars, clicks, agreed>>

(* The key names the payout and both caps: the same decision sent twice is *)
(* one decision.                                                           *)
AcceptKey(c) == <<c.of, c.terms.expected, c.terms.new>>

(* Mutant: the server suggests the cap itself, from the price of the moment. *)
TodaysCap(c) == SuggestedCap(cost[c.of], c.terms.expected)

(* What the server asks the orchestrator: the caps the operator saw. *)
ExpectedCap(c) == c.terms.expected
NewCap(c) == c.terms.new

(* acceptHeldPayoutRate up to its await, and the orchestrator's side of    *)
(* it: a key it knows is answered as a replay, another cap than the        *)
(* expected one (or no hold) is a conflict, and else the payout is         *)
(* released with the new cap.                                              *)
AcceptAtOrchestrator(c) ==
    /\ c.op = "acceptRate" /\ c.reply = None
    /\ c.terms.new >= c.terms.expected
    /\ \/ /\ AcceptKey(c) \in keys
          /\ Answer(c, "replaying")
          /\ UNCHANGED <<payout, keys>>
       \/ /\ AcceptKey(c) \notin keys
          /\ payout[c.of].state # "held" \/ payout[c.of].cap # ExpectedCap(c)
          /\ Answer(c, "failed")
          /\ UNCHANGED <<payout, keys>>
       \/ /\ AcceptKey(c) \notin keys
          /\ payout[c.of] = [state |-> "held", cap |-> ExpectedCap(c)]
          /\ payout' = [payout EXCEPT ![c.of] = [state |-> "sending", cap |-> NewCap(c)]]
          /\ keys' = keys \cup {AcceptKey(c)}
          /\ Answer(c, "releasing")
    /\ UNCHANGED <<cost, records, lost, pageVars, clicks, agreed>>

(* Mutant: replays are put on record too. *)
RecordReplayToo(c) ==
    /\ c.op = "acceptRate" /\ c.reply \in {"releasing", "replaying"}
    /\ records' = records (+) SetToBag({AcceptKey(c)})
    /\ Answer(c, IF c.reply = "releasing" THEN "ok" ELSE "replay")
    /\ UNCHANGED <<payout, cost, keys, lost, pageVars, clicks, agreed>>

(* The rest of acceptHeldPayoutRate: a release is put on record, a replay  *)
(* was when it was a release.  The answer may yet be lost on its way.      *)
RecordAccept(c) ==
    /\ c.op = "acceptRate" /\ c.reply \in {"releasing", "replaying"}
    /\ records' = IF c.reply = "releasing"
                  THEN records (+) SetToBag({AcceptKey(c)}) ELSE records
    /\ \/ Answer(c, IF c.reply = "releasing" THEN "ok" ELSE "replay")
       \/ Answer(c, "failed")
    /\ UNCHANGED <<payout, cost, keys, lost, pageVars, clicks, agreed>>

(* The orchestrator's answer is lost, the server restarts, or the record   *)
(* cannot be written: the operator is told it failed.                      *)
LoseAccept(c) ==
    /\ c.op = "acceptRate" /\ c.reply \in {"releasing", "replaying"}
    /\ lost' = IF c.reply = "releasing" THEN lost \cup {AcceptKey(c)} ELSE lost
    /\ Answer(c, "failed")
    /\ UNCHANGED <<payout, cost, keys, records, pageVars, clicks, agreed>>

(* The orchestrator re-quotes a released payout: it is sent when its cap   *)
(* covers the price, and held again when it does not.                      *)
SendPayout(f) ==
    /\ payout[f].state = "sending"
    /\ payout' = [payout EXCEPT ![f].state = IF cost[f] <= payout[f].cap THEN "paid" ELSE "held"]
    /\ UNCHANGED <<cost, keys, records, lost, pageVars, calls, clicks, agreed>>

(* Another operator, at another page, releases the payout at today's cost; *)
(* that request is answered and put on record like any other.              *)
ReleasedElsewhere(f) ==
    LET old == payout[f].cap
        new == SuggestedCap(cost[f], old)
    IN  /\ payout[f].state = "held" /\ cost[f] <= MaxCap
        /\ Cardinality(keys) < MaxElsewhere
        /\ <<f, old, new>> \notin keys
        /\ payout' = [payout EXCEPT ![f] = [state |-> "sending", cap |-> new]]
        /\ keys' = keys \cup {<<f, old, new>>}
        /\ records' = records (+) SetToBag({<<f, old, new>>})
        /\ agreed' = agreed \cup {[of |-> f, cap |-> old, extra |-> new - old]}
        /\ UNCHANGED <<cost, lost, pageVars, calls, clicks>>

PriceMoves(f) ==
    /\ \E c \in Costs \ {cost[f]} : cost' = [cost EXCEPT ![f] = c]
    /\ UNCHANGED <<payout, keys, records, lost, pageVars, calls, clicks, agreed>>

-----------------------------------------------------------------------------
Operator ==
    \/ \E t \in Txns : ClickRow(t) \/ ApproveFeeRow(t)
    \/ \E outcome \in {"success", "failed"} : Mark(outcome)
    \/ \E a \in Applications : OpenDakota(a)
    \/ CloseDetail \/ MarkFiatReceived \/ RetryFiatPayout
    \/ ApproveFee \/ CloseFee \/ SubmitFee
    \/ CheckHoldRate \/ OpenAcceptRateConfirm \/ CloseAcceptRate \/ SubmitAcceptRate
    \/ Attest

Page(c) ==
    \/ OpenAnswered(c) \/ HoldAnswered(c) \/ OpenFailed(c)
    \/ MarkAnswered(c) \/ RetryAnswered(c) \/ PressFailed(c)
    \/ FeeAnswered(c) \/ QuoteAnswered(c) \/ AcceptAnswered(c) \/ AcceptFailed(c)
    \/ DakotaAnswered(c) \/ AttestAnswered(c)

Server(c) ==
    \/ Refuse(c) \/ Serve(c) \/ ServeHold(c)
    \/ AcceptAtOrchestrator(c) \/ RecordAccept(c) \/ LoseAccept(c)

DeskNext ==
    \/ Operator
    \/ \E c \in InFlight : Page(c) \/ Server(c)
    \/ \E f \in Offramps : SendPayout(f) \/ ReleasedElsewhere(f) \/ PriceMoves(f)

-----------------------------------------------------------------------------
(* Whatever the operator presses acts on what the dialog showed when it    *)
(* was pressed, however late and in whatever order the answers came that   *)
(* drew the dialog and filled the script's memory.                         *)
ActionIsForShown ==
    \A c \in InFlight : c.op \in Writes => c.of = c.shown

(* A payout leaves its hold only on terms an operator agreed to for that   *)
(* payout: the cap it is held at is the one the confirmation was made from *)
(* and its cap rises by no more than the confirmation said, even though a  *)
(* late answer may have put another payout's price into the dialog.        *)
ReleaseIsAgreed ==
    [][\A f \in Offramps :
         payout[f].state = "held" /\ payout'[f].state = "sending" =>
           [of |-> f, cap |-> payout[f].cap,
            extra |-> payout'[f].cap - payout[f].cap] \in agreed']_deskVars

(* Every release is on record once the operator has had the answer, and    *)
(* once only, however often the same decision is sent - unless the server  *)
(* never learned of it, which no later replay repairs.                     *)
ReleaseIsOnRecord ==
    /\ \A k \in keys \ lost :
         \/ BagIn(k, records)
         \/ \E c \in InFlight : c.op = "acceptRate" /\ c.reply = "releasing" /\ AcceptKey(c) = k
    /\ \A k \in BagToSet(records) : k \in keys /\ records[k] = 1
=============================================================================
