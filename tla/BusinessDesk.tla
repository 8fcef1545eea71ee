---------------------------- MODULE BusinessDesk ----------------------------
(***************************************************************************)
(* The dashboard page's businesses tab: the list with each business's      *)
(* provider badge, the business dialog, and the provider customer ids that *)
(* are read and written through the server at the orchestrator             *)
(* (src/src/api/admin/page.ts, src/src/core/admin/providerCustomer.ts).    *)
(*                                                                         *)
(* One provider is modelled: the page and the server treat the three of    *)
(* them alike and separately.  A request is answered in any order and the  *)
(* code after its await works on the dialog that is open by then.          *)
(***************************************************************************)
EXTENDS Integers, Bags

CONSTANTS Businesses,
          House,       \* the reserved reference __house__
          Ids,         \* provider customer ids
          None,
          MaxLoads,    \* bound: requests in flight
          MaxClicks    \* bound: what the operator clicks in one behaviour

VARIABLES
    ids,        \* the orchestrator's mapping, of businesses and of the house
    badges,     \* the rows: the provider badge each business is listed with
    biz,        \* bizState: the business dialog is open when it has a user
    loads,      \* the requests in flight: a bag
    clicks

bizVars == <<ids, badges, biz, loads>>

(* The lists of a business's transactions. *)
Types == {"onramp", "offramp"}

(* what is the id to store, or the type of the transactions asked for.     *)
Load(op, of, what) ==
    [op |-> op, of |-> of, what |-> what, reply |-> None, view |-> None]

Pending == BagToSet(loads)
Without(c) == loads (-) SetToBag({c})
Replace(c, d) == Without(c) (+) SetToBag({d})
Send(c) == BagCardinality(loads) < MaxLoads /\ loads' = loads (+) SetToBag({c})
Click == clicks < MaxClicks /\ clicks' = clicks + 1

(* The business's own id wins; the house's is what it falls back to. *)
Status(own, house) ==
    IF own # None THEN "custom" ELSE IF house # None THEN "house" ELSE "inactive"

(* What the dialog knows of the business is dropped, and asked for.  Of    *)
(* its transactions it is kept whose they are, and whether the type has    *)
(* been loaded.                                                            *)
Opened(b) == [user |-> b, tab |-> "details", idsOf |-> None, own |-> None, house |-> None,
              loading |-> TRUE, loaded |-> FALSE, error |-> FALSE,
              type |-> "onramp", txnsOf |-> [t \in Types |-> {}], listed |-> {},
              crossed |-> FALSE]

Open == biz.user # None

(* The answer to a load that was sent for another business. *)
Crossed(c) == c.of # biz.user

BizInit ==
    /\ ids \in [Businesses \cup {House} -> Ids \cup {None}]
    /\ badges = [b \in Businesses |-> None]
    /\ biz = [Opened(None) EXCEPT !.loading = FALSE]
    /\ loads = EmptyBag

-----------------------------------------------------------------------------
(* The list. *)

LoadBusinessList ==
    /\ ~Open
    /\ Click
    /\ Send(Load("list", None, None))
    /\ UNCHANGED <<ids, badges, biz>>

(* A business whose ids the orchestrator does not give is inactive. *)
ServeList(c) ==
    /\ c.op = "list" /\ c.reply = None
    /\ \E silent \in SUBSET Businesses :
         loads' = Replace(c, [c EXCEPT !.reply = "ok", !.view =
                    [b \in Businesses |-> IF b \in silent THEN "inactive"
                                          ELSE Status(ids[b], ids[House])]])
    /\ UNCHANGED <<ids, badges, biz, clicks>>

ListAnswered(c) ==
    /\ c.op = "list" /\ c.reply = "ok"
    /\ loads' = Without(c)
    /\ badges' = c.view
    /\ UNCHANGED <<ids, biz, clicks>>

-----------------------------------------------------------------------------
(* The dialog. *)

(* A business that has a row to click.                                     *)
Listed(b) == badges[b] # None

(* Mutant: the ids of the last dialog are kept until the answer comes. *)
KeepLastIds(b) ==
    /\ ~Open /\ Listed(b)
    /\ Click
    /\ biz' = [Opened(b) EXCEPT !.idsOf = biz.idsOf, !.own = biz.own, !.house = biz.house]
    /\ Send(Load("providers", b, None))
    /\ UNCHANGED <<ids, badges>>

OpenBusiness(b) ==
    /\ ~Open /\ Listed(b)
    /\ Click
    /\ biz' = Opened(b)
    /\ Send(Load("providers", b, None))
    /\ UNCHANGED <<ids, badges>>

(* Closing forgets the business; a load in flight is still answered. *)
CloseBusiness ==
    /\ Open
    /\ Click
    /\ biz' = [biz EXCEPT !.user = None]
    /\ UNCHANGED <<ids, badges, loads>>

(* A tab that has nothing to show yet loads it. *)
SwitchTab(tab) ==
    /\ Open /\ tab # biz.tab
    /\ Click
    /\ \/ /\ tab = "transactions" /\ biz.type \notin biz.listed
          /\ Send(Load("transactions", biz.user, biz.type))
          /\ biz' = [biz EXCEPT !.tab = tab]
       \/ /\ tab = "providers" /\ ~biz.loaded /\ ~biz.loading
          /\ Send(Load("providers", biz.user, None))
          /\ biz' = [biz EXCEPT !.tab = tab, !.loading = TRUE, !.error = FALSE]
       \/ /\ tab = "transactions" => biz.type \in biz.listed
          /\ tab = "providers" => biz.loaded \/ biz.loading
          /\ biz' = [biz EXCEPT !.tab = tab]
          /\ UNCHANGED loads
    /\ UNCHANGED <<ids, badges>>

(* loadBusinessProviders after its await: the ids go to the dialog that is *)
(* open, and its business's badge is worked out from them, whichever       *)
(* business they were asked for.                                           *)
ProvidersAnswered(c) ==
    /\ c.op = "providers" /\ c.reply # None
    /\ loads' = Without(c)
    /\ biz' = IF c.reply = "failed" THEN [biz EXCEPT !.loading = FALSE, !.error = TRUE]
              ELSE [biz EXCEPT !.idsOf = c.of, !.own = c.view.own, !.house = c.view.house,
                               !.loading = FALSE, !.loaded = TRUE,
                               !.crossed = @ \/ Crossed(c)]
    /\ badges' = IF ~Open \/ c.reply = "failed" THEN badges
                 ELSE [badges EXCEPT ![biz.user] = Status(c.view.own, c.view.house)]
    /\ UNCHANGED <<ids, clicks>>

AtTransactions == Open /\ biz.tab = "transactions"

(* The other type's button: what is not there yet is loaded.               *)
SwitchType(type) ==
    /\ AtTransactions
    /\ Click
    /\ biz' = [biz EXCEPT !.type = type]
    /\ IF type \in biz.listed THEN UNCHANGED loads
       ELSE Send(Load("transactions", biz.user, type))
    /\ UNCHANGED <<ids, badges>>

MoreTransactions ==
    /\ AtTransactions /\ biz.type \in biz.listed
    /\ Click
    /\ Send(Load("more", biz.user, biz.type))
    /\ UNCHANGED <<ids, badges, biz>>

(* A first page replaces what is listed of its type, a further page is     *)
(* appended to it, whichever business it was asked for.                    *)
TransactionsAnswered(c) ==
    /\ c.op \in {"transactions", "more"} /\ c.reply # None
    /\ loads' = Without(c)
    /\ biz' = IF c.reply = "failed" THEN biz
              ELSE [biz EXCEPT !.txnsOf[c.what] = IF c.op = "more" THEN @ \cup {c.of} ELSE {c.of},
                               !.listed = @ \cup {c.what}, !.crossed = @ \/ Crossed(c)]
    /\ UNCHANGED <<ids, badges, clicks>>

-----------------------------------------------------------------------------
(* Editing the ids. *)

AtProviders == Open /\ biz.tab = "providers" /\ ~biz.loading /\ ~biz.error

Save(id) ==
    /\ AtProviders
    /\ Click
    /\ Send(Load("put", biz.user, id))
    /\ UNCHANGED <<ids, badges, biz>>

SaveHouse(id) ==
    /\ AtProviders
    /\ Click
    /\ Send(Load("put", House, id))
    /\ UNCHANGED <<ids, badges, biz>>

(* Remove, and Use house: offered when a custom id is shown. *)
Remove ==
    /\ AtProviders /\ biz.own # None
    /\ Click
    /\ Send(Load("delete", biz.user, None))
    /\ UNCHANGED <<ids, badges, biz>>

(* A stored edit has the ids of the business that is open by then read     *)
(* again, if one is.                                                       *)
EditAnswered(c) ==
    /\ c.op \in {"put", "delete"} /\ c.reply # None
    /\ IF c.reply = "failed" \/ ~Open
       THEN loads' = Without(c) /\ UNCHANGED biz
       ELSE /\ loads' = Replace(c, Load("providers", biz.user, None))
            /\ biz' = [biz EXCEPT !.loading = TRUE, !.error = FALSE]
    /\ UNCHANGED <<ids, badges, clicks>>

-----------------------------------------------------------------------------
(* The server and the orchestrator. *)

ServeProviders(c) ==
    /\ c.op = "providers" /\ c.reply = None
    /\ loads' = Replace(c, [c EXCEPT !.reply = "ok",
                                     !.view = [own |-> ids[c.of], house |-> ids[House]]])
    /\ UNCHANGED <<ids, badges, biz, clicks>>

ServeTransactions(c) ==
    /\ c.op \in {"transactions", "more"} /\ c.reply = None
    /\ loads' = Replace(c, [c EXCEPT !.reply = "ok"])
    /\ UNCHANGED <<ids, badges, biz, clicks>>

(* PUT stores the id, DELETE takes it away. *)
ServeEdit(c) ==
    /\ c.op \in {"put", "delete"} /\ c.reply = None
    /\ ids' = [ids EXCEPT ![c.of] = c.what]
    /\ loads' = Replace(c, [c EXCEPT !.reply = "ok"])
    /\ UNCHANGED <<badges, biz, clicks>>

(* Not carried out, or carried out and the answer lost. *)
Refuse(c) ==
    /\ c.op # "list" /\ c.reply = None
    /\ loads' = Replace(c, [c EXCEPT !.reply = "failed"])
    /\ \/ UNCHANGED ids
       \/ c.op \in {"put", "delete"} /\ ids' = [ids EXCEPT ![c.of] = c.what]
    /\ UNCHANGED <<badges, biz, clicks>>

BizOperator ==
    \/ LoadBusinessList \/ CloseBusiness
    \/ \E b \in Businesses : OpenBusiness(b)
    \/ \E tab \in {"details", "transactions", "providers"} : SwitchTab(tab)
    \/ \E type \in Types : SwitchType(type)
    \/ MoreTransactions
    \/ \E id \in Ids : Save(id) \/ SaveHouse(id)
    \/ Remove

BizAnswer ==
    \E c \in Pending :
      \/ ServeList(c) \/ ListAnswered(c) \/ Refuse(c)
      \/ ServeProviders(c) \/ ProvidersAnswered(c)
      \/ ServeTransactions(c) \/ TransactionsAnswered(c)
      \/ ServeEdit(c) \/ EditAnswered(c)

BizNext == BizOperator \/ BizAnswer

-----------------------------------------------------------------------------
(* The dialog shows ids and transactions of the business it names.  They   *)
(* are another's only after an answer to that business's opening came once *)
(* this one was open, which the page lets happen: what one dialog leaves   *)
(* behind, however many were opened before, never shows in the next.       *)
ShownIsOwn ==
    Open /\ ~biz.crossed =>
      /\ biz.idsOf \in {None, biz.user}
      /\ \A t \in Types : biz.txnsOf[t] \subseteq {biz.user}
      /\ biz.idsOf = None => biz.own = None
=============================================================================
