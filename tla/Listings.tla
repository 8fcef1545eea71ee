------------------------------ MODULE Listings ------------------------------
(***************************************************************************)
(* Walking a list page by page while its rows come, change and go.         *)
(*                                                                         *)
(* Every list of the service is read newest first with a cursor: a page is *)
(* the rows created before the cursor, one more than the limit is read to  *)
(* know whether there is more, and the next cursor is the instant the      *)
(* page's last row was created.  The fee settlements merge a page of       *)
(* onramps and a page of offramps under one cursor; a list of transactions *)
(* first expires the ramps whose deposit is overdue.                       *)
(*                                                                         *)
(* The walker is the dashboard page, or a partner's client that does the   *)
(* same with createdBefore and nextCursor.  Instants are whole numbers and *)
(* rows may share one.                                                     *)
(***************************************************************************)
EXTENDS Integers, FiniteSets

CONSTANTS MaxRows,     \* bound: rows that are ever created
          Limit,       \* rows to a page
          Window,      \* how long a ramp waits for its deposit
          Slots,       \* bound: requests in flight
          MaxTime,     \* bound: the last instant
          Free         \* a slot without a request

ASSUME ListingsAssumption ==
    /\ MaxRows \in Nat
    /\ Limit \in Nat \ {0}
    /\ MaxTime \in Nat \ {0}

(* The rows, numbered in the order they are created. *)
Rows == 1 .. MaxRows

VARIABLES
    table,      \* [Rows -> the table the row is in]
    at,         \* createdAt
    status,     \* "none" until the row is created
    now,
    view,       \* the list that is walked
    cursor,     \* the cursor of the next page: 0 when nothing is left
    button,     \* Load more is on the page
    shown,      \* the rows on the page
    again,      \* history: rows that were put on the page twice
    asked,      \* [Slots -> the request in flight, or Free]
    there,      \* history: the rows the list has held ever since the walk began
    ties,       \* history: the instants at which pages of this walk ended
    crossed     \* history: a request was sent while another was in flight

rowVars == <<table, at, status, now>>
walkVars == <<view, cursor, button, shown, again, ties>>
listVars == <<table, at, status, now, view, cursor, button, shown, again, asked,
              there, ties, crossed>>

Ramps == {"onramp", "offramp"}

(* The tables a list is read from.                                         *)
Sources == [onramps |-> {"onramp"}, offramps |-> {"offramp"}, settlements |-> Ramps,
            accounts |-> {"account"}, wallets |-> {"wallet"}, businesses |-> {"business"}]

(* What a list's query asks of a row.  Transactions are listed without the  *)
(* expired ones; a fee settlement is listed while it is in the fees of a    *)
(* completed ramp and not yet settled; a deleted row is gone.               *)
Transactions == {"awaiting", "settling", "settled"}
Settlements == {"settling"}
OfframpsListed == Transactions
OnrampsListed == Transactions
AccountsListed == {"kept"}
WalletsListed == {"kept"}
BusinessesListed == {"kept"}

Wanted == [onramps |-> OnrampsListed, offramps |-> OfframpsListed,
           settlements |-> Settlements, accounts |-> AccountsListed,
           wallets |-> WalletsListed, businesses |-> BusinessesListed]

Fits(v, r) == table[r] \in Sources[v] /\ status[r] \in Wanted[v]

(* No cursor: later than every instant. *)
FromNewest == MaxTime + 1

Request(v, before) ==
    [view |-> v, before |-> before, swept |-> v \notin {"onramps", "offramps"},
     left |-> Sources[v], items |-> {}, more |-> FALSE]

Idle == [s \in Slots |-> Free]

(* What a list holds that holds these rows. *)
Tables ==
    [Rows -> Ramps] \cup {[r \in Rows |-> t] : t \in {"account", "wallet", "business"}}

ListInit ==
    /\ table \in Tables
    /\ at = [r \in Rows |-> 0]
    /\ status = [r \in Rows |-> "none"]
    /\ now = 1
    /\ view \in {v \in DOMAIN Sources : \E r \in Rows : table[r] \in Sources[v]}
    /\ cursor = 0
    /\ button = FALSE
    /\ shown = {}
    /\ again = {}
    /\ asked = Idle
    /\ there = {}
    /\ ties = {}
    /\ crossed = FALSE

-----------------------------------------------------------------------------
(* The rows.  What leaves the list is no longer owed to the walk. *)

Change(new) ==
    /\ status' = new
    /\ there' = {r \in there : new[r] \in Wanted[view]}

Insert(r) ==
    /\ status[r] = "none" /\ \A p \in 1 .. (r - 1) : status[p] # "none"
    /\ at' = [at EXCEPT ![r] = now]
    /\ Change([status EXCEPT ![r] = IF table[r] \in Ramps THEN "awaiting" ELSE "kept"])
    /\ UNCHANGED <<table, now, walkVars, asked, crossed>>

(* A ramp is completed, an expired one too when its deposit comes late.    *)
Complete(r) ==
    /\ status[r] \in {"awaiting", "expired"}
    /\ Change([status EXCEPT ![r] = "settling"])
    /\ UNCHANGED <<table, at, now, walkVars, asked, crossed>>

SettleFee(r) ==
    /\ status[r] = "settling"
    /\ Change([status EXCEPT ![r] = "settled"])
    /\ UNCHANGED <<table, at, now, walkVars, asked, crossed>>

Remove(r) ==
    /\ status[r] = "kept" /\ table[r] \in {"account", "wallet"}
    /\ Change([status EXCEPT ![r] = "deleted"])
    /\ UNCHANGED <<table, at, now, walkVars, asked, crossed>>

Tick ==
    /\ now < MaxTime
    /\ now' = now + 1
    /\ UNCHANGED <<table, at, status, walkVars, asked, there, crossed>>

-----------------------------------------------------------------------------
(* The walker. *)

Ask(q) ==
    \E s \in Slots :
      /\ asked[s] = Free
      /\ asked' = [asked EXCEPT ![s] = q]

(* load(true): the rows are cleared and the walk begins again, without     *)
(* waiting for what is still in flight.                                    *)
Start(v) ==
    /\ view' = v
    /\ cursor' = FromNewest
    /\ shown' = {}
    /\ again' = {}
    /\ ties' = {}
    /\ there' = {r \in Rows : Fits(v, r)}
    /\ crossed' = (asked # Idle)
    /\ Ask(Request(v, FromNewest))
    /\ UNCHANGED rowVars

OpenTab(v) ==
    /\ \E r \in Rows : table[r] \in Sources[v]
    /\ Start(v)
    /\ button' = FALSE

Reload ==
    /\ Start(view)
    /\ UNCHANGED button

(* The button is not disabled while a page is on its way. *)
LoadMore ==
    /\ button
    /\ Ask(Request(view, cursor))
    /\ crossed' = (crossed \/ asked # Idle)
    /\ UNCHANGED <<rowVars, walkVars, there>>

-----------------------------------------------------------------------------
(* The server. *)

(* expireStaleRampsForType: before transactions are listed. *)
Stale(r, t) == table[r] = t /\ status[r] = "awaiting" /\ at[r] + Window <= now
Sweep(s) ==
    /\ asked[s] # Free /\ ~asked[s].swept
    /\ asked' = [asked EXCEPT ![s].swept = TRUE]
    /\ Change([r \in Rows |-> IF \E t \in asked[s].left : Stale(r, t)
                              THEN "expired" ELSE status[r]])
    /\ UNCHANGED <<table, at, now, walkVars, crossed>>

(* Mutant: the cursor's own instant is read again. *)
BeforeOrAt(r, cur) == at[r] <= cur
Before(r, cur) == at[r] < cur

(* The pages a table may answer with: the newest rows, as many as the      *)
(* limit allows; rows of one instant come in any order.                    *)
Pages(found) ==
    {page \in SUBSET found :
       /\ Cardinality(page) <= Limit
       /\ Cardinality(page) < Limit => page = found
       /\ \A p \in page, r \in found \ page : at[p] >= at[r]}

(* One query: a page of one table.  The two tables of the fee settlements  *)
(* are read by two queries.                                                *)
ReadPage(s) ==
    /\ asked[s] # Free /\ asked[s].swept
    /\ \E t \in asked[s].left :
         LET found == {r \in Rows : /\ table[r] = t
                                    /\ Fits(asked[s].view, r)
                                    /\ Before(r, asked[s].before)}
         IN  \E page \in Pages(found) :
               asked' = [asked EXCEPT ![s].left = @ \ {t},
                                      ![s].items = @ \cup page,
                                      ![s].more = @ \/ page # found]
    /\ UNCHANGED <<rowVars, walkVars, there, crossed>>

(* The merged page: the newest of both pages, an onramp before an offramp  *)
(* of the same instant.                                                    *)
Merged(items) ==
    {page \in Pages(items) :
       \A p \in page, r \in items \ page :
         at[p] = at[r] => ~(table[p] = "offramp" /\ table[r] = "onramp")}

(* Mutant: the cursor is the oldest of everything that was read. *)
OldestRead(items, page, r) == r \in items /\ \A p \in items : at[r] <= at[p]
(* The row the next cursor is taken from: the merged page's last. *)
LastOf(items, page, r) == r \in page /\ \A p \in page : at[r] <= at[p]

(* load() when the answer has come: the rows are appended to what is shown *)
(* by now, and its cursor is the cursor from now on.                       *)
Answered(s) ==
    /\ asked[s] # Free /\ asked[s].swept /\ asked[s].left = {}
    /\ asked' = [asked EXCEPT ![s] = Free]
    /\ LET items == asked[s].items
       IN  \E page \in Merged(items) :
             LET more == asked[s].more \/ page # items
             IN  /\ shown' = shown \cup page
                 /\ again' = again \cup (shown \cap page)
                 /\ button' = (more /\ page # {})
                 /\ ties' = ties \cup {at[r] : r \in {p \in page : \A q \in page : at[p] <= at[q]}}
                 /\ \/ /\ more /\ page # {}
                       /\ \E r \in items : LastOf(items, page, r) /\ cursor' = at[r]
                    \/ /\ ~(more /\ page # {})
                       /\ cursor' = 0
    /\ UNCHANGED <<rowVars, view, there, crossed>>

(* A message is shown; the walk can go on from the same cursor. *)
Failed(s) ==
    /\ asked[s] # Free
    /\ asked' = [asked EXCEPT ![s] = Free]
    /\ UNCHANGED <<rowVars, walkVars, there, crossed>>

ListNext ==
    \/ \E r \in Rows : Insert(r) \/ Complete(r) \/ SettleFee(r) \/ Remove(r)
    \/ Tick
    \/ \E v \in DOMAIN Sources : OpenTab(v)
    \/ Reload \/ LoadMore
    \/ \E s \in Slots : Sweep(s) \/ ReadPage(s) \/ Answered(s) \/ Failed(s)

-----------------------------------------------------------------------------
(* What a walk owes.  A walk that sends one request at a time skips no row *)
(* that was in the list all along, whatever comes, changes and goes around *)
(* it and however the two tables' pages are merged - except rows that      *)
(* share their instant with the last row of a page, which the cursor       *)
(* leaves out.  At the end (cursor 0) every other row has been shown.      *)
WalkIsComplete ==
    ~crossed => \A r \in there : r \in shown \/ at[r] < cursor \/ at[r] \in ties

(* Such a walk shows no row twice. *)
NothingTwice == ~crossed => again = {}
=============================================================================
