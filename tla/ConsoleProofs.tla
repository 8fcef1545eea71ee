--------------------------- MODULE ConsoleProofs ---------------------------
(***************************************************************************)
(* The dashboard page proved, desk by desk, for any businesses, rows,      *)
(* payouts, prices, settings and any number of clicks and requests.        *)
(*                                                                         *)
(* Lists.  A walk that sends one request at a time skips nothing but ties  *)
(* and shows nothing twice.  An answer on its way was asked for at the     *)
(* walk's own cursor, and every row the walk is owed that one of the       *)
(* tables already read may hold is either among the rows read or covered:  *)
(* a full page of rows no older than it was read.                          *)
(*                                                                         *)
(* Payouts.  What the script remembers is the transaction the dialog shows *)
(* whenever the dialog has buttons (PageSound), so every request was sent  *)
(* for what was shown and a release for what was agreed to (CallSound);    *)
(* and a release that is not on record yet has one request that carries    *)
(* the news, and only one (RecordsInv).                                    *)
(*                                                                         *)
(* Businesses.  What a dialog shows was sent for its own business unless   *)
(* crossed says otherwise.                                                 *)
(*                                                                         *)
(* Settings.  The last list asked for that none has overtaken is, once     *)
(* read, no older than any edit acknowledged here; where there is none     *)
(* the list that is drawn is no older.                                     *)
(***************************************************************************)
EXTENDS Console, FiniteSetTheorems, SequenceTheorems, TLAPS

-----------------------------------------------------------------------------
(* The lists. *)

TableNames == Ramps \cup {"account", "wallet", "business"}
Statuses == {"none", "awaiting", "expired", "settling", "settled", "kept", "deleted"}

Requests ==
    [view : DOMAIN Sources, before : Nat, swept : BOOLEAN, left : SUBSET TableNames,
     items : SUBSET Rows, more : BOOLEAN]

ListTypes ==
    /\ table \in [Rows -> TableNames]
    /\ at \in [Rows -> 0 .. MaxTime]
    /\ status \in [Rows -> Statuses]
    /\ now \in 0 .. MaxTime
    /\ view \in DOMAIN Sources
    /\ cursor \in Nat
    /\ asked \in [Slots -> Requests \cup {Free}]

(* What the walk knows of are rows that exist. *)
Created == {r \in Rows : status[r] # "none"}
Known ==
    /\ shown \subseteq Created
    /\ there \subseteq {r \in Rows : Fits(view, r)}
    /\ \A s \in Slots : asked[s] # Free => asked[s].items \subseteq Created

(* One request at a time, at the walk's cursor. *)
OneAtATime ==
    ~crossed =>
      \A s \in Slots : asked[s] # Free =>
        /\ \A u \in Slots : asked[u] # Free => u = s
        /\ asked[s].view = view /\ asked[s].before = cursor
        /\ \A r \in asked[s].items : at[r] < cursor

Covered(r, items) ==
    \E full \in SUBSET items : Cardinality(full) = Limit /\ \A p \in full : at[r] <= at[p]

ReadIsCovered ==
    ~crossed =>
      \A s \in Slots : asked[s] # Free =>
        \A r \in there : table[r] \notin asked[s].left /\ at[r] < cursor =>
          \/ r \in asked[s].items
          \/ asked[s].more /\ Covered(r, asked[s].items)

ShownIsPast == ~crossed => \A r \in shown : cursor <= at[r]

WalkInv ==
    /\ ListTypes
    /\ Known
    /\ OneAtATime
    /\ ReadIsCovered
    /\ ShownIsPast
    /\ WalkIsComplete
    /\ NothingTwice

(* A row is listed only once it exists. *)
LEMMA ListedIsCreated ==
    ASSUME NEW v \in DOMAIN Sources, NEW st, st \in Wanted[v]
    PROVE  st # "none"
BY DEF Sources, Wanted, Transactions, Settlements, OnrampsListed, OfframpsListed,
       AccountsListed, WalletsListed, BusinessesListed, Ramps

LEMMA SetsOfRows ==
    ASSUME NEW S \in SUBSET Rows
    PROVE  IsFiniteSet(S) /\ Cardinality(S) \in Nat
<1>1. IsFiniteSet(Rows)
  BY FS_Interval, ListingsAssumption DEF Rows
<1> QED
  BY <1>1, FS_Subset, FS_CardinalityType

(* The merge of the pages and its cursor: the newest of what was read, cut *)
(* to the limit, leaves out nothing that is newer than its last row,       *)
(* whether the row was read or left behind a full page.                    *)
LEMMA MergedPageCovers ==
    ASSUME at \in [Rows -> 0 .. MaxTime],
           NEW items \in SUBSET Rows, NEW page \in Merged(items),
           NEW last \in page, \A p \in page : at[last] <= at[p],
           NEW r \in Rows, r \notin page,
           r \in items \/ Covered(r, items)
    PROVE  at[r] <= at[last]
<1> USE ListingsAssumption
<1>1. /\ page \in SUBSET items /\ Cardinality(page) <= Limit
      /\ \A p \in page, q \in items \ page : at[p] >= at[q]
  BY DEF Merged, Pages
<1>2. /\ \A q \in Rows : at[q] \in Int
      /\ last \in Rows
  BY <1>1
<1>3. CASE r \in items
  BY <1>1, <1>2, <1>3
<1>4. CASE Covered(r, items)
  <2>1. PICK full \in SUBSET items : Cardinality(full) = Limit /\ \A p \in full : at[r] <= at[p]
    BY <1>4 DEF Covered
  <2>2. CASE last \in full
    BY <2>1, <2>2
  <2>3. CASE last \notin full /\ full \subseteq page
    <3>1. IsFiniteSet(full) /\ IsFiniteSet(page)
      BY <1>1, SetsOfRows
    <3>2. Cardinality(full \cup {last}) = Limit + 1 /\ IsFiniteSet(full \cup {last})
      BY <3>1, <2>1, <2>3, FS_AddElement
    <3>3. Cardinality(full \cup {last}) <= Cardinality(page)
      BY <3>1, <3>2, <2>3, FS_Subset
    <3>4. Cardinality(page) \in Nat
      BY <1>1, SetsOfRows
    <3> QED BY <3>2, <3>3, <3>4, <1>1
  <2>4. CASE \E p \in full : p \notin page
    <3>1. PICK p \in full : p \notin page
      BY <2>4
    <3>2. at[last] >= at[p] /\ p \in Rows
      BY <3>1, <1>1, <2>1
    <3> QED BY <3>1, <3>2, <2>1, <1>2
  <2> QED BY <2>2, <2>3, <2>4
<1> QED BY <1>3, <1>4

(* A page is full unless it is all there is. *)
LEMMA PageIsFull ==
    ASSUME NEW found \in SUBSET Rows, NEW page \in Pages(found), page # found
    PROVE  Cardinality(page) = Limit /\ page # {}
<1>1. page \in SUBSET Rows /\ Cardinality(page) <= Limit /\ ~(Cardinality(page) < Limit)
  BY DEF Pages
<1>2. Cardinality(page) = Limit
  BY <1>1, SetsOfRows, ListingsAssumption
<1> QED BY <1>2, FS_EmptySet, ListingsAssumption

LEMMA InitWalk == ListInit => WalkInv
<1> SUFFICES ASSUME ListInit PROVE WalkInv
  OBVIOUS
<1> USE ListingsAssumption DEF ListInit
<1>1. ListTypes
  <2>1. table \in [Rows -> TableNames]
    <3>1. CASE table \in [Rows -> Ramps]
      BY <3>1 DEF TableNames
    <3>2. CASE table \in {[r \in Rows |-> t] : t \in {"account", "wallet", "business"}}
      BY <3>2 DEF TableNames
    <3> QED BY <3>1, <3>2 DEF Tables
  <2>2. asked \in [Slots -> Requests \cup {Free}]
    BY DEF Idle
  <2>3. /\ at \in [Rows -> 0 .. MaxTime]
        /\ status \in [Rows -> Statuses]
        /\ now \in 0 .. MaxTime /\ cursor \in Nat /\ view \in DOMAIN Sources
    BY DEF Statuses
  <2> QED BY <2>1, <2>2, <2>3 DEF ListTypes
<1>2. \A s \in Slots : asked[s] = Free
  BY DEF Idle
<1> QED
  BY <1>1, <1>2 DEF WalkInv, Known, OneAtATime, ReadIsCovered, ShownIsPast,
     WalkIsComplete, NothingTwice

-----------------------------------------------------------------------------
(* A step of the rows, or of the server on a request that changes neither  *)
(* what was read nor what is shown.                                        *)
SameRequest(s) ==
    asked'[s] # Free =>
      /\ asked[s] # Free
      /\ asked'[s].view = asked[s].view /\ asked'[s].before = asked[s].before
      /\ asked'[s].left = asked[s].left /\ asked'[s].items = asked[s].items
      /\ asked'[s].more = asked[s].more

RowStep ==
    /\ table' = table /\ view' = view /\ cursor' = cursor /\ shown' = shown
    /\ again' = again /\ ties' = ties /\ crossed' = crossed
    /\ at' \in [Rows -> 0 .. MaxTime] /\ status' \in [Rows -> Statuses] /\ now' \in 0 .. MaxTime
    /\ asked' \in [Slots -> Requests \cup {Free}]
    /\ \A r \in Created : at'[r] = at[r] /\ status'[r] # "none"
    /\ there' \subseteq {r \in there : status'[r] \in Wanted[view]}
    /\ \A s \in Slots : SameRequest(s)

LEMMA RowStepKeeps == ASSUME WalkInv, RowStep PROVE WalkInv'
<1> USE DEF WalkInv
<1>1. ListTypes'
  BY DEF ListTypes, RowStep
<1>2. there \subseteq Created
  BY ListedIsCreated DEF Known, Fits, Created, ListTypes
<1>3. there' \subseteq there /\ \A r \in Created : at'[r] = at[r] /\ r \in Created'
  BY DEF RowStep, Created
<1>4. Known'
  <2>1. shown' \subseteq Created'
    BY <1>3 DEF Known, RowStep
  <2>2. there' \subseteq {r \in Rows : Fits(view, r)}'
    BY DEF Known, RowStep, Fits
  <2>3. \A s \in Slots : asked'[s] # Free => asked'[s].items \subseteq Created'
    BY <1>3 DEF Known, RowStep, SameRequest
  <2> QED BY <2>1, <2>2, <2>3 DEF Known
<1>5. OneAtATime'
  <2> SUFFICES ASSUME ~crossed', NEW s \in Slots, asked'[s] # Free
               PROVE  /\ \A u \in Slots : asked'[u] # Free => u = s
                      /\ asked'[s].view = view' /\ asked'[s].before = cursor'
                      /\ \A r \in asked'[s].items : at'[r] < cursor'
    BY DEF OneAtATime
  <2>1. SameRequest(s) /\ \A u \in Slots : asked'[u] # Free => asked[u] # Free
    BY DEF RowStep, SameRequest
  <2>2. asked[s].items \subseteq Created
    BY <2>1 DEF Known, SameRequest
  <2> QED BY <2>1, <2>2, <1>3 DEF OneAtATime, RowStep, SameRequest
<1>6. ReadIsCovered'
  <2> SUFFICES ASSUME ~crossed', NEW s \in Slots, asked'[s] # Free,
                      NEW r \in there', table'[r] \notin asked'[s].left, at'[r] < cursor'
               PROVE  \/ r \in asked'[s].items
                      \/ asked'[s].more /\ Covered(r, asked[s].items)'
    <3>1. \A s \in Slots : asked'[s] # Free => asked'[s].items = asked[s].items
      BY DEF RowStep, SameRequest
    <3> QED BY <3>1 DEF ReadIsCovered, Covered
  <2>1. SameRequest(s)
    BY DEF RowStep
  <2>2. asked[s].items \subseteq Created
    BY <2>1 DEF Known, SameRequest
  <2>3. r \in there /\ at'[r] = at[r] /\ at[r] < cursor /\ table[r] \notin asked[s].left
    BY <1>2, <1>3, <2>1 DEF RowStep, SameRequest
  <2>4. r \in asked[s].items \/ (asked[s].more /\ Covered(r, asked[s].items))
    BY <2>1, <2>3 DEF ReadIsCovered, SameRequest, RowStep
  <2>5. ASSUME Covered(r, asked[s].items) PROVE Covered(r, asked[s].items)'
    <3>1. PICK full \in SUBSET asked[s].items :
            Cardinality(full) = Limit /\ \A p \in full : at[r] <= at[p]
      BY <2>5 DEF Covered
    <3>2. full \in SUBSET asked'[s].items /\ \A p \in full : at'[r] <= at'[p]
      BY <3>1, <2>1, <2>2, <2>3, <1>3 DEF SameRequest
    <3>3. asked'[s].items = asked[s].items
      BY <2>1 DEF SameRequest
    <3> QED BY <3>1, <3>2, <3>3 DEF Covered
  <2> QED BY <2>1, <2>4, <2>5 DEF SameRequest
<1>7. ShownIsPast'
  BY <1>3 DEF ShownIsPast, Known, RowStep
<1>8. WalkIsComplete' /\ NothingTwice'
  BY <1>2, <1>3 DEF WalkIsComplete, NothingTwice, RowStep
<1> QED BY <1>1, <1>4, <1>5, <1>6, <1>7, <1>8
-----------------------------------------------------------------------------
(* The steps of the rows. *)

LEMMA RowActions ==
    ASSUME WalkInv,
           \/ \E r \in Rows : Insert(r) \/ Complete(r) \/ SettleFee(r) \/ Remove(r)
           \/ Tick
           \/ \E s \in Slots : Sweep(s)
    PROVE  WalkInv'
<1> USE ListingsAssumption DEF WalkInv, ListTypes
<1>1. asked' = asked /\ asked \in [Slots -> Requests \cup {Free}] => \A s \in Slots : SameRequest(s)
  BY DEF SameRequest
<1>2. CASE \E r \in Rows : Insert(r)
  <2> PICK r \in Rows : Insert(r)
    BY <1>2
  <2>1. RowStep
    BY <1>1 DEF RowStep, Insert, Change, walkVars, Created, Statuses
  <2> QED BY <2>1, RowStepKeeps
<1>3. CASE \E r \in Rows : Complete(r) \/ SettleFee(r) \/ Remove(r)
  <2> PICK r \in Rows : Complete(r) \/ SettleFee(r) \/ Remove(r)
    BY <1>3
  <2>1. RowStep
    BY <1>1 DEF RowStep, Complete, SettleFee, Remove, Change, walkVars, Created, Statuses
  <2> QED BY <2>1, RowStepKeeps
<1>4. CASE Tick
  <2>1. there \subseteq {r \in there : status[r] \in Wanted[view]}
    BY DEF Known, Fits
  <2>2. RowStep
    BY <1>1, <1>4, <2>1 DEF RowStep, Tick, walkVars, Created
  <2> QED BY <2>2, RowStepKeeps
<1>5. CASE \E s \in Slots : Sweep(s)
  <2> PICK s \in Slots : Sweep(s)
    BY <1>5
  <2>1. asked[s] \in Requests /\ asked' = [asked EXCEPT ![s] = [asked[s] EXCEPT !.swept = TRUE]]
    BY DEF Sweep
  <2>2. asked' \in [Slots -> Requests \cup {Free}]
    BY <2>1 DEF Requests
  <2>3. \A u \in Slots : SameRequest(u)
    BY <2>1 DEF SameRequest, Requests, Sweep
  <2>4. status' \in [Rows -> Statuses] /\ \A r \in Created : status'[r] # "none"
    BY DEF Sweep, Change, Created, Statuses
  <2>5. RowStep
    BY <2>2, <2>3, <2>4 DEF RowStep, Sweep, Change, walkVars
  <2> QED BY <2>5, RowStepKeeps
<1> QED BY <1>2, <1>3, <1>4, <1>5

-----------------------------------------------------------------------------
(* The steps of the walker. *)

LEMMA NewRequest ==
    ASSUME NEW v \in DOMAIN Sources, NEW c \in Nat
    PROVE  /\ Request(v, c) \in Requests
           /\ Request(v, c).view = v /\ Request(v, c).before = c
           /\ Request(v, c).left = Sources[v] /\ Request(v, c).items = {}
BY DEF Request, Requests, Sources, Ramps, TableNames

LEMMA StartKeeps ==
    ASSUME WalkInv, NEW v \in DOMAIN Sources, Start(v)
    PROVE  WalkInv'
<1> USE ListingsAssumption DEF WalkInv, Start
<1> DEFINE q == Request(v, FromNewest)
<1>1. FromNewest \in Nat /\ \A r \in Rows : at[r] < FromNewest
  BY DEF ListTypes, FromNewest
<1>2. /\ q \in Requests /\ q.view = v /\ q.before = FromNewest
      /\ q.left = Sources[v] /\ q.items = {}
  BY <1>1, NewRequest
<1> HIDE DEF q
<1>3. PICK s \in Slots : asked[s] = Free /\ asked' = [asked EXCEPT ![s] = q]
  BY DEF Ask, q
<1>4. /\ table' = table /\ at' = at /\ status' = status /\ now' = now
      /\ view' = v /\ cursor' = FromNewest /\ shown' = {} /\ again' = {}
      /\ there' = {r \in Rows : Fits(v, r)} /\ crossed' = (asked # Idle)
  BY DEF rowVars
<1>5. ListTypes'
  BY <1>1, <1>2, <1>3, <1>4 DEF ListTypes
<1>6. \A u \in Slots : u # s => asked'[u] = asked[u]
  BY <1>3 DEF ListTypes
<1>7. asked'[s] = q
  BY <1>3 DEF ListTypes
<1>8. Known'
  BY <1>2, <1>4, <1>6, <1>7 DEF Known, Fits, Created
<1>9. ~crossed' => \A u \in Slots : asked[u] = Free
  BY <1>4 DEF Idle
<1>10. OneAtATime'
  BY <1>2, <1>4, <1>6, <1>7, <1>9 DEF OneAtATime
<1>11. ReadIsCovered'
  BY <1>2, <1>4, <1>6, <1>7, <1>9 DEF ReadIsCovered, Fits
<1>12. WalkIsComplete' /\ NothingTwice' /\ ShownIsPast'
  BY <1>1, <1>4 DEF WalkIsComplete, NothingTwice, ShownIsPast
<1> QED BY <1>5, <1>8, <1>10, <1>11, <1>12

LEMMA LoadMoreKeeps == ASSUME WalkInv, LoadMore PROVE WalkInv'
<1> USE DEF WalkInv, LoadMore
<1> DEFINE q == Request(view, cursor)
<1>2. /\ q \in Requests /\ q.view = view /\ q.before = cursor
      /\ q.left = Sources[view] /\ q.items = {}
  BY NewRequest DEF ListTypes
<1> HIDE DEF q
<1>3. PICK s \in Slots : asked[s] = Free /\ asked' = [asked EXCEPT ![s] = q]
  BY DEF Ask, q
<1>4. /\ table' = table /\ at' = at /\ status' = status /\ now' = now
      /\ view' = view /\ cursor' = cursor /\ shown' = shown /\ again' = again
      /\ ties' = ties /\ there' = there /\ crossed' = (crossed \/ asked # Idle)
  BY DEF rowVars, walkVars
<1>5. ListTypes'
  BY <1>2, <1>3, <1>4 DEF ListTypes
<1>6. \A u \in Slots : u # s => asked'[u] = asked[u]
  BY <1>3 DEF ListTypes
<1>7. asked'[s] = q
  BY <1>3 DEF ListTypes
<1>8. Known'
  BY <1>2, <1>4, <1>6, <1>7 DEF Known, Fits, Created
<1>9. ~crossed' => ~crossed /\ \A u \in Slots : asked[u] = Free
  BY <1>4 DEF Idle
<1>10. OneAtATime'
  BY <1>2, <1>4, <1>6, <1>7, <1>9 DEF OneAtATime
<1>11. ReadIsCovered'
  BY <1>2, <1>4, <1>6, <1>7, <1>9 DEF ReadIsCovered, Known, Fits
<1>12. WalkIsComplete' /\ NothingTwice' /\ ShownIsPast'
  BY <1>4, <1>9 DEF WalkIsComplete, NothingTwice, ShownIsPast
<1> QED BY <1>5, <1>8, <1>10, <1>11, <1>12

LEMMA FailedKeeps == ASSUME WalkInv, NEW s \in Slots, Failed(s) PROVE WalkInv'
<1>1. \A u \in Slots : SameRequest(u)
  BY DEF SameRequest, Failed, WalkInv, ListTypes
<1>2. there \subseteq {r \in there : status[r] \in Wanted[view]}
  BY DEF WalkInv, Known, Fits
<1>3. RowStep
  BY <1>1, <1>2 DEF RowStep, Failed, rowVars, walkVars, WalkInv, ListTypes, Created
<1> QED BY <1>3, RowStepKeeps
-----------------------------------------------------------------------------
(* One table is read: what the walk is owed of it is on its page, or       *)
(* behind a full page of newer rows.                                       *)
LEMMA ReadPageKeeps == ASSUME WalkInv, NEW s \in Slots, ReadPage(s) PROVE WalkInv'
<1> USE DEF WalkInv
<1> DEFINE old == asked[s]
<1>1. old \in Requests /\ asked[s] # Free
  BY DEF ReadPage, ListTypes
<1>2. PICK t \in old.left :
        LET found == {r \in Rows : table[r] = t /\ Fits(old.view, r) /\ Before(r, old.before)}
        IN  \E page \in Pages(found) :
              asked' = [asked EXCEPT ![s].left = @ \ {t},
                                     ![s].items = @ \cup page,
                                     ![s].more = @ \/ page # found]
  BY DEF ReadPage
<1> DEFINE found == {r \in Rows : table[r] = t /\ Fits(old.view, r) /\ Before(r, old.before)}
<1>3. PICK page \in Pages(found) :
        asked' = [asked EXCEPT ![s].left = @ \ {t},
                               ![s].items = @ \cup page,
                               ![s].more = @ \/ page # found]
  BY <1>2
<1> DEFINE new == asked'[s]
<1>4. /\ new = [old EXCEPT !.left = @ \ {t}, !.items = @ \cup page, !.more = @ \/ page # found]
      /\ \A u \in Slots : u # s => asked'[u] = asked[u]
  BY <1>3 DEF ListTypes
<1>5. page \subseteq found /\ found \subseteq Rows /\ old.items \subseteq Rows
  BY <1>1 DEF Pages, Requests
<1>6. /\ new \in Requests /\ new.view = old.view /\ new.before = old.before
      /\ new.left = old.left \ {t} /\ new.items = old.items \cup page
      /\ new.more = (old.more \/ page # found)
  BY <1>1, <1>4, <1>5 DEF Requests
<1>7. /\ table' = table /\ at' = at /\ status' = status /\ now' = now
      /\ view' = view /\ cursor' = cursor /\ shown' = shown /\ again' = again
      /\ ties' = ties /\ there' = there /\ crossed' = crossed
  BY DEF ReadPage, rowVars, walkVars
<1>8. asked' \in [Slots -> Requests \cup {Free}]
  BY <1>3, <1>4, <1>6 DEF ListTypes
<1>9. ListTypes'
  BY <1>7, <1>8 DEF ListTypes
<1>10. found \subseteq Created
  BY <1>1, ListedIsCreated DEF Fits, Created, Requests
<1> HIDE DEF found, new, old
<1>11. Known'
  <2>1. \A u \in Slots : asked'[u] # Free => asked'[u].items \subseteq Created
    BY <1>1, <1>4, <1>5, <1>6, <1>10 DEF Known, old, new
  <2> QED BY <2>1, <1>7 DEF Known, Created, Fits
<1>12. \A r \in found : at[r] < old.before /\ table[r] = t /\ Fits(old.view, r)
  BY DEF found, Before
<1>13. OneAtATime'
  <2> SUFFICES ASSUME ~crossed', NEW u \in Slots, asked'[u] # Free
               PROVE  /\ \A w \in Slots : asked'[w] # Free => w = u
                      /\ asked'[u].view = view' /\ asked'[u].before = cursor'
                      /\ \A r \in asked'[u].items : at'[r] < cursor'
    BY DEF OneAtATime
  <2>1. ~crossed /\ old.before = cursor /\ old.view = view
    BY <1>1, <1>7 DEF OneAtATime, old
  <2>2. \A w \in Slots : asked'[w] # Free => w = s
    BY <1>1, <1>4, <2>1 DEF OneAtATime, old
  <2>3. \A r \in new.items : at[r] < cursor
    BY <1>1, <1>5, <1>6, <1>12, <2>1 DEF OneAtATime, old
  <2> QED BY <1>6, <1>7, <2>1, <2>2, <2>3 DEF new
<1>14. ReadIsCovered'
  <2> SUFFICES ASSUME ~crossed', NEW u \in Slots, asked'[u] # Free, NEW r \in there',
                      table'[r] \notin asked'[u].left, at'[r] < cursor'
               PROVE  \/ r \in asked'[u].items
                      \/ asked'[u].more /\ \E full \in SUBSET asked'[u].items :
                           Cardinality(full) = Limit /\ \A p \in full : at'[r] <= at'[p]
    BY DEF ReadIsCovered, Covered
  <2>1. ~crossed /\ old.before = cursor /\ old.view = view
    BY <1>1, <1>7 DEF OneAtATime, old
  <2>2. u = s
    BY <1>1, <1>4, <2>1 DEF OneAtATime
  <2>3. r \in Rows /\ Fits(view, r) /\ at[r] < cursor
    BY <1>7 DEF Known
  <2>4. CASE table[r] = t
    <3>1. r \in found
      BY <2>1, <2>3, <2>4 DEF found, Before
    <3>2. CASE page = found
      BY <3>1, <3>2, <2>2, <1>6 DEF new
    <3>3. CASE page # found /\ r \notin page
      <4>1. Cardinality(page) = Limit
        BY <3>3, <1>5, PageIsFull
      <4>2. \A p \in page : at[r] <= at[p]
        BY <3>1, <3>3, <1>5 DEF Pages, ListTypes
      <4> QED BY <4>1, <4>2, <3>3, <2>2, <1>6, <1>7 DEF new
    <3> QED BY <3>2, <3>3, <2>2, <1>6 DEF new
  <2>5. CASE table[r] # t
    <3>1. table[r] \notin old.left
      BY <2>5, <2>2, <1>6, <1>7 DEF new
    <3>2. r \in old.items \/ (old.more /\ Covered(r, old.items))
      BY <3>1, <2>1, <2>2, <2>3, <1>1, <1>7 DEF ReadIsCovered, old
    <3> QED BY <3>2, <2>2, <1>6, <1>7 DEF new, Covered
  <2> QED BY <2>4, <2>5
<1>15. WalkIsComplete' /\ NothingTwice' /\ ShownIsPast'
  BY <1>7 DEF WalkIsComplete, NothingTwice, ShownIsPast
<1> QED BY <1>9, <1>11, <1>13, <1>14, <1>15

(* The answer is put on the page: what was read and not shown is no newer  *)
(* than the page's last row.                                               *)
LEMMA AnsweredKeeps == ASSUME WalkInv, NEW s \in Slots, Answered(s) PROVE WalkInv'
<1> USE ListingsAssumption DEF WalkInv
<1> DEFINE q == asked[s]
           items == q.items
<1>1. q \in Requests /\ asked[s] # Free /\ q.left = {}
  BY DEF Answered, ListTypes
<1>2. items \in SUBSET Rows
  BY <1>1 DEF Requests
<1>3. PICK page \in Merged(items) :
        LET more == q.more \/ page # items
        IN  /\ shown' = shown \cup page
            /\ again' = again \cup (shown \cap page)
            /\ ties' = ties \cup {at[r] : r \in {p \in page : \A w \in page : at[p] <= at[w]}}
            /\ \/ /\ more /\ page # {}
                  /\ \E r \in items : LastOf(items, page, r) /\ cursor' = at[r]
               \/ /\ ~(more /\ page # {})
                  /\ cursor' = 0
  BY DEF Answered
<1>4. /\ table' = table /\ at' = at /\ status' = status /\ now' = now
      /\ view' = view /\ there' = there /\ crossed' = crossed
      /\ asked' = [asked EXCEPT ![s] = Free]
  BY DEF Answered, rowVars
<1>5. page \in Pages(items) /\ page \in SUBSET items
  BY DEF Merged, Pages
<1>6. \A r \in Rows : at[r] \in 0 .. MaxTime
  BY DEF ListTypes
<1>7. cursor' \in Nat
  BY <1>2, <1>3, <1>6
<1>8. asked'[s] = Free /\ \A u \in Slots : u # s => asked'[u] = asked[u]
  BY <1>4 DEF ListTypes
<1>9. ListTypes'
  BY <1>4, <1>7 DEF ListTypes
<1>10. shown' \subseteq Created /\ items \subseteq Created
  BY <1>1, <1>3, <1>5 DEF Known
<1>11. Known'
  BY <1>4, <1>8, <1>10 DEF Known, Created, Fits
<1>12. ASSUME ~crossed
       PROVE  /\ \A u \in Slots : asked'[u] = Free
              /\ \A r \in items : at[r] < cursor
  BY <1>1, <1>8, <1>12 DEF OneAtATime
<1>13. OneAtATime' /\ ReadIsCovered'
  BY <1>4, <1>12 DEF OneAtATime, ReadIsCovered
<1> HIDE DEF items
<1>14. NothingTwice'
  BY <1>3, <1>4, <1>5, <1>6, <1>12, <1>2 DEF NothingTwice, ShownIsPast, ListTypes
<1>15. \A r \in page : cursor' <= at[r]
  BY <1>2, <1>3, <1>5, <1>6 DEF LastOf
<1>16. ~crossed => cursor' <= cursor
  BY <1>2, <1>3, <1>6, <1>12 DEF ListTypes
<1>17. ShownIsPast'
  BY <1>3, <1>4, <1>15, <1>16, <1>7, <1>6, <1>10 DEF ShownIsPast, ListTypes, Created
<1>18. WalkIsComplete'
  <2> SUFFICES ASSUME ~crossed, NEW r \in there, r \notin shown', at[r] \notin ties'
               PROVE  at[r] < cursor'
    BY <1>4 DEF WalkIsComplete
  <2>1. r \in Rows /\ r \notin page /\ at[r] < cursor
    BY <1>3 DEF WalkIsComplete, Known
  <2>2. r \in items \/ (q.more /\ Covered(r, items))
    BY <2>1, <1>1 DEF ReadIsCovered, items
  <2>3. q.more \/ page # items
    BY <2>1, <2>2
  <2>4. page # {}
    <3>1. CASE page # items
      BY <3>1, <1>2, <1>5, PageIsFull
    <3>2. CASE page = items
      <4>1. PICK full \in SUBSET items : Cardinality(full) = Limit
        BY <3>2, <2>1, <2>2 DEF Covered
      <4>2. full # {}
        BY <4>1, FS_EmptySet
      <4> QED BY <4>2, <4>1, <3>2
    <3> QED BY <3>1, <3>2
  <2>5. PICK last \in items : LastOf(items, page, last) /\ cursor' = at[last]
    BY <1>3, <2>3, <2>4
  <2>6. last \in page /\ \A p \in page : at[last] <= at[p]
    BY <2>5 DEF LastOf
  <2>7. at[r] <= at[last]
    BY <2>1, <2>2, <2>6, <1>2, MergedPageCovers DEF ListTypes
  <2>8. at[last] \in ties'
    BY <1>3, <2>6
  <2> QED BY <2>1, <2>5, <2>7, <2>8, <1>2, <1>6
<1> QED BY <1>9, <1>11, <1>13, <1>14, <1>17, <1>18

LEMMA NextKeeps == WalkInv /\ [ListNext]_listVars => WalkInv'
<1> SUFFICES ASSUME WalkInv, [ListNext]_listVars PROVE WalkInv'
  OBVIOUS
<1>1. CASE UNCHANGED listVars
  <2>1. there \subseteq {r \in there : status[r] \in Wanted[view]}
    BY DEF WalkInv, Known, Fits
  <2>2. RowStep
    BY <1>1, <2>1 DEF RowStep, SameRequest, listVars, WalkInv, ListTypes, Created
  <2> QED BY <2>2, RowStepKeeps
<1>2. CASE \/ \E r \in Rows : Insert(r) \/ Complete(r) \/ SettleFee(r) \/ Remove(r)
           \/ Tick
           \/ \E s \in Slots : Sweep(s)
  BY <1>2, RowActions
<1>3. CASE \E v \in DOMAIN Sources : OpenTab(v)
  BY <1>3, StartKeeps DEF OpenTab
<1>4. CASE Reload
  BY <1>4, StartKeeps DEF Reload, WalkInv, ListTypes
<1>5. CASE LoadMore
  BY <1>5, LoadMoreKeeps
<1>6. CASE \E s \in Slots : ReadPage(s) \/ Answered(s) \/ Failed(s)
  BY <1>6, ReadPageKeeps, AnsweredKeeps, FailedKeeps
<1> QED BY <1>1, <1>2, <1>3, <1>4, <1>5, <1>6 DEF ListNext

(* The invariant of a walk, whatever pages load() has asked for.           *)
LEMMA WalkInvHolds == Spec => []WalkInv
<1>1. Init => WalkInv
  BY InitWalk DEF Init
<1>2. ASSUME WalkInv, [Next]_vars PROVE WalkInv'
  <2>1. [ListNext]_listVars
    BY <1>2 DEF Next, VisitPayouts, VisitBusinesses, VisitLists, VisitSettings, vars
  <2> QED BY <1>2, <2>1, NextKeeps
<1> QED BY <1>1, <1>2, PTL DEF Spec

(* For every number of rows, page size and number of requests: a walk that *)
(* sends one request at a time shows every row that is in the list all     *)
(* along, ties of a page's end excepted.                                   *)
THEOREM WalksAreComplete == Spec => []WalkIsComplete
<1>1. WalkInv => WalkIsComplete
  BY DEF WalkInv
<1> QED BY <1>1, WalkInvHolds, PTL

(* And such a walk shows no row twice.                                     *)
THEOREM WalksShowNothingTwice == Spec => []NothingTwice
<1>1. WalkInv => NothingTwice
  BY DEF WalkInv
<1> QED BY <1>1, WalkInvHolds, PTL

-----------------------------------------------------------------------------
(* The payout desk.  What is pressed is sent for what the script remembers; *)
(* that it is what the dialog shows holds because the two are only ever     *)
(* replaced together (openDetail), or the dialog by one without buttons.    *)

(* Records with the fields that they are made with. *)
Shaped(c) ==
    c = [op |-> c.op, of |-> c.of, shown |-> c.shown, terms |-> c.terms, wait |-> c.wait,
         reply |-> c.reply, view |-> c.view]
Remembered(m) == m = [of |-> m.of, hold |-> m.hold]
Drawn(d) == d = [kind |-> d.kind, of |-> d.of, busy |-> d.busy, box |-> d.box, price |-> d.price]

AgreedTo(c) ==
    [of |-> c.of, cap |-> c.terms.expected, extra |-> c.terms.new - c.terms.expected]

CallSound(c, decided, memory) ==
    /\ Shaped(c)
    /\ c.op \in Writes => c.of = c.shown
    /\ c.op = "acceptRate" => AgreedTo(c) \in decided
    /\ c.op = "quote" => Remembered(memory)

PageSound(memory, drawn, asking, paying) ==
    /\ drawn # None =>
         Drawn(drawn) /\ (drawn.kind = "txn" => Remembered(memory) /\ memory.of = drawn.of)
    /\ asking # None => asking.of = asking.names
    /\ paying # None => paying.of = paying.names

(* A release that is not on record yet: there is one request for it, once. *)
Releasing(c) == c.op = "acceptRate" /\ c.reply = "releasing"
RecordsInv ==
    /\ \A c \in InFlight : Releasing(c) =>
         /\ AcceptKey(c) \in keys /\ AcceptKey(c) \notin BagToSet(records)
         /\ calls[c] = 1
         /\ \A d \in InFlight : Releasing(d) /\ AcceptKey(d) = AcceptKey(c) => d = c
    /\ ReleaseIsOnRecord

DeskInv ==
    /\ IsABag(calls) /\ IsABag(records)
    /\ DOMAIN payout = Offramps
    /\ \A c \in InFlight : CallSound(c, agreed, ctx)
    /\ PageSound(ctx, dialog, confirm, fee)
    /\ RecordsInv

(* The requests in flight when one is sent, answered or done with. *)
LEMMA Added ==
    ASSUME NEW bag, IsABag(bag), NEW c
    PROVE LET new == bag (+) SetToBag({c})
          IN  /\ IsABag(new) /\ BagToSet(new) = BagToSet(bag) \cup {c}
              /\ \A e \in BagToSet(bag) \ {c} : new[e] = bag[e]
              /\ c \notin BagToSet(bag) => new[c] = 1
<1> DEFINE one == SetToBag({c})
           new == bag (+) one
<1>1. one = [e \in {c} |-> 1]
  BY DEF SetToBag
<1>2. new = [e \in DOMAIN bag \cup {c} |->
              (IF e \in DOMAIN bag THEN bag[e] ELSE 0) + (IF e \in {c} THEN 1 ELSE 0)]
  BY <1>1 DEF (+)
<1>3. \A e \in DOMAIN bag : bag[e] \in Nat /\ bag[e] > 0
  BY DEF IsABag
<1> HIDE DEF new
<1>4. DOMAIN new = DOMAIN bag \cup {c}
  BY <1>2
<1>5. \A e \in DOMAIN new : new[e] \in {n \in Nat : n > 0}
  BY <1>2, <1>3
<1>6. IsABag(new)
  BY <1>2, <1>4, <1>5 DEF IsABag
<1>7. \A e \in DOMAIN bag \ {c} : new[e] = bag[e]
  BY <1>2, <1>3
<1>8. c \notin DOMAIN bag => new[c] = 1
  BY <1>2
<1> QED
  BY <1>4, <1>6, <1>7, <1>8 DEF BagToSet, new

LEMMA Dropped ==
    ASSUME NEW bag, IsABag(bag), NEW c \in BagToSet(bag)
    PROVE LET new == bag (-) SetToBag({c})
          IN  /\ IsABag(new) /\ BagToSet(new) \subseteq BagToSet(bag)
              /\ BagToSet(bag) \ {c} \subseteq BagToSet(new)
              /\ \A e \in BagToSet(bag) \ {c} : new[e] = bag[e]
              /\ bag[c] = 1 => c \notin BagToSet(new)
<1> DEFINE one == SetToBag({c})
           left == [e \in DOMAIN bag |-> IF e \in DOMAIN one THEN bag[e] - one[e] ELSE bag[e]]
           new == bag (-) one
<1>1. one = [e \in {c} |-> 1]
  BY DEF SetToBag
<1>2. new = [e \in {d \in DOMAIN left : left[d] > 0} |-> left[e]]
  BY DEF (-)
<1>3. \A e \in DOMAIN bag : bag[e] \in Nat /\ bag[e] > 0
  BY DEF IsABag
<1>4. \A e \in DOMAIN bag : left[e] = IF e = c THEN bag[e] - 1 ELSE bag[e]
  BY <1>1
<1>5. DOMAIN left = DOMAIN bag
  OBVIOUS
<1> HIDE DEF left, new
<1>6. DOMAIN new = {d \in DOMAIN bag : left[d] > 0} /\ \A e \in DOMAIN new : new[e] = left[e]
  BY <1>2, <1>5
<1>7. \A e \in DOMAIN new : new[e] \in {n \in Nat : n > 0}
  BY <1>3, <1>4, <1>6
<1>8. IsABag(new)
  BY <1>2, <1>6, <1>7 DEF IsABag
<1>9. \A e \in DOMAIN bag \ {c} : e \in DOMAIN new /\ new[e] = bag[e]
  BY <1>3, <1>4, <1>6
<1>10. bag[c] = 1 => c \notin DOMAIN new
  BY <1>4, <1>6 DEF BagToSet
<1> QED
  BY <1>6, <1>8, <1>9, <1>10 DEF BagToSet, new

LEMMA WithBag ==
    ASSUME IsABag(calls), NEW c
    PROVE /\ IsABag(With(c)) /\ BagToSet(With(c)) = InFlight \cup {c}
          /\ \A e \in InFlight \ {c} : With(c)[e] = calls[e]
BY Added DEF With, InFlight

LEMMA WithoutBag ==
    ASSUME IsABag(calls), NEW c \in InFlight
    PROVE /\ IsABag(Without(c)) /\ BagToSet(Without(c)) \subseteq InFlight
          /\ InFlight \ {c} \subseteq BagToSet(Without(c))
          /\ \A e \in InFlight \ {c} : Without(c)[e] = calls[e]
          /\ calls[c] = 1 => c \notin BagToSet(Without(c))
BY Dropped DEF Without, InFlight

LEMMA ReplaceBag ==
    ASSUME IsABag(calls), NEW c \in InFlight, NEW d
    PROVE /\ IsABag(Replace(c, d)) /\ BagToSet(Replace(c, d)) \subseteq InFlight \cup {d}
          /\ d \in BagToSet(Replace(c, d)) /\ InFlight \ {c} \subseteq BagToSet(Replace(c, d))
          /\ \A e \in InFlight \ {c, d} : Replace(c, d)[e] = calls[e]
          /\ d \notin InFlight => Replace(c, d)[d] = 1
          /\ calls[c] = 1 /\ c # d => c \notin BagToSet(Replace(c, d))
<1> DEFINE less == Without(c)
           new == less (+) SetToBag({d})
<1>1. /\ IsABag(less) /\ BagToSet(less) \subseteq InFlight
      /\ InFlight \ {c} \subseteq BagToSet(less)
      /\ \A e \in InFlight \ {c} : less[e] = calls[e]
      /\ calls[c] = 1 => c \notin BagToSet(less)
  BY WithoutBag
<1> HIDE DEF less
<1>2. /\ IsABag(new) /\ BagToSet(new) = BagToSet(less) \cup {d}
      /\ \A e \in BagToSet(less) \ {d} : new[e] = less[e]
      /\ d \notin BagToSet(less) => new[d] = 1
  BY <1>1, Added
<1>3. Replace(c, d) = new
  BY DEF Replace, less
<1> HIDE DEF new
<1>4. \A e \in InFlight \ {c, d} : new[e] = calls[e]
  BY <1>1, <1>2
<1>5. d \notin InFlight => new[d] = 1
  BY <1>1, <1>2
<1> QED
  BY <1>1, <1>2, <1>3, <1>4, <1>5

(* What a step without a release in it may do to the requests. *)
CallsMove ==
    /\ UNCHANGED <<payout, keys, lost, records>>
    /\ agreed \subseteq agreed'
    /\ Remembered(ctx) => Remembered(ctx')
    /\ \/ calls' = calls
       \/ \E c : calls' = With(c) /\ CallSound(c, agreed', ctx') /\ ~Releasing(c)
       \/ \E c \in InFlight :
            /\ ~Releasing(c)
            /\ \/ calls' = Without(c)
               \/ \E d : calls' = Replace(c, d) /\ CallSound(d, agreed', ctx') /\ ~Releasing(d)

(* Such a step leaves the releases that are under way alone. *)
CallsKept ==
    /\ IsABag(calls')
    /\ \A c : Releasing(c) => (c \in InFlight <=> c \in InFlight')
                           /\ (c \in InFlight => calls'[c] = calls[c])
    /\ \A c \in InFlight' : c \in InFlight \/ CallSound(c, agreed', ctx')

LEMMA CallsMoveKeeps ==
    ASSUME DeskInv, CallsMove, PageSound(ctx', dialog', confirm', fee')
    PROVE DeskInv'
<1>1. CallsKept
  <2>1. CASE calls' = calls
    BY <2>1 DEF DeskInv, InFlight, CallsKept
  <2>2. ASSUME NEW c, calls' = With(c), CallSound(c, agreed', ctx'), ~Releasing(c)
        PROVE CallsKept
    <3>1. InFlight' = BagToSet(With(c))
      BY <2>2 DEF InFlight
    <3> QED
      BY <2>2, <3>1, WithBag DEF CallsKept, DeskInv
  <2>3. ASSUME NEW c \in InFlight, ~Releasing(c), calls' = Without(c) PROVE CallsKept
    <3>1. InFlight' = BagToSet(Without(c))
      BY <2>3 DEF InFlight
    <3> QED
      BY <2>3, <3>1, WithoutBag DEF CallsKept, DeskInv
  <2>4. ASSUME NEW c \in InFlight, ~Releasing(c),
               NEW d, calls' = Replace(c, d), CallSound(d, agreed', ctx'), ~Releasing(d)
        PROVE CallsKept
    <3>1. InFlight' = BagToSet(Replace(c, d))
      BY <2>4 DEF InFlight
    <3> QED
      BY <2>4, <3>1, ReplaceBag DEF CallsKept, DeskInv
  <2> QED
    BY <2>1, <2>2, <2>3, <2>4 DEF CallsMove
<1>2. \A c \in InFlight' : CallSound(c, agreed', ctx')
  BY <1>1 DEF CallsKept, DeskInv, CallSound, CallsMove
<1>3. ReleaseIsOnRecord'
  BY <1>1 DEF CallsKept, DeskInv, RecordsInv, ReleaseIsOnRecord, CallsMove, Releasing, AcceptKey
<1>4. \A c \in InFlight' : Releasing(c) =>
        /\ AcceptKey(c) \in keys' /\ AcceptKey(c) \notin BagToSet(records')
        /\ calls'[c] = 1
        /\ \A d \in InFlight' : Releasing(d) /\ AcceptKey(d) = AcceptKey(c) => d = c
  BY <1>1 DEF CallsKept, DeskInv, RecordsInv, CallsMove
<1>5. RecordsInv'
  BY <1>3, <1>4 DEF RecordsInv
<1> QED
  BY <1>1, <1>2, <1>5 DEF CallsKept, DeskInv, CallsMove
(* A request that is made, and one that is answered. *)
LEMMA NewCall ==
    ASSUME NEW op, NEW of, NEW sees, NEW terms, NEW wait, NEW decided, NEW memory,
           op \in Writes => of = sees,
           op = "acceptRate" =>
             [of |-> of, cap |-> terms.expected, extra |-> terms.new - terms.expected] \in decided,
           op = "quote" => Remembered(memory)
    PROVE LET c == Call(op, of, sees, terms, wait)
          IN  CallSound(c, decided, memory) /\ ~Releasing(c)
BY DeskAssumption DEF Call, CallSound, Shaped, AgreedTo, Releasing

LEMMA AnsweredCall ==
    ASSUME NEW decided, NEW memory, NEW c, CallSound(c, decided, memory), NEW reply
    PROVE LET d == [c EXCEPT !.reply = reply]
          IN  /\ CallSound(d, decided, memory)
              /\ d.op = c.op /\ d.reply = reply /\ AcceptKey(d) = AcceptKey(c)
<1>1. PICK d : d = [c EXCEPT !.reply = reply]
  OBVIOUS
<1>2. d = [op |-> c.op, of |-> c.of, shown |-> c.shown, terms |-> c.terms, wait |-> c.wait,
           reply |-> reply, view |-> c.view]
  BY <1>1 DEF CallSound, Shaped
<1>3. CallSound(d, decided, memory) /\ d.op = c.op /\ d.reply = reply
      /\ AcceptKey(d) = AcceptKey(c)
  BY <1>2 DEF CallSound, Shaped, AgreedTo, AcceptKey, Writes
<1> QED
  BY <1>1, <1>3

LEMMA HoldCall ==
    ASSUME NEW decided, NEW memory, NEW c, CallSound(c, decided, memory)
    PROVE LET d == [c EXCEPT !.op = "hold", !.reply = None]
          IN  CallSound(d, decided, memory) /\ d.reply = None
<1>1. PICK o : o = [c EXCEPT !.op = "hold"]
  OBVIOUS
<1>2. PICK g : g = [c EXCEPT !.op = "hold", !.reply = None]
  OBVIOUS
<1>3. g = [o EXCEPT !.reply = None]
  BY <1>1, <1>2
<1>4. o = [op |-> "hold", of |-> c.of, shown |-> c.shown, terms |-> c.terms, wait |-> c.wait,
           reply |-> c.reply, view |-> c.view]
  BY <1>1 DEF CallSound, Shaped
<1>5. g = [op |-> "hold", of |-> c.of, shown |-> c.shown, terms |-> c.terms, wait |-> c.wait,
           reply |-> None, view |-> c.view]
  BY <1>3, <1>4
<1>6. CallSound(g, decided, memory) /\ g.reply = None
  BY <1>5 DEF CallSound, Shaped, Writes
<1> QED
  BY <1>2, <1>6

(* Everything but the requests is as it was, or is for the dialog's own     *)
(* transaction.                                                             *)
LEMMA PageKept ==
    ASSUME DeskInv, UNCHANGED <<ctx, confirm, fee>>,
           dialog' # None =>
             /\ Drawn(dialog')
             /\ dialog'.kind = "txn" =>
                  dialog # None /\ dialog.kind = "txn" /\ dialog'.of = dialog.of
    PROVE PageSound(ctx', dialog', confirm', fee')
BY DEF DeskInv, PageSound

(* A dialog that is pressed, or given its button back. *)
LEMMA BusyDialog ==
    ASSUME NEW d, Drawn(d), NEW b
    PROVE LET e == [d EXCEPT !.busy = b] IN Drawn(e) /\ e.kind = d.kind /\ e.of = d.of
<1> DEFINE e == [d EXCEPT !.busy = b]
<1>1. e = [kind |-> d.kind, of |-> d.of, busy |-> b, box |-> d.box, price |-> d.price]
  BY DEF Drawn
<1> QED
  BY <1>1 DEF Drawn

LEMMA PressKeeps ==
    ASSUME DeskInv, dialog # None, NEW btn, NEW c, Press(btn, c),
           CallSound(c, agreed, ctx), ~Releasing(c)
    PROVE DeskInv'
<1>1. Drawn(dialog)
  BY DEF DeskInv, PageSound
<1>2. PageSound(ctx', dialog', confirm', fee')
  BY <1>1, BusyDialog, PageKept DEF Press
<1>3. calls' = With(c) /\ UNCHANGED <<payout, keys, lost, records, agreed, ctx>>
  BY DEF Press, Send, serverVars
<1>4. CallsMove
  BY <1>3 DEF CallsMove
<1> QED
  BY <1>2, <1>4, CallsMoveKeeps

(* The buttons of the dialog. *)
LEMMA ButtonsKeep ==
    ASSUME DeskInv,
           \/ \E outcome : Mark(outcome)
           \/ MarkFiatReceived \/ RetryFiatPayout \/ CheckHoldRate \/ Attest
    PROVE DeskInv'
<1>1. AtTxn => dialog # None /\ Remembered(ctx) /\ ctx.of = dialog.of
  BY DEF AtTxn, AtDialog, DeskInv, PageSound
<1>2. ASSUME NEW op, NEW btn, AtTxn, op # "acceptRate",
             Press(btn, Call(op, ctx.of, dialog.of, None, btn))
      PROVE DeskInv'
  <2>1. CallSound(Call(op, ctx.of, dialog.of, None, btn), agreed, ctx)
        /\ ~Releasing(Call(op, ctx.of, dialog.of, None, btn))
    BY <1>1, <1>2, NewCall
  <2> QED
    BY <1>1, <1>2, <2>1, PressKeeps
<1>3. CASE Attest
  <2>1. CallSound(Call("attest", dialog.of, dialog.of, None, "attest"), agreed, ctx)
        /\ ~Releasing(Call("attest", dialog.of, dialog.of, None, "attest"))
    BY NewCall
  <2> QED
    BY <1>3, <2>1, PressKeeps DEF Attest, AttestedId, AtDialog
<1>4. CASE \E outcome : Mark(outcome)
  BY <1>2, <1>4 DEF Mark
<1>5. CASE MarkFiatReceived
  BY <1>2, <1>5 DEF MarkFiatReceived
<1>6. CASE RetryFiatPayout
  BY <1>2, <1>6 DEF RetryFiatPayout
<1>7. CASE CheckHoldRate
  BY <1>2, <1>7 DEF CheckHoldRate
<1> QED
  BY <1>3, <1>4, <1>5, <1>6, <1>7

(* Opening and closing. *)
LEMMA RowsKeep ==
    ASSUME DeskInv,
           \/ \E t \in Txns : ClickRow(t) \/ ApproveFeeRow(t)
           \/ \E a \in Applications : OpenDakota(a)
           \/ CloseDetail \/ ApproveFee \/ CloseFee \/ CloseAcceptRate
    PROVE DeskInv'
<1>1. ASSUME NEW t, ClickRow(t) PROVE DeskInv'
  <2>1. CallSound(Call("open", t, t, None, "none"), agreed, ctx)
        /\ ~Releasing(Call("open", t, t, None, "none"))
    BY NewCall
  <2>2. /\ calls' = With(Call("open", t, t, None, "none"))
        /\ UNCHANGED <<payout, keys, lost, records, agreed, ctx, dialog, confirm, fee>>
    BY <1>1 DEF ClickRow, Send, serverVars, pageVars
  <2>3. CallsMove
    BY <2>1, <2>2 DEF CallsMove
  <2>4. PageSound(ctx', dialog', confirm', fee')
    BY <2>2 DEF DeskInv, PageSound
  <2> QED
    BY <2>3, <2>4, CallsMoveKeeps
<1>2. ASSUME NEW a, OpenDakota(a) PROVE DeskInv'
  <2>1. CallSound(Call("dakota", a, a, None, "none"), agreed, ctx)
        /\ ~Releasing(Call("dakota", a, a, None, "none"))
    BY NewCall
  <2>2. /\ calls' = With(Call("dakota", a, a, None, "none"))
        /\ UNCHANGED <<payout, keys, lost, records, agreed, ctx, confirm, fee>>
        /\ dialog' = [kind |-> "loading", of |-> a, busy |-> {}, box |-> "none", price |-> None]
    BY <1>2 DEF OpenDakota, Send, serverVars
  <2>3. CallsMove
    BY <2>1, <2>2 DEF CallsMove
  <2>4. Drawn(dialog') /\ dialog'.kind # "txn"
    BY <2>2 DEF Drawn
  <2>5. PageSound(ctx', dialog', confirm', fee')
    BY <2>2, <2>4, PageKept
  <2> QED
    BY <2>3, <2>5, CallsMoveKeeps
<1>3. CASE (\E t : ApproveFeeRow(t)) \/ CloseDetail \/ ApproveFee \/ CloseFee \/ CloseAcceptRate
  <2>1. UNCHANGED <<payout, keys, lost, records, agreed, ctx, calls>>
    BY <1>3 DEF ApproveFeeRow, CloseDetail, ApproveFee, CloseFee, CloseAcceptRate, serverVars
  <2>2. CallsMove
    BY <2>1 DEF CallsMove
  <2>3. PageSound(ctx', dialog', confirm', fee')
    <3>1. CASE \E t : ApproveFeeRow(t)
      BY <3>1 DEF ApproveFeeRow, DeskInv, PageSound
    <3>2. CASE CloseDetail
      BY <3>2 DEF CloseDetail, DeskInv, PageSound
    <3>3. CASE ApproveFee
      BY <3>3 DEF ApproveFee, AtTxn, AtDialog, DeskInv, PageSound
    <3>4. CASE CloseFee
      BY <3>4 DEF CloseFee, DeskInv, PageSound
    <3>5. CASE CloseAcceptRate
      BY <3>5 DEF CloseAcceptRate, DeskInv, PageSound
    <3> QED
      BY <1>3, <3>1, <3>2, <3>3, <3>4, <3>5
  <2> QED
    BY <2>2, <2>3, CallsMoveKeeps
<1> QED
  BY <1>1, <1>2, <1>3

LEMMA SubmitsKeep ==
    ASSUME DeskInv, SubmitFee \/ OpenAcceptRateConfirm \/ SubmitAcceptRate
    PROVE DeskInv'
<1>1. CASE SubmitFee
  <2> DEFINE c == Call("approveFee", fee.of, fee.names, None, "fee")
  <2>1. fee.of = fee.names
    BY <1>1 DEF SubmitFee, DeskInv, PageSound
  <2>2. CallSound(c, agreed, ctx) /\ ~Releasing(c)
    BY <2>1, NewCall
  <2>3. /\ calls' = With(c)
        /\ UNCHANGED <<payout, keys, lost, records, agreed, ctx, dialog, confirm, fee>>
    BY <1>1 DEF SubmitFee, Send, serverVars
  <2> HIDE DEF c
  <2>4. CallsMove
    BY <2>2, <2>3 DEF CallsMove
  <2>5. PageSound(ctx', dialog', confirm', fee')
    BY <2>3 DEF DeskInv, PageSound
  <2> QED
    BY <2>4, <2>5, CallsMoveKeeps
<1>2. CASE OpenAcceptRateConfirm
  <2>1. UNCHANGED <<payout, keys, lost, records, agreed, ctx, calls, dialog, fee>>
    BY <1>2 DEF OpenAcceptRateConfirm, serverVars
  <2>2. CallsMove
    BY <2>1 DEF CallsMove
  <2>3. confirm'.of = ctx.of /\ confirm'.names = dialog.of /\ ctx.of = dialog.of
    BY <1>2 DEF OpenAcceptRateConfirm, AtTxn, AtDialog, DeskInv, PageSound
  <2>4. PageSound(ctx', dialog', confirm', fee')
    BY <2>1, <2>3 DEF DeskInv, PageSound
  <2> QED
    BY <2>2, <2>4, CallsMoveKeeps
<1>3. CASE SubmitAcceptRate
  <2> DEFINE c == Call("acceptRate", confirm.of, confirm.names, Terms, "send")
             terms == [of |-> confirm.names, cap |-> confirm.expected,
                       extra |-> confirm.new - confirm.expected]
  <2>1. confirm.of = confirm.names
    BY <1>3 DEF SubmitAcceptRate, DeskInv, PageSound
  <2>2. /\ calls' = With(c) /\ agreed' = agreed \cup {terms}
        /\ UNCHANGED <<payout, keys, lost, records, ctx, dialog, confirm, fee>>
    BY <1>3 DEF SubmitAcceptRate, Send, serverVars
  <2>3. [of |-> confirm.of, cap |-> Terms.expected, extra |-> Terms.new - Terms.expected]
          \in agreed'
    BY <2>1, <2>2 DEF Terms
  <2>4. CallSound(c, agreed', ctx) /\ ~Releasing(c)
    BY <2>1, <2>3, NewCall
  <2> HIDE DEF c, terms
  <2>5. CallsMove
    BY <2>2, <2>4 DEF CallsMove
  <2>6. PageSound(ctx', dialog', confirm', fee')
    BY <2>2 DEF DeskInv, PageSound
  <2> QED
    BY <2>5, <2>6, CallsMoveKeeps
<1> QED
  BY <1>1, <1>2, <1>3

(* A request that is done with, and one that becomes another. *)
LEMMA DoneKeeps ==
    ASSUME DeskInv, NEW c \in InFlight, ~Releasing(c), calls' = Without(c),
           UNCHANGED <<serverVars, agreed>>, Remembered(ctx) => Remembered(ctx'),
           PageSound(ctx', dialog', confirm', fee')
    PROVE DeskInv'
<1>1. CallsMove
  BY DEF CallsMove, serverVars
<1> QED
  BY <1>1, CallsMoveKeeps

LEMMA BecomesKeeps ==
    ASSUME DeskInv, NEW c \in InFlight, ~Releasing(c), NEW d, calls' = Replace(c, d),
           CallSound(d, agreed, ctx'), ~Releasing(d),
           UNCHANGED <<serverVars, agreed>>, Remembered(ctx) => Remembered(ctx'),
           PageSound(ctx', dialog', confirm', fee')
    PROVE DeskInv'
<1>1. CallsMove
  BY DEF CallsMove, serverVars
<1> QED
  BY <1>1, CallsMoveKeeps

LEMMA ShowDetailKeeps ==
    ASSUME DeskInv, NEW c \in InFlight, ~Releasing(c), NEW seen, ShowDetail(c, seen)
    PROVE DeskInv'
<1> DEFINE q == Call("quote", c.of, c.of, None, "none")
<1>1. Remembered(ctx') /\ Drawn(dialog') /\ dialog'.of = ctx'.of
  BY DEF ShowDetail, Rendered, Remembered, Drawn
<1>2. UNCHANGED <<serverVars, agreed, confirm, fee>>
      /\ (calls' = Replace(c, q) \/ calls' = Without(c))
  BY DEF ShowDetail
<1>3. PageSound(ctx', dialog', confirm', fee')
  BY <1>1, <1>2 DEF DeskInv, PageSound
<1>4. CallSound(q, agreed, ctx') /\ ~Releasing(q)
  BY <1>1, NewCall
<1> HIDE DEF q
<1> QED
  BY <1>1, <1>2, <1>3, <1>4, DoneKeeps, BecomesKeeps

(* The page's code after an await. *)
LEMMA PageKeeps ==
    ASSUME DeskInv, NEW c \in InFlight, Page(c)
    PROVE DeskInv'
<1>1. CallSound(c, agreed, ctx) /\ PageSound(ctx, dialog, confirm, fee)
  BY DEF DeskInv
<1>2. ~Releasing(c)
  BY DEF Page, OpenAnswered, HoldAnswered, OpenFailed, MarkAnswered, RetryAnswered,
         PressFailed, FeeAnswered, QuoteAnswered, AcceptAnswered, AcceptFailed,
         DakotaAnswered, AttestAnswered, Releasing
<1>3. CASE OpenAnswered(c)
  <2>1. CASE c.of \in Offramps
    <3> PICK d : d = [c EXCEPT !.op = "hold", !.reply = None]
      OBVIOUS
    <3>1. CallSound(d, agreed, ctx) /\ d.reply = None
      BY <1>1, HoldCall
    <3>2. ~Releasing(d)
      BY <3>1, DeskAssumption DEF Releasing
    <3>3. calls' = Replace(c, d) /\ UNCHANGED <<serverVars, agreed, ctx, dialog, confirm, fee>>
      BY <1>3, <2>1 DEF OpenAnswered, pageVars
    <3>4. PageSound(ctx', dialog', confirm', fee')
      BY <1>1, <3>3 DEF PageSound
    <3> QED
      BY <1>2, <3>1, <3>2, <3>3, <3>4, BecomesKeeps
  <2>2. CASE c.of \notin Offramps
    BY <1>2, <1>3, <2>2, ShowDetailKeeps DEF OpenAnswered
  <2> QED
    BY <2>1, <2>2
<1>4. CASE HoldAnswered(c)
  BY <1>2, <1>4, ShowDetailKeeps DEF HoldAnswered
<1>5. CASE OpenFailed(c) \/ AcceptFailed(c)
  <2>1. calls' = Without(c) /\ UNCHANGED <<serverVars, agreed, ctx, dialog, confirm, fee>>
    BY <1>5 DEF OpenFailed, AcceptFailed
  <2>2. PageSound(ctx', dialog', confirm', fee')
    BY <1>1, <2>1 DEF PageSound
  <2> QED
    BY <1>2, <2>1, <2>2, DoneKeeps
<1>6. CASE MarkAnswered(c) \/ FeeAnswered(c)
  <2>1. /\ calls' = Without(c) /\ UNCHANGED <<serverVars, agreed, ctx, confirm>>
        /\ (dialog' = None \/ dialog' = dialog) /\ (fee' = None \/ fee' = fee)
    BY <1>6 DEF MarkAnswered, FeeAnswered
  <2>2. PageSound(ctx', dialog', confirm', fee')
    BY <1>1, <2>1 DEF PageSound
  <2> QED
    BY <1>2, <2>1, <2>2, DoneKeeps
<1>7. CASE RetryAnswered(c)
  <2> DEFINE d == Call("open", c.of, c.of, None, "none")
  <2>1. CallSound(d, agreed, ctx) /\ ~Releasing(d)
    BY NewCall
  <2>2. calls' = Replace(c, d) /\ UNCHANGED <<serverVars, agreed, ctx, dialog, confirm, fee>>
    BY <1>7 DEF RetryAnswered, pageVars
  <2> HIDE DEF d
  <2>3. PageSound(ctx', dialog', confirm', fee')
    BY <1>1, <2>2 DEF PageSound
  <2> QED
    BY <1>2, <2>1, <2>2, <2>3, BecomesKeeps
<1>8. CASE AcceptAnswered(c)
  <2> DEFINE d == Call("open", c.of, c.of, None, "send")
  <2>1. CallSound(d, agreed, ctx) /\ ~Releasing(d)
    BY NewCall
  <2>2. /\ calls' = Replace(c, d) /\ UNCHANGED <<serverVars, agreed, ctx, dialog, fee>>
        /\ confirm' = None
    BY <1>8 DEF AcceptAnswered
  <2> HIDE DEF d
  <2>3. PageSound(ctx', dialog', confirm', fee')
    BY <1>1, <2>2 DEF PageSound
  <2> QED
    BY <1>2, <2>1, <2>2, <2>3, BecomesKeeps
<1>9. CASE PressFailed(c) \/ AttestAnswered(c)
  <2>1. /\ calls' = Without(c) /\ UNCHANGED <<serverVars, agreed, ctx, confirm, fee>>
        /\ \/ dialog' = dialog
           \/ dialog # None /\ \E b : dialog' = [dialog EXCEPT !.busy = b]
    BY <1>9 DEF PressFailed, AttestAnswered
  <2>2. PageSound(ctx', dialog', confirm', fee')
    <3>1. CASE dialog' = dialog
      BY <1>1, <2>1, <3>1 DEF PageSound
    <3>2. CASE dialog # None /\ \E b : dialog' = [dialog EXCEPT !.busy = b]
      <4>1. Drawn(dialog)
        BY <1>1, <3>2 DEF PageSound
      <4> QED
        BY <2>1, <3>2, <4>1, BusyDialog, PageKept
    <3> QED
      BY <2>1, <3>1, <3>2
  <2> QED
    BY <1>2, <2>1, <2>2, DoneKeeps
<1>10. CASE QuoteAnswered(c)
  <2>1. Remembered(ctx)
    BY <1>1, <1>10 DEF CallSound, QuoteAnswered
  <2>2. Remembered(ctx') /\ ctx'.of = ctx.of
    <3>1. CASE c.reply = "failed"
      BY <1>10, <2>1, <3>1 DEF QuoteAnswered
    <3>2. CASE c.reply # "failed"
      <4>1. ctx' = [of |-> ctx.of, hold |-> c.view]
        BY <1>10, <2>1, <3>2 DEF QuoteAnswered, Remembered
      <4> QED
        BY <4>1 DEF Remembered
    <3> QED
      BY <3>1, <3>2
  <2>3. \/ dialog' = dialog
        \/ /\ dialog # None
           /\ \E x, p, b : dialog' = [dialog EXCEPT !.box = x, !.price = p, !.busy = b]
    BY <1>10 DEF QuoteAnswered
  <2>4. dialog' # None =>
          /\ dialog # None /\ Drawn(dialog') /\ dialog'.kind = dialog.kind
          /\ dialog'.of = dialog.of
    <3>1. CASE dialog' = dialog
      BY <1>1, <3>1 DEF PageSound
    <3>2. ASSUME NEW x, NEW p, NEW b, dialog # None,
                 dialog' = [dialog EXCEPT !.box = x, !.price = p, !.busy = b]
          PROVE /\ dialog # None /\ Drawn(dialog') /\ dialog'.kind = dialog.kind
                /\ dialog'.of = dialog.of
      <4>1. PICK d : d = [dialog EXCEPT !.box = x]
        OBVIOUS
      <4>2. PICK e : e = [d EXCEPT !.price = p]
        OBVIOUS
      <4>3. dialog' = [e EXCEPT !.busy = b]
        BY <3>2, <4>1, <4>2
      <4>4. d = [kind |-> dialog.kind, of |-> dialog.of, busy |-> dialog.busy,
                 box |-> x, price |-> dialog.price]
        BY <1>1, <3>2, <4>1 DEF PageSound, Drawn
      <4>5. e = [kind |-> dialog.kind, of |-> dialog.of, busy |-> dialog.busy,
                 box |-> x, price |-> p]
        BY <4>2, <4>4
      <4>6. dialog' = [kind |-> dialog.kind, of |-> dialog.of, busy |-> b,
                       box |-> x, price |-> p]
        BY <4>3, <4>5
      <4> QED
        BY <3>2, <4>6 DEF Drawn
    <3> QED
      BY <2>3, <3>1, <3>2
  <2>5. calls' = Without(c) /\ UNCHANGED <<serverVars, agreed, confirm, fee>>
    BY <1>10 DEF QuoteAnswered
  <2>6. PageSound(ctx', dialog', confirm', fee')
    BY <1>1, <2>2, <2>4, <2>5 DEF PageSound
  <2> QED
    BY <1>2, <2>2, <2>5, <2>6, DoneKeeps
<1>11. CASE DakotaAnswered(c)
  <2>1. calls' = Without(c) /\ UNCHANGED <<serverVars, agreed, ctx, confirm, fee>>
    BY <1>11 DEF DakotaAnswered
  <2>2. dialog' # None => Drawn(dialog') /\ dialog'.kind # "txn"
    BY <1>11 DEF DakotaAnswered, Drawn
  <2>3. PageSound(ctx', dialog', confirm', fee')
    BY <2>1, <2>2, PageKept
  <2> QED
    BY <1>2, <2>1, <2>3, DoneKeeps
<1> QED
  BY <1>3, <1>4, <1>5, <1>6, <1>7, <1>8, <1>9, <1>10, <1>11 DEF Page

(* The server.  An answer that is not the orchestrator's release. *)
LEMMA AnswerKeeps ==
    ASSUME DeskInv, NEW c \in InFlight, ~Releasing(c), NEW reply, reply # "releasing",
           Answer(c, reply), UNCHANGED <<serverVars, pageVars, agreed>>
    PROVE DeskInv'
<1> PICK d : d = [c EXCEPT !.reply = reply]
  OBVIOUS
<1>1. CallSound(d, agreed, ctx) /\ d.reply = reply
  BY AnsweredCall DEF DeskInv
<1>2. ~Releasing(d) /\ calls' = Replace(c, d)
  BY <1>1 DEF Releasing, Answer
<1>3. ctx' = ctx /\ PageSound(ctx', dialog', confirm', fee')
  BY DEF DeskInv, PageSound, pageVars
<1> QED
  BY <1>1, <1>2, <1>3, BecomesKeeps

(* What stays of DeskInv when only the server's books and the requests move. *)
LEMMA BooksMove ==
    ASSUME DeskInv, UNCHANGED pageVars, agreed \subseteq agreed', DOMAIN payout' = Offramps,
           IsABag(calls'), IsABag(records'),
           \A c \in InFlight' : c \in InFlight \/ CallSound(c, agreed, ctx),
           RecordsInv'
    PROVE DeskInv'
<1>1. \A c \in InFlight' : CallSound(c, agreed', ctx')
  BY DEF DeskInv, CallSound, pageVars
<1>2. PageSound(ctx', dialog', confirm', fee')
  BY DEF DeskInv, PageSound, pageVars
<1> QED
  BY <1>1, <1>2 DEF DeskInv

(* The orchestrator releases the payout: one request carries the news. *)
LEMMA ReleaseKeeps ==
    ASSUME DeskInv, NEW c \in InFlight, c.op = "acceptRate", c.reply = None,
           AcceptKey(c) \notin keys, keys' = keys \cup {AcceptKey(c)},
           NEW new, payout' = [payout EXCEPT ![c.of] = new], Answer(c, "releasing"),
           UNCHANGED <<records, lost, pageVars, agreed>>
    PROVE DeskInv'
<1> PICK d : d = [c EXCEPT !.reply = "releasing"]
  OBVIOUS
<1>1. /\ CallSound(d, agreed, ctx) /\ d.reply = "releasing" /\ d.op = c.op
      /\ AcceptKey(d) = AcceptKey(c)
  BY AnsweredCall DEF DeskInv
<1>2. Releasing(d) /\ ~Releasing(c) /\ calls' = Replace(c, d)
  BY <1>1, DeskAssumption DEF Releasing, Answer
<1>3. d \notin InFlight
  BY <1>1, <1>2 DEF DeskInv, RecordsInv
<1>4. /\ IsABag(calls') /\ InFlight' \subseteq InFlight \cup {d} /\ d \in InFlight'
      /\ InFlight \ {c} \subseteq InFlight' /\ calls'[d] = 1
      /\ \A e \in InFlight \ {c} : calls'[e] = calls[e]
  <2>1. InFlight' = BagToSet(Replace(c, d)) /\ IsABag(calls)
    BY <1>2 DEF InFlight, DeskInv
  <2> QED
    BY <1>2, <1>3, <2>1, ReplaceBag
<1>5. AcceptKey(c) \notin BagToSet(records)
  BY DEF DeskInv, RecordsInv, ReleaseIsOnRecord
<1>6. \A e \in InFlight' : Releasing(e) => e = d \/ (e \in InFlight /\ e # c)
  BY <1>2, <1>4
<1>7. \A e \in InFlight : Releasing(e) => AcceptKey(e) # AcceptKey(d)
  BY <1>1 DEF DeskInv, RecordsInv
<1>8. \A e \in InFlight' : Releasing(e) =>
        /\ AcceptKey(e) \in keys' /\ AcceptKey(e) \notin BagToSet(records')
        /\ calls'[e] = 1
        /\ \A f \in InFlight' : Releasing(f) /\ AcceptKey(f) = AcceptKey(e) => f = e
  BY <1>1, <1>4, <1>5, <1>6, <1>7 DEF DeskInv, RecordsInv
<1>9. ReleaseIsOnRecord'
  <2>1. \A k \in BagToSet(records') : k \in keys' /\ records'[k] = 1
    BY DEF DeskInv, RecordsInv, ReleaseIsOnRecord
  <2>2. ASSUME NEW k \in keys' \ lost'
        PROVE \/ BagIn(k, records')
              \/ \E e \in InFlight' : Releasing(e) /\ AcceptKey(e) = k
    <3>1. CASE k = AcceptKey(c)
      BY <1>1, <1>2, <1>4, <3>1
    <3>2. CASE k # AcceptKey(c)
      BY <1>2, <1>4, <2>2, <3>2 DEF DeskInv, RecordsInv, ReleaseIsOnRecord, Releasing
    <3> QED
      BY <3>1, <3>2
  <2> QED
    BY <2>1, <2>2 DEF ReleaseIsOnRecord, Releasing
<1>10. RecordsInv'
  BY <1>8, <1>9 DEF RecordsInv
<1>11. DOMAIN payout' = Offramps /\ IsABag(records')
  BY DEF DeskInv
<1> QED
  BY <1>1, <1>4, <1>10, <1>11, BooksMove

LEMMA PutOnRecord ==
    ASSUME IsABag(records), NEW k, k \notin BagToSet(records),
           \A m \in BagToSet(records) : records[m] = 1,
           records' = records (+) SetToBag({k})
    PROVE /\ IsABag(records') /\ BagToSet(records') = BagToSet(records) \cup {k}
          /\ \A m \in BagToSet(records') : records'[m] = 1
<1> DEFINE new == records (+) SetToBag({k})
<1>1. /\ IsABag(new) /\ BagToSet(new) = BagToSet(records) \cup {k}
      /\ \A e \in BagToSet(records) \ {k} : new[e] = records[e]
      /\ k \notin BagToSet(records) => new[k] = 1
  BY Added
<1> HIDE DEF new
<1>2. \A m \in BagToSet(new) : new[m] = 1
  BY <1>1
<1>3. records' = new
  BY DEF new
<1> QED
  BY <1>1, <1>2, <1>3

(* The news arrives and is put on record, or is lost. *)
LEMMA NewsKeeps ==
    ASSUME DeskInv, NEW c \in InFlight, Releasing(c), NEW reply, reply # "releasing",
           Answer(c, reply), UNCHANGED <<payout, keys, pageVars, agreed>>,
           \/ records' = records (+) SetToBag({AcceptKey(c)}) /\ lost' = lost
           \/ records' = records /\ lost' = lost \cup {AcceptKey(c)}
    PROVE DeskInv'
<1> PICK d : d = [c EXCEPT !.reply = reply]
  OBVIOUS
<1>1. CallSound(d, agreed, ctx) /\ d.reply = reply
  BY AnsweredCall DEF DeskInv
<1>2. ~Releasing(d) /\ d # c /\ calls' = Replace(c, d) /\ calls[c] = 1
  BY <1>1 DEF Releasing, Answer, DeskInv, RecordsInv
<1>3. /\ IsABag(calls') /\ InFlight' \subseteq InFlight \cup {d} /\ c \notin InFlight'
      /\ InFlight \ {c} \subseteq InFlight'
      /\ \A e \in InFlight \ {c, d} : calls'[e] = calls[e]
  <2>1. InFlight' = BagToSet(Replace(c, d)) /\ IsABag(calls)
    BY <1>2 DEF InFlight, DeskInv
  <2> QED
    BY <1>2, <2>1, ReplaceBag
<1>4. AcceptKey(c) \in keys /\ AcceptKey(c) \notin BagToSet(records)
  BY DEF DeskInv, RecordsInv
<1>5. \A e \in InFlight' : Releasing(e) =>
        e \in InFlight /\ e # c /\ e # d /\ AcceptKey(e) # AcceptKey(c)
  BY <1>2, <1>3 DEF DeskInv, RecordsInv
<1>6. /\ IsABag(records') /\ BagToSet(records') \subseteq BagToSet(records) \cup {AcceptKey(c)}
      /\ BagToSet(records) \subseteq BagToSet(records')
      /\ \A k \in BagToSet(records') : k \in keys /\ records'[k] = 1
      /\ AcceptKey(c) \in BagToSet(records') \cup lost'
  <2>1. IsABag(records) /\ \A m \in BagToSet(records) : m \in keys /\ records[m] = 1
    BY DEF DeskInv, RecordsInv, ReleaseIsOnRecord
  <2>2. CASE records' = records /\ lost' = lost \cup {AcceptKey(c)}
    BY <1>4, <2>1, <2>2
  <2>3. CASE records' = records (+) SetToBag({AcceptKey(c)})
    BY <1>4, <2>1, <2>3, PutOnRecord
  <2> QED
    BY <2>2, <2>3
<1>7. \A e \in InFlight' : Releasing(e) =>
        /\ AcceptKey(e) \in keys' /\ AcceptKey(e) \notin BagToSet(records')
        /\ calls'[e] = 1
        /\ \A f \in InFlight' : Releasing(f) /\ AcceptKey(f) = AcceptKey(e) => f = e
  BY <1>3, <1>5, <1>6 DEF DeskInv, RecordsInv
<1>8. ReleaseIsOnRecord'
  <2>1. ASSUME NEW k \in keys' \ lost'
        PROVE \/ BagIn(k, records')
              \/ \E e \in InFlight' : Releasing(e) /\ AcceptKey(e) = k
    <3>1. CASE k = AcceptKey(c)
      BY <1>6, <2>1, <3>1 DEF BagIn
    <3>2. CASE k # AcceptKey(c)
      <4>1. \/ BagIn(k, records)
            \/ \E e \in InFlight : Releasing(e) /\ AcceptKey(e) = k
        BY <2>1 DEF DeskInv, RecordsInv, ReleaseIsOnRecord, Releasing
      <4> QED
        BY <1>3, <1>6, <3>2, <4>1 DEF BagIn
    <3> QED
      BY <3>1, <3>2
  <2> QED
    BY <1>6, <2>1 DEF ReleaseIsOnRecord, Releasing
<1>9. RecordsInv'
  BY <1>7, <1>8 DEF RecordsInv
<1>10. DOMAIN payout' = Offramps
  BY DEF DeskInv
<1> QED
  BY <1>1, <1>3, <1>6, <1>9, <1>10, BooksMove

LEMMA ServerKeeps ==
    ASSUME DeskInv, NEW c \in InFlight, Server(c)
    PROVE DeskInv'
<1>1. CASE Refuse(c)
  BY <1>1, AnswerKeeps, DeskAssumption DEF Refuse, Releasing
<1>2. CASE Serve(c)
  BY <1>2, AnswerKeeps, DeskAssumption DEF Serve, Releasing
<1>3. CASE ServeHold(c)
  <2> PICK seen : seen = HoldOf(c.of, c.op = "quote")
    OBVIOUS
  <2>1. PICK d : d = [c EXCEPT !.reply = "ok", !.view = seen]
    OBVIOUS
  <2>2. CallSound(d, agreed, ctx) /\ d.reply = "ok"
    <3>1. CallSound(c, agreed, ctx)
      BY DEF DeskInv
    <3>2. PICK e : e = [c EXCEPT !.reply = "ok"]
      OBVIOUS
    <3>3. d = [e EXCEPT !.view = seen]
      BY <2>1, <3>2
    <3> QED
      <4>1. e = [op |-> c.op, of |-> c.of, shown |-> c.shown, terms |-> c.terms,
                 wait |-> c.wait, reply |-> "ok", view |-> c.view]
        BY <3>1, <3>2 DEF CallSound, Shaped
      <4>2. d = [op |-> c.op, of |-> c.of, shown |-> c.shown, terms |-> c.terms,
                 wait |-> c.wait, reply |-> "ok", view |-> seen]
        BY <3>3, <4>1
      <4> QED
        BY <3>1, <4>2 DEF CallSound, Shaped, AgreedTo, Writes
  <2>3. calls' = Replace(c, d) /\ UNCHANGED <<serverVars, pageVars, agreed>> /\ ~Releasing(c)
    BY <1>3, <2>1, DeskAssumption DEF ServeHold, Carry, Releasing
  <2>4. ~Releasing(d)
    BY <2>2 DEF Releasing
  <2>5. ctx' = ctx /\ PageSound(ctx', dialog', confirm', fee')
    BY <2>3 DEF DeskInv, PageSound, pageVars
  <2> QED
    BY <2>2, <2>3, <2>4, <2>5, BecomesKeeps
<1>4. CASE AcceptAtOrchestrator(c)
  <2>1. c.op = "acceptRate" /\ c.reply = None /\ UNCHANGED <<cost, records, lost, pageVars, agreed>>
    BY <1>4 DEF AcceptAtOrchestrator
  <2>2. ~Releasing(c)
    BY <2>1, DeskAssumption DEF Releasing
  <2>3. CASE UNCHANGED <<payout, keys>> /\ (Answer(c, "replaying") \/ Answer(c, "failed"))
    BY <2>1, <2>2, <2>3, AnswerKeeps DEF serverVars
  <2>4. CASE /\ AcceptKey(c) \notin keys
             /\ payout' = [payout EXCEPT ![c.of] = [state |-> "sending", cap |-> c.terms.new]]
             /\ keys' = keys \cup {AcceptKey(c)}
             /\ Answer(c, "releasing")
    BY <2>1, <2>4, ReleaseKeeps
  <2> QED
    BY <1>4, <2>3, <2>4 DEF AcceptAtOrchestrator, NewCap
<1>5. CASE RecordAccept(c) \/ LoseAccept(c)
  <2>1. /\ c.op = "acceptRate" /\ c.reply \in {"releasing", "replaying"}
        /\ UNCHANGED <<payout, cost, keys, pageVars, agreed>>
    BY <1>5 DEF RecordAccept, LoseAccept
  <2>2. CASE c.reply = "replaying"
    <3>1. UNCHANGED <<records, lost>> /\ (Answer(c, "replay") \/ Answer(c, "failed"))
      BY <1>5, <2>2 DEF RecordAccept, LoseAccept
    <3> QED
      BY <2>1, <2>2, <3>1, AnswerKeeps DEF serverVars, Releasing
  <2>3. CASE c.reply = "releasing"
    <3>1. CASE RecordAccept(c)
      <4>1. Answer(c, "ok") \/ Answer(c, "failed")
        BY <2>3, <3>1 DEF RecordAccept
      <4>2. records' = records (+) SetToBag({AcceptKey(c)}) /\ lost' = lost
        BY <2>3, <3>1 DEF RecordAccept
      <4> QED
        BY <2>1, <2>3, <4>1, <4>2, NewsKeeps DEF Releasing
    <3>2. CASE LoseAccept(c)
      BY <2>1, <2>3, <3>2, NewsKeeps DEF LoseAccept, Releasing
    <3> QED
      BY <1>5, <3>1, <3>2
  <2> QED
    BY <2>1, <2>2, <2>3
<1> QED
  BY <1>1, <1>2, <1>3, <1>4, <1>5 DEF Server

(* The orchestrator's own steps, and another operator's. *)
LEMMA OutsideKeeps ==
    ASSUME DeskInv,
           \E f \in Offramps : SendPayout(f) \/ ReleasedElsewhere(f) \/ PriceMoves(f)
    PROVE DeskInv'
<1>1. ASSUME NEW f \in Offramps, SendPayout(f) PROVE DeskInv'
  <2>1. UNCHANGED <<keys, records, lost, calls, agreed, pageVars>> /\ DOMAIN payout' = Offramps
    BY <1>1 DEF SendPayout, DeskInv
  <2>2. RecordsInv'
    BY <2>1 DEF DeskInv, RecordsInv, ReleaseIsOnRecord, InFlight
  <2> QED
    BY <2>1, <2>2, BooksMove DEF DeskInv, InFlight
<1>2. ASSUME NEW f \in Offramps, ReleasedElsewhere(f) PROVE DeskInv'
  <2> PICK k : k = <<f, payout[f].cap, SuggestedCap(cost[f], payout[f].cap)>>
    OBVIOUS
  <2>1. /\ k \notin keys /\ keys' = keys \cup {k} /\ records' = records (+) SetToBag({k})
        /\ agreed \subseteq agreed' /\ UNCHANGED <<lost, pageVars, calls>>
        /\ DOMAIN payout' = Offramps
    BY <1>2 DEF ReleasedElsewhere, DeskInv
  <2>2. IsABag(records) /\ \A m \in BagToSet(records) : m \in keys /\ records[m] = 1
    BY DEF DeskInv, RecordsInv, ReleaseIsOnRecord
  <2>3. /\ IsABag(records') /\ BagToSet(records') = BagToSet(records) \cup {k}
        /\ \A m \in BagToSet(records') : records'[m] = 1
    BY <2>1, <2>2, PutOnRecord
  <2>4. InFlight' = InFlight
    BY <2>1 DEF InFlight
  <2>5. RecordsInv'
    <3>1. \A c \in InFlight : Releasing(c) =>
            /\ AcceptKey(c) \in keys /\ AcceptKey(c) \notin BagToSet(records)
            /\ calls[c] = 1
            /\ \A d \in InFlight : Releasing(d) /\ AcceptKey(d) = AcceptKey(c) => d = c
      BY DEF DeskInv, RecordsInv
    <3>2. \A m \in keys \ lost :
            BagIn(m, records) \/ \E c \in InFlight : Releasing(c) /\ AcceptKey(c) = m
      BY DEF DeskInv, RecordsInv, ReleaseIsOnRecord, Releasing
    <3>3. ReleaseIsOnRecord'
      BY <2>1, <2>2, <2>3, <2>4, <3>2 DEF ReleaseIsOnRecord, Releasing, BagIn
    <3> QED
      BY <2>1, <2>3, <2>4, <3>1, <3>3 DEF RecordsInv
  <2> QED
    BY <2>1, <2>3, <2>4, <2>5, BooksMove DEF DeskInv
<1>3. ASSUME NEW f \in Offramps, PriceMoves(f) PROVE DeskInv'
  <2>1. UNCHANGED <<payout, keys, records, lost, calls, agreed, pageVars>>
    BY <1>3 DEF PriceMoves
  <2>2. RecordsInv'
    BY <2>1 DEF DeskInv, RecordsInv, ReleaseIsOnRecord, InFlight
  <2> QED
    BY <2>1, <2>2, BooksMove DEF DeskInv, InFlight
<1> QED
  BY <1>1, <1>2, <1>3

LEMMA DeskInitHolds ==
    ASSUME DeskInit PROVE DeskInv
<1>1. EmptyBag = [e \in {} |-> 1]
  BY DEF EmptyBag, SetToBag
<1>2. IsABag(EmptyBag) /\ BagToSet(EmptyBag) = {}
  BY <1>1 DEF IsABag, BagToSet
<1> QED
  BY <1>2 DEF DeskInit, DeskInv, PageSound, RecordsInv, ReleaseIsOnRecord, InFlight

LEMMA DeskNextKeeps ==
    ASSUME DeskInv, DeskNext PROVE DeskInv'
<1>1. CASE Operator
  BY <1>1, ButtonsKeep, RowsKeep, SubmitsKeep DEF Operator
<1> QED
  BY <1>1, PageKeeps, ServerKeeps, OutsideKeeps DEF DeskNext

LEMMA DeskInvHolds == Spec => []DeskInv
<1>1. Init => DeskInv
  BY DeskInitHolds DEF Init
<1>2. DeskInv /\ [Next]_vars => DeskInv'
  <2> SUFFICES ASSUME DeskInv, [Next]_vars PROVE DeskInv'
    OBVIOUS
  <2>1. CASE VisitPayouts
    BY <2>1, DeskNextKeeps DEF VisitPayouts
  <2>2. CASE UNCHANGED <<serverVars, pageVars, calls, agreed>>
    BY <2>2 DEF serverVars, pageVars, DeskInv, CallSound, PageSound, RecordsInv,
                ReleaseIsOnRecord, InFlight
  <2> QED
    BY <2>1, <2>2 DEF Next, vars, deskVars, VisitBusinesses, VisitLists, VisitSettings
<1> QED
  BY <1>1, <1>2, PTL DEF Spec

(* ActionIsForShown (PayoutDesk): a mark, a retry, an approval, a release or an *)
(* attestation goes to the server for the transaction the dialog showed.        *)
THEOREM PressedIsWhatWasShown == Spec => []ActionIsForShown
<1>1. DeskInv => ActionIsForShown
  BY DEF DeskInv, CallSound, ActionIsForShown
<1> QED
  BY <1>1, DeskInvHolds, PTL

(* ReleaseIsOnRecord (PayoutDesk): a release that an operator has had the answer *)
(* to is in the audit trail (acceptHeldPayoutRate), and once, however often the  *)
(* same decision is sent; unless the server never learned of it.                 *)
THEOREM ReleasesAreOnRecord == Spec => []ReleaseIsOnRecord
<1>1. DeskInv => ReleaseIsOnRecord
  BY DEF DeskInv, RecordsInv
<1> QED
  BY <1>1, DeskInvHolds, PTL

(* A payout that leaves its hold does so on terms that were agreed to. *)
Agreed ==
    \A f \in Offramps :
         payout[f].state = "held" /\ payout'[f].state = "sending" =>
           [of |-> f, cap |-> payout[f].cap,
            extra |-> payout'[f].cap - payout[f].cap] \in agreed'

LEMMA StepAgreed ==
    ASSUME DeskInv, [Next]_vars PROVE Agreed
<1>1. CASE UNCHANGED payout
  BY <1>1 DEF Agreed
<1>2. ASSUME NEW c \in InFlight, AcceptAtOrchestrator(c) PROVE Agreed
  <2>1. CASE UNCHANGED payout
    BY <2>1, <1>1
  <2>2. CASE /\ payout[c.of] = [state |-> "held", cap |-> ExpectedCap(c)]
             /\ payout' = [payout EXCEPT ![c.of] = [state |-> "sending", cap |-> c.terms.new]]
    <3>1. DOMAIN payout = Offramps /\ AgreedTo(c) \in agreed
      BY <1>2 DEF DeskInv, CallSound, AcceptAtOrchestrator
    <3>2. agreed' = agreed
      BY <1>2 DEF AcceptAtOrchestrator
    <3>3. ASSUME NEW f \in Offramps, payout[f].state = "held", payout'[f].state = "sending"
          PROVE [of |-> f, cap |-> payout[f].cap,
                 extra |-> payout'[f].cap - payout[f].cap] \in agreed'
      <4>1. CASE f = c.of
        <5>1. payout[f].cap = c.terms.expected /\ payout'[f].cap = c.terms.new
          BY <2>2, <3>1, <4>1 DEF ExpectedCap
        <5> QED
          BY <3>1, <3>2, <4>1, <5>1 DEF AgreedTo
      <4>2. CASE f # c.of
        BY <2>2, <3>1, <3>3, <4>2
      <4> QED
        BY <4>1, <4>2
    <3> QED
      BY <3>3 DEF Agreed
  <2> QED
    BY <1>2, <2>1, <2>2 DEF AcceptAtOrchestrator, NewCap
<1>3. ASSUME NEW g \in Offramps, SendPayout(g) PROVE Agreed
  <2>1. DOMAIN payout = Offramps /\ payout[g].state = "sending"
    BY <1>3 DEF SendPayout, DeskInv
  <2>2. \A f \in Offramps \ {g} : payout'[f] = payout[f]
    BY <1>3, <2>1 DEF SendPayout
  <2> QED
    BY <2>1, <2>2 DEF Agreed
<1>4. ASSUME NEW g \in Offramps, ReleasedElsewhere(g) PROVE Agreed
  <2> PICK old, new : old = payout[g].cap /\ new = SuggestedCap(cost[g], old)
    OBVIOUS
  <2>1. /\ DOMAIN payout = Offramps
        /\ payout' = [payout EXCEPT ![g] = [state |-> "sending", cap |-> new]]
        /\ agreed' = agreed \cup {[of |-> g, cap |-> old, extra |-> new - old]}
    BY <1>4 DEF ReleasedElsewhere, DeskInv
  <2>2. payout'[g].cap = new /\ \A f \in Offramps \ {g} : payout'[f] = payout[f]
    BY <2>1
  <2> QED
    BY <2>1, <2>2 DEF Agreed
<1>5. CASE VisitPayouts
  <2>1. CASE Operator
    <3>1. UNCHANGED payout
      BY <2>1 DEF Operator, ClickRow, ApproveFeeRow, Mark, OpenDakota, CloseDetail,
         MarkFiatReceived, RetryFiatPayout, ApproveFee, CloseFee, SubmitFee, CheckHoldRate,
         OpenAcceptRateConfirm, CloseAcceptRate, SubmitAcceptRate, Attest, Press, serverVars
    <3> QED
      BY <1>1, <3>1
  <2>2. ASSUME NEW c \in InFlight, Page(c) PROVE Agreed
    <3>1. UNCHANGED payout
      BY <2>2 DEF Page, OpenAnswered, HoldAnswered, OpenFailed, MarkAnswered, RetryAnswered,
         PressFailed, FeeAnswered, QuoteAnswered, AcceptAnswered, AcceptFailed,
         DakotaAnswered, AttestAnswered, ShowDetail, serverVars
    <3> QED
      BY <1>1, <3>1
  <2>3. ASSUME NEW c \in InFlight, Server(c) PROVE Agreed
    <3>1. AcceptAtOrchestrator(c) \/ UNCHANGED payout
      BY <2>3 DEF Server, Refuse, Serve, ServeHold, RecordAccept, LoseAccept, serverVars
    <3> QED
      BY <1>1, <1>2, <3>1
  <2>4. ASSUME NEW f \in Offramps, PriceMoves(f) PROVE Agreed
    BY <1>1, <2>4 DEF PriceMoves
  <2> QED
    BY <1>3, <1>4, <1>5, <2>1, <2>2, <2>3, <2>4 DEF VisitPayouts, DeskNext
<1> QED
  BY <1>1, <1>5 DEF Next, vars, deskVars, serverVars, VisitBusinesses, VisitLists, VisitSettings

(* ReleaseIsAgreed (PayoutDesk): the cap a payout is held at, and how much it   *)
(* may rise, are what an operator confirmed for that payout.                    *)
THEOREM ReleasesAreAgreed == Spec => ReleaseIsAgreed
<1>1. DeskInv /\ [Next]_vars => [Agreed]_deskVars
  BY StepAgreed
<1>2. Spec => [][Agreed]_deskVars
  BY <1>1, DeskInvHolds, PTL DEF Spec
<1> QED
  BY <1>2 DEF Agreed, ReleaseIsAgreed

-----------------------------------------------------------------------------
(* The businesses tab.  What a dialog shows came with an answer that was    *)
(* sent for its own business, or crossed says that it did not.              *)
BizFields == {"user", "tab", "idsOf", "own", "house", "loading", "loaded", "error",
              "type", "txnsOf", "listed", "crossed"}
BizInv ==
    /\ DOMAIN biz = BizFields /\ DOMAIN biz.txnsOf = B!Types
    /\ biz.crossed \in BOOLEAN
    /\ ShownIsOwn

LEMMA BizStep ==
    ASSUME BizInv, B!BizNext PROVE BizInv'
<1>1. CASE UNCHANGED biz
  BY <1>1 DEF BizInv, ShownIsOwn, B!ShownIsOwn, B!Open
<1>2. ASSUME NEW b, B!OpenBusiness(b) PROVE BizInv'
  BY <1>2 DEF B!OpenBusiness, B!Opened, BizInv, ShownIsOwn, B!ShownIsOwn, B!Open, BizFields
<1>3. CASE B!CloseBusiness
  BY <1>3 DEF B!CloseBusiness, BizInv, ShownIsOwn, B!ShownIsOwn, B!Open, BizFields
<1>4. ASSUME NEW tab, B!SwitchTab(tab) PROVE BizInv'
  BY <1>4 DEF B!SwitchTab, BizInv, ShownIsOwn, B!ShownIsOwn, B!Open, BizFields
<1>5. ASSUME NEW c, B!ProvidersAnswered(c) PROVE BizInv'
  BY <1>5 DEF B!ProvidersAnswered, B!Crossed, BizInv, ShownIsOwn, B!ShownIsOwn, B!Open, BizFields
<1>6. ASSUME NEW c, B!TransactionsAnswered(c) PROVE BizInv'
  <2>1. CASE c.reply = "failed"
    BY <1>1, <1>6, <2>1 DEF B!TransactionsAnswered
  <2>2. CASE c.reply # "failed"
    <3> PICK theirs : theirs = IF c.op = "more" THEN biz.txnsOf[c.what] \cup {c.of} ELSE {c.of}
      OBVIOUS
    <3>1. /\ DOMAIN biz' = BizFields /\ DOMAIN biz'.txnsOf = B!Types
          /\ biz'.crossed = (biz.crossed \/ c.of # biz.user)
          /\ biz'.user = biz.user /\ biz'.idsOf = biz.idsOf /\ biz'.own = biz.own
          /\ \A t \in B!Types : biz'.txnsOf[t] = IF t = c.what THEN theirs ELSE biz.txnsOf[t]
      BY <1>6, <2>2 DEF B!TransactionsAnswered, B!Crossed, BizInv, BizFields
    <3>2. ASSUME biz.user # None, ~biz'.crossed, NEW t \in B!Types
          PROVE biz'.txnsOf[t] \subseteq {biz.user}
      <4>1. c.of = biz.user /\ ~biz.crossed
        BY <3>1, <3>2 DEF BizInv
      <4>2. biz.txnsOf[t] \subseteq {biz.user}
        BY <3>2, <4>1 DEF BizInv, ShownIsOwn, B!ShownIsOwn, B!Open
      <4> QED
        BY <3>1, <4>1, <4>2
    <3>3. biz'.crossed \in BOOLEAN /\ (~biz'.crossed => ~biz.crossed)
      BY <3>1 DEF BizInv
    <3>4. ShownIsOwn'
      BY <3>1, <3>2, <3>3 DEF BizInv, ShownIsOwn, B!ShownIsOwn, B!Open
    <3> QED
      BY <3>1, <3>3, <3>4 DEF BizInv
  <2> QED
    BY <2>1, <2>2
<1>7. ASSUME NEW type, B!SwitchType(type) PROVE BizInv'
  BY <1>7 DEF B!SwitchType, BizInv, ShownIsOwn, B!ShownIsOwn, B!Open, BizFields
<1>8. ASSUME NEW c, B!EditAnswered(c) PROVE BizInv'
  BY <1>8 DEF B!EditAnswered, BizInv, ShownIsOwn, B!ShownIsOwn, B!Open, BizFields
<1>9. ASSUME \/ B!LoadBusinessList \/ B!Remove \/ B!MoreTransactions
             \/ \E id \in Ids : B!Save(id) \/ B!SaveHouse(id)
             \/ \E c : B!ServeList(c) \/ B!ListAnswered(c) \/ B!Refuse(c)
                       \/ B!ServeProviders(c) \/ B!ServeTransactions(c) \/ B!ServeEdit(c)
      PROVE BizInv'
  BY <1>1, <1>9 DEF B!LoadBusinessList, B!Remove, B!MoreTransactions, B!Save, B!SaveHouse, B!ServeList,
     B!ListAnswered, B!Refuse, B!ServeProviders, B!ServeTransactions, B!ServeEdit
<1> QED
  BY <1>2, <1>3, <1>4, <1>5, <1>6, <1>7, <1>8, <1>9 DEF B!BizNext, B!BizOperator, B!BizAnswer

(* ShownIsOwn (BusinessDesk): the dialog of a business shows that business's *)
(* ids and transactions, whatever dialogs were open before it (openBusiness), *)
(* unless an answer sent for another one has come since it was opened.        *)
THEOREM ShownIsTheOpenOnes == Spec => []ShownIsOwn
<1>1. Init => BizInv
  BY DEF Init, B!BizInit, B!Opened, BizInv, ShownIsOwn, B!ShownIsOwn, B!Open, BizFields
<1>2. BizInv /\ [Next]_vars => BizInv'
  <2> SUFFICES ASSUME BizInv, [Next]_vars PROVE BizInv'
    OBVIOUS
  <2>1. CASE UNCHANGED biz
    BY <2>1 DEF BizInv, ShownIsOwn, B!ShownIsOwn, B!Open
  <2> QED
    BY <2>1, BizStep DEF Next, vars, bizVars, VisitPayouts, VisitBusinesses, VisitLists,
       VisitSettings
<1>3. BizInv => ShownIsOwn
  BY DEF BizInv
<1> QED
  BY <1>1, <1>2, <1>3, PTL DEF Spec

-----------------------------------------------------------------------------
(* The settings.  The last list asked for that no answer has overtaken      *)
(* (Current) shows at least what was acknowledged; where none is under way, *)
(* the list that is drawn does, unless it was overtaken itself.             *)
AskFields == {"op", "key", "id", "text", "reply", "view", "late"}
SheetFields == {"away", "shown", "list", "drawn", "editing", "form", "acked", "crossed"}
StoredFields == {"rows", "version", "others"}

AskSound(a, version) ==
    /\ DOMAIN a = AskFields /\ a.late \in BOOLEAN
    /\ a.view.version \in Nat /\ a.view.version <= version
AsksSound(s, version) ==
    /\ s \in Seq({s[m] : m \in DOMAIN s})
    /\ \A n \in DOMAIN s : AskSound(s[n], version)

Current(s, n) == s[n].op = "list" /\ ~s[n].late
LastCurrent(s, n) == Current(s, n) /\ \A m \in DOMAIN s : m > n => ~Current(s, m)
Fresh(s, version) ==
    \A n \in DOMAIN s :
      LastCurrent(s, n) /\ s[n].reply \notin {None, "failed"} => s[n].view.version >= version
AllLate(s) == \A n \in DOMAIN s : ~Current(s, n)

SheetSound(page, written) ==
    /\ DOMAIN page = SheetFields /\ DOMAIN written = StoredFields
    /\ page.crossed \in BOOLEAN /\ page.acked \in Nat /\ written.version \in Nat
    /\ page.list.version \in Nat /\ page.drawn.version \in Nat
    /\ page.acked <= written.version
DrawnFresh(page) ==
    ~page.away /\ page.shown /\ ~page.crossed =>
      page.list.version >= page.acked /\ page.drawn.version >= page.acked
SheetInv ==
    /\ SheetSound(sheet, stored)
    /\ AsksSound(asks, stored.version)
    /\ Fresh(asks, sheet.acked)
    /\ AllLate(asks) => DrawnFresh(sheet)

LEMMA RemovedAt ==
    ASSUME NEW S, NEW s \in Seq(S), NEW n \in 1 .. Len(s)
    PROVE /\ T!RemoveAt(s, n) \in Seq(S)
          /\ DOMAIN T!RemoveAt(s, n) = 1 .. Len(s) - 1
          /\ \A k \in 1 .. Len(s) - 1 :
               /\ k < n => T!RemoveAt(s, n)[k] = s[k]
               /\ k >= n => T!RemoveAt(s, n)[k] = s[k + 1]
  <1> DEFINE a == SubSeq(s, 1, n - 1)
             b == SubSeq(s, n + 1, Len(s))
  <1>1. Len(s) \in Nat /\ \A k \in 1 .. Len(s) : s[k] \in S
    BY LenProperties, ElementOfSeq
  <1>2. /\ a \in Seq(S) /\ Len(a) = n - 1
        /\ \A k \in 1 .. n - 1 : a[k] = s[k]
    <2>1. \A k \in 1 .. n - 1 : s[k] \in S
      BY <1>1
    <2> QED
      BY <1>1, <2>1, SubSeqProperties, Z3
  <1>3. /\ b \in Seq(S) /\ Len(b) = Len(s) - n
        /\ \A k \in 1 .. Len(s) - n : b[k] = s[n + k]
    <2>1. \A k \in n + 1 .. Len(s) : s[k] \in S
      BY <1>1
    <2>2. n + 1 \in Int /\ Len(s) \in Int
      BY <1>1
    <2>3. /\ b \in Seq(S)
          /\ Len(b) = IF n + 1 <= Len(s) THEN Len(s) - (n + 1) + 1 ELSE 0
          /\ \A k \in 1 .. Len(s) - (n + 1) + 1 : b[k] = s[n + 1 + k - 1]
      BY <2>1, <2>2, SubSeqProperties
    <2> QED
      BY <1>1, <2>3
  <1> HIDE DEF a, b
  <1>4. /\ a \o b \in Seq(S) /\ Len(a \o b) = Len(a) + Len(b)
        /\ \A k \in 1 .. Len(a) + Len(b) :
             (a \o b)[k] = IF k <= Len(a) THEN a[k] ELSE b[k - Len(a)]
    BY <1>2, <1>3, ConcatProperties
  <1>5. DOMAIN (a \o b) = 1 .. Len(s) - 1
    BY <1>1, <1>2, <1>3, <1>4, LenProperties
  <1>6. ASSUME NEW k \in 1 .. Len(s) - 1
        PROVE /\ k < n => (a \o b)[k] = s[k]
              /\ k >= n => (a \o b)[k] = s[k + 1]
    <2>1. ASSUME k < n PROVE (a \o b)[k] = s[k]
      <3>1. k \in 1 .. n - 1
        BY <1>1, <2>1
      <3>2. (a \o b)[k] = a[k] /\ a[k] = s[k]
        BY <1>1, <1>2, <1>3, <1>4, <3>1
      <3> QED
        BY <2>1, <3>2
    <2>2. ASSUME k >= n PROVE (a \o b)[k] = s[k + 1]
      <3>1. k - (n - 1) \in 1 .. Len(s) - n
        BY <1>1, <2>2
      <3>2. (a \o b)[k] = b[k - (n - 1)]
        BY <1>1, <1>2, <1>3, <1>4, <2>2
      <3>3. b[k - (n - 1)] = s[n + (k - (n - 1))]
        BY <1>3, <3>1
      <3>4. n + (k - (n - 1)) = k + 1
        BY <1>1
      <3> QED
        BY <2>2, <3>2, <3>3, <3>4
    <2> QED
      BY <2>1, <2>2
  <1> QED
    BY <1>4, <1>5, <1>6 DEF T!RemoveAt, a, b

LEMMA ElementsOf ==
    ASSUME NEW S, NEW s \in Seq(S) PROVE s \in Seq({s[m] : m \in DOMAIN s})
<1>1. Len(s) \in Nat /\ DOMAIN s = 1 .. Len(s) /\ s = [m \in 1 .. Len(s) |-> s[m]]
  BY LenProperties
<1>2. s \in [1 .. Len(s) -> {s[m] : m \in DOMAIN s}]
  BY <1>1
<1> QED
  BY <1>1, <1>2, SeqDef

LEMMA AppendedAsk ==
    ASSUME NEW s, NEW v, AsksSound(s, v), NEW c, AskSound(c, v)
    PROVE LET t == Append(s, c)
          IN  /\ AsksSound(t, v) /\ DOMAIN t = 1 .. Len(s) + 1 /\ t[Len(s) + 1] = c
              /\ DOMAIN s = 1 .. Len(s) /\ Len(s) \in Nat
              /\ \A m \in 1 .. Len(s) : t[m] = s[m]
<1> DEFINE S == {s[m] : m \in DOMAIN s} \cup {c}
           t == Append(s, c)
<1>1. s \in Seq(S) /\ Len(s) \in Nat /\ DOMAIN s = 1 .. Len(s)
  <2>1. s \in Seq({s[m] : m \in DOMAIN s})
    BY DEF AsksSound
  <2>2. Len(s) \in Nat /\ DOMAIN s = 1 .. Len(s) /\ s = [m \in 1 .. Len(s) |-> s[m]]
    BY <2>1, LenProperties
  <2>3. s \in [1 .. Len(s) -> S]
    BY <2>2
  <2> QED
    BY <2>2, <2>3, SeqDef
<1> HIDE DEF S
<1>2. c \in S
  BY DEF S
<1>3. /\ t \in Seq(S) /\ Len(t) = Len(s) + 1
      /\ \A m \in 1 .. Len(s) : t[m] = s[m] /\ t[Len(s) + 1] = c
  BY <1>1, <1>2, AppendProperties
<1>4. DOMAIN t = 1 .. Len(s) + 1 /\ t[Len(s) + 1] = c
  BY <1>1, <1>2, <1>3, LenProperties, AppendProperties
<1>5. t \in Seq({t[m] : m \in DOMAIN t})
  BY <1>3, ElementsOf
<1> HIDE DEF t
<1>6. \A m \in 1 .. Len(s) + 1 : m \in 1 .. Len(s) \/ m = Len(s) + 1
  BY <1>1
<1>7. \A m \in DOMAIN t : AskSound(t[m], v)
  BY <1>1, <1>3, <1>4, <1>6 DEF AsksSound
<1> QED
  BY <1>1, <1>3, <1>4, <1>5, <1>7 DEF AsksSound, t

(* What is left once an ask is answered. *)
LEMMA AnsweredAsks ==
    ASSUME NEW v, AsksSound(asks, v), NEW n \in DOMAIN asks
    PROVE LET t == T!Answered(n)
          IN  /\ AsksSound(t, v) /\ DOMAIN t = 1 .. Len(asks) - 1
              /\ DOMAIN asks = 1 .. Len(asks) /\ Len(asks) \in Nat
              /\ \A k \in 1 .. Len(asks) - 1 :
                   /\ k < n => /\ t[k].op = asks[k].op /\ t[k].reply = asks[k].reply
                               /\ t[k].view = asks[k].view
                               /\ t[k].late = (asks[k].late \/ asks[n].op = "list")
                   /\ k >= n => /\ t[k].op = asks[k + 1].op /\ t[k].reply = asks[k + 1].reply
                                /\ t[k].view = asks[k + 1].view
                                /\ t[k].late = asks[k + 1].late
<1> DEFINE marked == [m \in DOMAIN asks |->
                        [asks[m] EXCEPT !.late = @ \/ (asks[n].op = "list" /\ m < n)]]
           t == T!RemoveAt(marked, n)
<1>1. Len(asks) \in Nat /\ DOMAIN asks = 1 .. Len(asks)
  BY LenProperties DEF AsksSound
<1>2. \A m \in DOMAIN asks :
        /\ AskSound(marked[m], v) /\ marked[m].op = asks[m].op
        /\ marked[m].reply = asks[m].reply /\ marked[m].view = asks[m].view
        /\ marked[m].late = (asks[m].late \/ (asks[n].op = "list" /\ m < n))
  BY DEF AsksSound, AskSound, AskFields
<1>3. marked \in [1 .. Len(asks) -> {marked[m] : m \in DOMAIN asks}] /\ DOMAIN marked = DOMAIN asks
  BY <1>1
<1> DEFINE S == {marked[m] : m \in DOMAIN asks}
<1> HIDE DEF marked, S
<1>4. marked \in Seq(S) /\ Len(marked) = Len(asks)
  BY <1>1, <1>3, SeqDef, LenProperties DEF S
<1>5. /\ t \in Seq(S) /\ DOMAIN t = 1 .. Len(asks) - 1
      /\ \A k \in 1 .. Len(asks) - 1 :
           (k < n => t[k] = marked[k]) /\ (k >= n => t[k] = marked[k + 1])
  BY <1>1, <1>4, RemovedAt
<1>6. t \in Seq({t[m] : m \in DOMAIN t})
  BY <1>5, ElementsOf
<1>7. T!Answered(n) = t
  BY DEF T!Answered, marked
<1> HIDE DEF t
<1>8. \A k \in 1 .. Len(asks) - 1 : k \in DOMAIN asks /\ k + 1 \in DOMAIN asks
  BY <1>1
<1>9. n \in Int /\ \A k \in 1 .. Len(asks) - 1 : k \in Int /\ (k < n \/ k >= n)
  BY <1>1
<1>10. \A k \in DOMAIN t : AskSound(t[k], v)
  BY <1>2, <1>5, <1>8, <1>9
<1>11. \A k \in 1 .. Len(asks) - 1 : k >= n => ~(k + 1 < n)
  BY <1>1
<1>12. \A k \in 1 .. Len(asks) - 1 :
         k < n => /\ t[k].op = asks[k].op /\ t[k].reply = asks[k].reply
                  /\ t[k].view = asks[k].view
                  /\ t[k].late = (asks[k].late \/ asks[n].op = "list")
  BY <1>2, <1>5, <1>8
<1>13. \A k \in 1 .. Len(asks) - 1 :
         k >= n => /\ t[k].op = asks[k + 1].op /\ t[k].reply = asks[k + 1].reply
                   /\ t[k].view = asks[k + 1].view
                   /\ t[k].late = asks[k + 1].late
  <2> SUFFICES ASSUME NEW k \in 1 .. Len(asks) - 1, k >= n
               PROVE /\ t[k].op = asks[k + 1].op /\ t[k].reply = asks[k + 1].reply
                     /\ t[k].view = asks[k + 1].view /\ t[k].late = asks[k + 1].late
    OBVIOUS
  <2> PICK m : m = k + 1
    OBVIOUS
  <2>1. m \in DOMAIN asks /\ ~(m < n) /\ t[k] = marked[m]
    BY <1>5, <1>8, <1>11
  <2>2. asks[m].late \in BOOLEAN
    BY <2>1 DEF AsksSound, AskSound
  <2>3. marked[m].late = asks[m].late
    <3>1. marked[m].late = (asks[m].late \/ (asks[n].op = "list" /\ m < n))
      BY <1>2, <2>1
    <3> QED
      BY <2>1, <2>2, <3>1
  <2> QED
    BY <1>2, <2>1, <2>3
<1>14. AsksSound(t, v)
  BY <1>6, <1>10 DEF AsksSound
<1> QED
  BY <1>1, <1>5, <1>7, <1>12, <1>13, <1>14

LEMMA ListAsked ==
    ASSUME NEW v \in Nat, NEW s, AsksSound(s, v), NEW a
    PROVE LET t == Append(s, T!AskList)
          IN  AsksSound(t, v) /\ Fresh(t, a) /\ ~AllLate(t)
<1> DEFINE c == T!AskList
           t == Append(s, c)
<1>1. c.op = "list" /\ c.late = FALSE /\ c.reply = None /\ AskSound(c, v)
  BY DEF T!AskList, T!Ask, T!NoRows, AskSound, AskFields
<1> HIDE DEF c
<1>2. /\ AsksSound(t, v) /\ DOMAIN t = 1 .. Len(s) + 1 /\ t[Len(s) + 1] = c
      /\ Len(s) \in Nat
  BY <1>1, AppendedAsk
<1> HIDE DEF t
<1>3. Len(s) + 1 \in DOMAIN t /\ Current(t, Len(s) + 1)
  BY <1>1, <1>2 DEF Current
<1>4. \A k \in DOMAIN t : LastCurrent(t, k) => k = Len(s) + 1
  BY <1>2, <1>3 DEF LastCurrent
<1>5. Fresh(t, a)
  BY <1>1, <1>2, <1>4 DEF Fresh
<1>6. ~AllLate(t)
  BY <1>3 DEF AllLate
<1> QED
  BY <1>2, <1>5, <1>6 DEF t, c

LEMMA OtherAsked ==
    ASSUME NEW v \in Nat, NEW s, AsksSound(s, v), NEW a, Fresh(s, a),
           NEW op, op # "list", NEW key, NEW id, NEW text
    PROVE LET t == Append(s, T!Ask(op, key, id, text))
          IN  AsksSound(t, v) /\ Fresh(t, a) /\ (AllLate(t) => AllLate(s))
<1> DEFINE c == T!Ask(op, key, id, text)
           t == Append(s, c)
<1>1. c.op # "list" /\ AskSound(c, v)
  BY DEF T!Ask, T!NoRows, AskSound, AskFields
<1> HIDE DEF c
<1>2. /\ AsksSound(t, v) /\ DOMAIN t = 1 .. Len(s) + 1 /\ t[Len(s) + 1] = c
      /\ DOMAIN s = 1 .. Len(s) /\ Len(s) \in Nat
      /\ \A m \in 1 .. Len(s) : t[m] = s[m]
  BY <1>1, AppendedAsk
<1> HIDE DEF t
<1>3. \A m \in DOMAIN t : Current(t, m) => m \in DOMAIN s /\ Current(s, m)
  BY <1>1, <1>2 DEF Current
<1>4. \A m \in DOMAIN s : m \in DOMAIN t /\ t[m] = s[m] /\ (Current(s, m) => Current(t, m))
  BY <1>2 DEF Current
<1>5. \A k \in DOMAIN t : LastCurrent(t, k) => LastCurrent(s, k) /\ k \in DOMAIN s
  BY <1>3, <1>4 DEF LastCurrent
<1>6. Fresh(t, a)
  BY <1>4, <1>5 DEF Fresh
<1>7. AllLate(t) => AllLate(s)
  BY <1>4 DEF AllLate
<1> QED
  BY <1>2, <1>6, <1>7 DEF t, c

LEMMA AnsweredFresh ==
    ASSUME NEW v, AsksSound(asks, v), NEW n \in DOMAIN asks, NEW a, Fresh(asks, a)
    PROVE LET t == T!Answered(n)
          IN  /\ AsksSound(t, v) /\ Fresh(t, a)
              /\ AllLate(t) => IF asks[n].op # "list" THEN AllLate(asks)
                               ELSE asks[n].late \/ LastCurrent(asks, n)
<1> DEFINE t == T!Answered(n)
<1>1. /\ AsksSound(t, v) /\ DOMAIN t = 1 .. Len(asks) - 1
      /\ DOMAIN asks = 1 .. Len(asks) /\ Len(asks) \in Nat
      /\ \A k \in 1 .. Len(asks) - 1 :
           /\ k < n => /\ t[k].op = asks[k].op /\ t[k].reply = asks[k].reply
                       /\ t[k].view = asks[k].view
                       /\ t[k].late = (asks[k].late \/ asks[n].op = "list")
           /\ k >= n => /\ t[k].op = asks[k + 1].op /\ t[k].reply = asks[k + 1].reply
                        /\ t[k].view = asks[k + 1].view
                        /\ t[k].late = asks[k + 1].late
  BY AnsweredAsks
<1> HIDE DEF t
<1>2. \A m \in DOMAIN asks : asks[m].late \in BOOLEAN
  BY DEF AsksSound, AskSound
<1>3. \A m \in DOMAIN asks : m > n => m - 1 \in DOMAIN t /\ (Current(asks, m) => Current(t, m - 1))
  BY <1>1 DEF Current
<1>4. \A m \in DOMAIN asks : m < n => m \in DOMAIN t
  BY <1>1
<1>5. ASSUME NEW k \in DOMAIN t, LastCurrent(t, k), t[k].reply \notin {None, "failed"}
      PROVE t[k].view.version >= a
  <2>1. CASE k < n
    <3>1. asks[n].op # "list" /\ Current(asks, k) /\ k \in DOMAIN asks
      <4>1. k \in DOMAIN asks /\ t[k].op = asks[k].op
        BY <1>1, <2>1
      <4>2. t[k].late = (asks[k].late \/ asks[n].op = "list")
        BY <1>1, <2>1
      <4>3. t[k].op = "list" /\ ~t[k].late
        BY <1>5 DEF LastCurrent, Current
      <4>4. ~(asks[k].late \/ asks[n].op = "list")
        BY <4>2, <4>3
      <4> QED
        BY <4>1, <4>3, <4>4 DEF Current
    <3>2. ASSUME NEW m \in DOMAIN asks, m > k PROVE ~Current(asks, m)
      <4>1. CASE m < n
        <5>1. m \in DOMAIN t /\ ~Current(t, m)
          BY <1>1, <1>4, <1>5, <3>2, <4>1 DEF LastCurrent
        <5> QED
          BY <1>1, <1>2, <3>1, <4>1, <5>1 DEF Current
      <4>2. CASE m = n
        BY <3>1, <4>2 DEF Current
      <4>3. CASE m > n
        <5>1. m - 1 > k
          BY <1>1, <2>1, <4>3
        <5> QED
          BY <1>3, <1>5, <4>3, <5>1 DEF LastCurrent
      <4> QED
        BY <1>1, <4>1, <4>2, <4>3
    <3>3. LastCurrent(asks, k) /\ asks[k].reply \notin {None, "failed"} /\ t[k].view = asks[k].view
      BY <1>1, <1>5, <2>1, <3>1, <3>2 DEF LastCurrent
    <3> QED
      BY <3>1, <3>3 DEF Fresh
  <2>2. CASE k >= n
    <3> PICK m : m = k + 1
      OBVIOUS
    <3>1. /\ m \in DOMAIN asks /\ t[k].op = asks[m].op /\ t[k].reply = asks[m].reply
          /\ t[k].view = asks[m].view /\ t[k].late = asks[m].late
      BY <1>1, <2>2
    <3>2. Current(asks, m)
      BY <1>5, <3>1 DEF LastCurrent, Current
    <3>3. ASSUME NEW j \in DOMAIN asks, j > m PROVE ~Current(asks, j)
      <4>1. j - 1 > k /\ j > n
        BY <1>1, <2>2, <3>3
      <4> QED
        BY <1>3, <1>5, <4>1 DEF LastCurrent
    <3> QED
      BY <1>5, <3>1, <3>2, <3>3 DEF LastCurrent, Fresh
  <2> QED
    BY <1>1, <2>1, <2>2
<1>6. ASSUME AllLate(t), asks[n].op # "list" PROVE AllLate(asks)
  <2>1. ASSUME NEW m \in DOMAIN asks PROVE ~Current(asks, m)
    <3>1. CASE m < n
      BY <1>1, <1>2, <1>4, <1>6, <3>1 DEF AllLate, Current
    <3>2. CASE m = n
      BY <1>6, <3>2 DEF Current
    <3>3. CASE m > n
      BY <1>3, <1>6, <3>3 DEF AllLate
    <3> QED
      BY <1>1, <3>1, <3>2, <3>3
  <2> QED
    BY <2>1 DEF AllLate
<1>7. ASSUME AllLate(t), asks[n].op = "list", ~asks[n].late PROVE LastCurrent(asks, n)
  BY <1>3, <1>7 DEF AllLate, LastCurrent, Current
<1> QED
  BY <1>1, <1>5, <1>6, <1>7 DEF Fresh, t

LEMMA RepliedAsks ==
    ASSUME SheetInv, NEW n \in DOMAIN asks, NEW reply, T!Reply(n, reply),
           stored'.version \in Nat, stored.version <= stored'.version
    PROVE /\ AsksSound(asks', stored'.version) /\ Fresh(asks', sheet.acked)
          /\ AllLate(asks') => AllLate(asks)
<1> PICK answer : answer =
      IF reply = "failed" THEN T!NoRows
      ELSE [rows |-> IF asks[n].op = "list" THEN stored'.rows ELSE T!NoRows.rows,
            version |-> stored'.version]
  OBVIOUS
<1>1. answer.version \in Nat /\ answer.version <= stored'.version
      /\ (reply # "failed" => answer.version = stored'.version)
  BY DEF T!NoRows
<1>2. PICK one : one = [asks EXCEPT ![n].reply = reply]
  OBVIOUS
<1>3. asks' = [one EXCEPT ![n].view = answer]
  BY <1>2 DEF T!Reply
<1>4. \A m \in DOMAIN asks : AskSound(asks[m], stored.version)
  BY DEF SheetInv, AsksSound
<1>5. /\ DOMAIN asks' = DOMAIN asks
      /\ \A m \in DOMAIN asks : m # n => asks'[m] = asks[m]
      /\ asks'[n].op = asks[n].op /\ asks'[n].late = asks[n].late
      /\ asks'[n].reply = reply /\ asks'[n].view = answer /\ DOMAIN asks'[n] = AskFields
  <2>1. DOMAIN asks[n] = AskFields
    BY <1>4 DEF AskSound
  <2>2. /\ DOMAIN one = DOMAIN asks /\ \A m \in DOMAIN asks : m # n => one[m] = asks[m]
        /\ one[n].op = asks[n].op /\ one[n].late = asks[n].late
        /\ one[n].reply = reply /\ DOMAIN one[n] = AskFields
    BY <1>2, <2>1 DEF AskFields
  <2> QED
    BY <1>3, <2>2 DEF AskFields
<1>6. \A m \in DOMAIN asks' : AskSound(asks'[m], stored'.version)
  BY <1>1, <1>4, <1>5 DEF AskSound, SheetInv, SheetSound
<1>7. asks' \in Seq({asks'[m] : m \in DOMAIN asks'})
  <2>1. Len(asks) \in Nat /\ DOMAIN asks = 1 .. Len(asks)
    BY LenProperties DEF SheetInv, AsksSound
  <2>2. asks' = [m \in 1 .. Len(asks) |-> asks'[m]]
    BY <1>3, <1>2, <1>5, <2>1
  <2>3. asks' \in [1 .. Len(asks) -> {asks'[m] : m \in DOMAIN asks'}]
    BY <1>5, <2>1, <2>2
  <2> QED
    BY <2>1, <2>3, SeqDef
<1>8. \A m \in DOMAIN asks : Current(asks', m) <=> Current(asks, m)
  BY <1>5 DEF Current
<1>9. \A m \in DOMAIN asks : LastCurrent(asks', m) => LastCurrent(asks, m)
  BY <1>5, <1>8 DEF LastCurrent
<1>10. Fresh(asks', sheet.acked)
  <2>1. ASSUME NEW m \in DOMAIN asks, LastCurrent(asks', m), asks'[m].reply \notin {None, "failed"}
        PROVE asks'[m].view.version >= sheet.acked
    <3>1. CASE m = n
      BY <1>1, <1>5, <2>1, <3>1 DEF SheetInv, SheetSound
    <3>2. CASE m # n
      BY <1>5, <1>9, <2>1, <3>2 DEF SheetInv, Fresh
    <3> QED
      BY <3>1, <3>2
  <2> QED
    BY <1>5, <2>1 DEF Fresh
<1>11. AllLate(asks') => AllLate(asks)
  BY <1>5, <1>8 DEF AllLate
<1> QED
  BY <1>6, <1>7, <1>10, <1>11 DEF AsksSound

LEMMA RenderedSheet ==
    ASSUME NEW s, DOMAIN s = SheetFields
    PROVE LET r == T!Render(s)
          IN  /\ DOMAIN r = SheetFields /\ r.away = s.away /\ r.list = s.list
              /\ r.acked = s.acked /\ r.crossed = s.crossed
              /\ s.away => r.drawn = s.drawn /\ r.shown = s.shown
              /\ ~s.away => r.drawn = s.list
<1>1. CASE s.away
  BY <1>1 DEF T!Render
<1>2. CASE ~s.away
  <2> PICK id, form : T!Render(s) = [s EXCEPT !.editing = id, !.drawn = s.list, !.shown = TRUE,
                                              !.form = form]
    BY <1>2 DEF T!Render
  <2> QED
    BY <1>2 DEF SheetFields
<1> QED
  BY <1>1, <1>2

LEMMA PutVersion ==
    ASSUME DOMAIN stored = StoredFields, stored.version \in Nat, NEW k, NEW t
    PROVE /\ DOMAIN T!Put(k, t) = StoredFields /\ T!Put(k, t).version \in Nat
          /\ stored.version <= T!Put(k, t).version
<1>1. ASSUME NEW row
      PROVE /\ DOMAIN T!Write(k, row) = StoredFields /\ T!Write(k, row).version = stored.version + 1
  BY DEF T!Write, StoredFields
<1> QED
  BY <1>1 DEF T!Put

LEMMA OperatorKeepsSheet ==
    ASSUME SheetInv, T!SheetOperator PROVE SheetInv'
<1>1. stored' = stored
  BY DEF T!SheetOperator, T!EnterTab, T!ReloadList, T!LeaveTab, T!StartEdit, T!CancelEdit,
         T!SaveForm, T!DeleteRow
<1>2. SheetSound(sheet, stored) /\ AsksSound(asks, stored.version) /\ Fresh(asks, sheet.acked)
      /\ stored.version \in Nat
  BY DEF SheetInv, SheetSound
<1>3. CASE T!EnterTab \/ T!ReloadList
  <2>1. asks' = Append(asks, T!AskList)
    BY <1>3 DEF T!EnterTab, T!ReloadList, T!Send
  <2>2. SheetSound(sheet', stored')
    BY <1>1, <1>2, <1>3 DEF T!EnterTab, T!ReloadList, SheetSound, SheetFields
  <2>3. AsksSound(asks', stored.version) /\ Fresh(asks', sheet'.acked) /\ ~AllLate(asks')
    BY <1>2, <2>1, ListAsked
  <2> QED
    BY <1>1, <2>2, <2>3 DEF SheetInv
<1>4. CASE T!LeaveTab
  <2>1. SheetSound(sheet', stored') /\ sheet'.acked = sheet.acked /\ sheet'.away /\ asks' = asks
    BY <1>1, <1>2, <1>4 DEF T!LeaveTab, SheetSound, SheetFields
  <2> QED
    BY <1>1, <1>2, <2>1 DEF SheetInv, DrawnFresh
<1>5. ASSUME NEW id, T!Here, sheet' = T!Render([sheet EXCEPT !.editing = id]), asks' = asks
      PROVE SheetInv'
  <2> PICK s : s = [sheet EXCEPT !.editing = id]
    OBVIOUS
  <2>1. /\ DOMAIN s = SheetFields /\ s.away = sheet.away /\ s.list = sheet.list
        /\ s.acked = sheet.acked /\ s.crossed = sheet.crossed
    BY <1>2 DEF SheetSound, SheetFields
  <2>2. /\ DOMAIN sheet' = SheetFields /\ sheet'.list = sheet.list /\ sheet'.acked = sheet.acked
        /\ sheet'.crossed = sheet.crossed /\ sheet'.drawn = sheet.list
    BY <1>5, <2>1, RenderedSheet DEF T!Here
  <2>3. SheetSound(sheet', stored')
    BY <1>1, <1>2, <2>2 DEF SheetSound
  <2>4. AllLate(asks) => DrawnFresh(sheet')
    BY <1>5, <2>2 DEF SheetInv, DrawnFresh, T!Here
  <2> QED
    BY <1>1, <1>2, <1>5, <2>2, <2>3, <2>4 DEF SheetInv
<1>6. ASSUME NEW op, op # "list", NEW key, NEW id, NEW text,
             asks' = Append(asks, T!Ask(op, key, id, text)), sheet' = sheet
      PROVE SheetInv'
  <2>1. /\ AsksSound(asks', stored.version) /\ Fresh(asks', sheet.acked)
        /\ AllLate(asks') => AllLate(asks)
    BY <1>2, <1>6, OtherAsked
  <2> QED
    BY <1>1, <1>2, <1>6, <2>1 DEF SheetInv
<1>7. ASSUME NEW k, T!StartEdit(k) \/ T!DeleteRow(k) \/ \E t \in Texts : T!SaveForm(k, t)
      PROVE SheetInv'
  <2>1. CASE T!StartEdit(k)
    BY <1>5, <2>1 DEF T!StartEdit
  <2>2. CASE T!DeleteRow(k)
    BY <1>6, <2>2 DEF T!DeleteRow, T!Send
  <2>3. CASE \E t \in Texts : T!SaveForm(k, t)
    BY <1>6, <2>3 DEF T!SaveForm, T!Send
  <2> QED
    BY <1>7, <2>1, <2>2, <2>3
<1>8. CASE T!CancelEdit
  BY <1>5, <1>8 DEF T!CancelEdit
<1> QED
  BY <1>3, <1>4, <1>7, <1>8 DEF T!SheetOperator

LEMMA AnswersKeepSheet ==
    ASSUME SheetInv, NEW n \in DOMAIN asks,
           T!ListAnswered(n) \/ T!SaveAnswered(n) \/ T!DeleteAnswered(n)
    PROVE SheetInv'
<1> PICK c : c = asks[n]
  OBVIOUS
<1>1. SheetSound(sheet, stored) /\ AsksSound(asks, stored.version) /\ Fresh(asks, sheet.acked)
      /\ stored.version \in Nat /\ c.view.version \in Nat /\ c.view.version <= stored.version
      /\ c.late \in BOOLEAN
  BY DEF SheetInv, SheetSound, AsksSound, AskSound
<1> DEFINE left == T!Answered(n)
<1>2. /\ AsksSound(left, stored.version) /\ Fresh(left, sheet.acked)
      /\ AllLate(left) => IF c.op # "list" THEN AllLate(asks) ELSE c.late \/ LastCurrent(asks, n)
  BY <1>1, AnsweredFresh
<1> HIDE DEF left
<1>3. stored' = stored
  BY DEF T!ListAnswered, T!SaveAnswered, T!DeleteAnswered
<1>4. CASE T!ListAnswered(n)
  <2>1. c.op = "list" /\ asks' = left
    BY <1>4 DEF T!ListAnswered, left
  <2>2. CASE c.reply = "failed"
    <3>1. SheetSound(sheet', stored') /\ sheet'.acked = sheet.acked /\ ~sheet'.shown
      BY <1>1, <1>3, <1>4, <2>2 DEF T!ListAnswered, SheetSound, SheetFields
    <3> QED
      BY <1>2, <1>3, <2>1, <3>1 DEF SheetInv, DrawnFresh
  <2>3. CASE c.reply # "failed"
    <3> PICK s : s = [sheet EXCEPT !.list = c.view, !.crossed = c.late]
      OBVIOUS
    <3>1. sheet' = T!Render(s)
      BY <1>4, <2>3 DEF T!ListAnswered
    <3>2. /\ DOMAIN s = SheetFields /\ s.away = sheet.away /\ s.list = c.view /\ s.drawn = sheet.drawn
          /\ s.acked = sheet.acked /\ s.crossed = c.late
      BY <1>1 DEF SheetSound, SheetFields
    <3>3. /\ DOMAIN sheet' = SheetFields /\ sheet'.away = sheet.away /\ sheet'.list = c.view
          /\ sheet'.acked = sheet.acked /\ sheet'.crossed = c.late
          /\ sheet.away => sheet'.drawn = sheet.drawn
          /\ ~sheet.away => sheet'.drawn = c.view
      BY <3>1, <3>2, RenderedSheet
    <3>4. SheetSound(sheet', stored')
      BY <1>1, <1>3, <3>3 DEF SheetSound
    <3>5. LastCurrent(asks, n) => c.view.version >= sheet.acked
      <4>1. c.reply # None
        BY <1>4 DEF T!ListAnswered
      <4> QED
        BY <1>1, <2>3, <4>1 DEF Fresh
    <3>6. AllLate(left) => DrawnFresh(sheet')
      BY <1>2, <2>1, <3>3, <3>5 DEF DrawnFresh
    <3> QED
      BY <1>2, <1>3, <2>1, <3>3, <3>4, <3>6 DEF SheetInv
  <2> QED
    BY <2>2, <2>3
<1>5. CASE T!SaveAnswered(n) \/ T!DeleteAnswered(n)
  <2>1. c.op # "list"
    BY <1>5 DEF T!SaveAnswered, T!DeleteAnswered
  <2>2. CASE c.reply = "failed"
    <3>1. sheet' = sheet /\ asks' = left
      BY <1>5, <2>2 DEF T!SaveAnswered, T!DeleteAnswered, left
    <3> QED
      BY <1>1, <1>2, <1>3, <2>1, <3>1 DEF SheetInv
  <2>3. CASE c.reply # "failed"
    <3>1. asks' = Append(left, T!AskList)
      BY <1>5, <2>3 DEF T!SaveAnswered, T!DeleteAnswered, left
    <3>2. AsksSound(asks', stored.version) /\ Fresh(asks', sheet'.acked) /\ ~AllLate(asks')
      BY <1>1, <1>2, <3>1, ListAsked
    <3>3. PICK s : s = T!Acked(c)
      OBVIOUS
    <3>4. SheetSound(s, stored)
      BY <1>1, <3>3 DEF T!Acked, SheetSound, SheetFields
    <3>5. \E id : sheet' = [s EXCEPT !.editing = id]
      BY <1>5, <2>3, <3>3 DEF T!SaveAnswered, T!DeleteAnswered
    <3>6. SheetSound(sheet', stored')
      BY <1>3, <3>4, <3>5 DEF SheetSound, SheetFields
    <3> QED
      BY <1>3, <3>2, <3>6 DEF SheetInv
  <2> QED
    BY <2>2, <2>3
<1> QED
  BY <1>4, <1>5

LEMMA ServerKeepsSheet ==
    ASSUME SheetInv,
           NEW n \in DOMAIN asks,
           T!ServeList(n) \/ T!ServePut(n) \/ T!ServeDelete(n) \/ T!RefuseAsk(n)
    PROVE SheetInv'
<1>1. sheet' = sheet /\ \E reply : T!Reply(n, reply)
  BY DEF T!ServeList, T!ServePut, T!ServeDelete, T!RefuseAsk
<1>2. SheetSound(sheet, stored)
  BY DEF SheetInv
<1>3. DOMAIN stored' = StoredFields /\ stored'.version \in Nat /\ stored.version <= stored'.version
  <2>1. CASE stored' = stored
    BY <1>2, <2>1 DEF SheetSound
  <2>2. CASE \E k, t : stored' = T!Put(k, t)
    BY <1>2, <2>2, PutVersion DEF SheetSound
  <2>3. CASE \E k, row : stored' = T!Write(k, row)
    BY <1>2, <2>3 DEF SheetSound, T!Write, StoredFields
  <2> QED
    BY <2>1, <2>2, <2>3 DEF T!ServeList, T!ServePut, T!ServeDelete, T!RefuseAsk
<1>4. /\ AsksSound(asks', stored'.version) /\ Fresh(asks', sheet.acked)
      /\ AllLate(asks') => AllLate(asks)
  BY <1>1, <1>3, RepliedAsks
<1>5. SheetSound(sheet', stored')
  BY <1>1, <1>2, <1>3 DEF SheetSound
<1> QED
  BY <1>1, <1>4, <1>5 DEF SheetInv

LEMMA SheetStep ==
    ASSUME SheetInv, T!SheetNext PROVE SheetInv'
<1>1. ASSUME NEW k, T!EditedElsewhere(k) PROVE SheetInv'
  <2>1. sheet' = sheet /\ asks' = asks
    BY <1>1 DEF T!EditedElsewhere
  <2>2. PICK row : stored' = [T!Write(k, row) EXCEPT !.others = @ + 1]
    BY <1>1 DEF T!EditedElsewhere
  <2> PICK s : s = T!Write(k, row)
    OBVIOUS
  <2>3. DOMAIN s = StoredFields /\ s.version = stored.version + 1
    BY DEF SheetInv, SheetSound, T!Write, StoredFields
  <2>4. DOMAIN stored' = StoredFields /\ stored'.version = stored.version + 1
    BY <2>2, <2>3 DEF StoredFields
  <2>5. SheetSound(sheet', stored')
    BY <2>1, <2>4 DEF SheetInv, SheetSound
  <2>6. AsksSound(asks', stored'.version)
    BY <2>1, <2>4 DEF SheetInv, SheetSound, AsksSound, AskSound
  <2> QED
    BY <2>1, <2>5, <2>6 DEF SheetInv
<1> QED
  BY <1>1, OperatorKeepsSheet, AnswersKeepSheet, ServerKeepsSheet DEF T!SheetNext, T!SheetAnswer

(* OwnEditsShown (SettingsDesk): once nothing is under way, the list shows   *)
(* every edit this page was told was stored, for any number of lists, edits  *)
(* and failures under way at once; unless the list drawn was overtaken.      *)
THEOREM EditsHereAreShown == Spec => []OwnEditsShown
<1>1. Init => SheetInv
  <2> SUFFICES ASSUME Init PROVE SheetInv
    OBVIOUS
  <2>1. asks = << >> /\ << >> \in Seq({}) /\ DOMAIN asks = {}
    BY EmptySeq DEF Init, T!SheetInit
  <2>2. AsksSound(asks, stored.version) /\ Fresh(asks, sheet.acked)
    <3>1. asks \in Seq({asks[m] : m \in DOMAIN asks})
      BY <2>1, ElementsOf
    <3> QED
      BY <2>1, <3>1 DEF AsksSound, Fresh
  <2>3. SheetSound(sheet, stored) /\ sheet.away
    BY DEF Init, T!SheetInit, T!NoRows, T!NoRow, SheetSound, SheetFields, StoredFields
  <2> QED
    BY <2>2, <2>3 DEF SheetInv, DrawnFresh
<1>2. SheetInv /\ [Next]_vars => SheetInv'
  <2> SUFFICES ASSUME SheetInv, [Next]_vars PROVE SheetInv'
    OBVIOUS
  <2>1. CASE UNCHANGED <<stored, sheet, asks>>
    BY <2>1 DEF SheetInv
  <2> QED
    BY <2>1, SheetStep DEF Next, vars, sheetVars, VisitPayouts, VisitBusinesses, VisitLists,
       VisitSettings
<1>3. SheetInv => OwnEditsShown
  BY DEF SheetInv, OwnEditsShown, T!OwnEditsShown, T!Here, AllLate, DrawnFresh
<1> QED
  BY <1>1, <1>2, <1>3, PTL DEF Spec
=============================================================================
