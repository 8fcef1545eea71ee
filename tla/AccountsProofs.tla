--------------------------- MODULE AccountsProofs ---------------------------
(***************************************************************************)
(* What Accounts promises about whose account is shown and when it is shown *)
(* as ready, proved for any handlers, ids, requestIds and users, any number *)
(* of faults and any number of delivery attempts.                           *)
(*                                                                         *)
(* The rows and the partner's answers are the database's and the partner's; *)
(* what threatens them is what the handlers carry from one await to the     *)
(* next.  So the inductive invariant says of the handlers in flight what it *)
(* says of the rows: what they are about to store is true already, and the  *)
(* account they are about to name is the one their request made.            *)
(***************************************************************************)
EXTENDS Accounts, TLAPS

\* Where a handler works on an account of its own.
Serving == {"announce", "provision", "poll", "read", "write", "import", "storeKyc"}

Types ==
    /\ rows \in [Ids -> Row]
    /\ handler \in [Handlers -> Handler]
    /\ lp \in [Ids -> LPAccount]
    /\ reports \subseteq [id : Ids, status : {"pending", "active", "failed"}]
    /\ answers \subseteq Users \X RequestIds \X Ids

\* A handler knows which account it serves, and a creating one for whom.
Bound ==
    \A h \in Handlers :
        /\ handler[h].pc \in Serving => handler[h].id \in Ids
        /\ handler[h].pc # "idle" /\ handler[h].by = "create" =>
             handler[h].user \in Users /\ handler[h].req \in RequestIds
        /\ handler[h].by = "webhook" => handler[h].pc \in {"read", "write"}
        /\ handler[h].pc \in {"read", "write"} => handler[h].got \in IssuanceStatuses
        /\ handler[h].pc = "storeKyc" => handler[h].got \in KycStatuses

\* Wherever an account is said to be active - in its row, in a report, in what
\* a handler is about to store - the LP has given usable instructions for it.
ActiveIsReal ==
    /\ \A a \in Ids : rows[a].status = "active" => lp[a].deposit = "usable"
    /\ \A r \in reports : r.status = "active" => lp[r.id].deposit = "usable"
    /\ \A h \in Handlers :
         handler[h].pc \in {"read", "write"} /\ handler[h].got = "active" =>
             lp[handler[h].id].deposit = "usable"

Owned(row, u, q) == row.state # "unborn" /\ row.user = u /\ row.req = q

\* The account a creating request serves, and every account a request was
\* answered with, is its caller's.
OwnedByCaller ==
    /\ \A h \in Handlers :
         handler[h].by = "create" /\ handler[h].pc \in Serving =>
             Owned(rows[handler[h].id], handler[h].user, handler[h].req)
    /\ \A ans \in answers : Owned(rows[ans[3]], ans[1], ans[2])

AInv == Types /\ Bound /\ ActiveIsReal /\ OwnedByCaller
-----------------------------------------------------------------------------
\* The types with their parts in sight.
USE DEF None

\* What a creating request makes of the LP's account.
LEMMA SeenStatus ==
    ASSUME NEW account \in LPAccount
    PROVE /\ Seen(account) \in IssuanceStatuses
          /\ Seen(account) = "active" => account.deposit = "usable"
  BY DEF LPAccount, IssuanceStatuses, Seen

LEMMA IdleIsHandler == Idle \in Handler /\ Idle.pc = "idle" /\ Idle.by = "create"
  BY DEF Idle, Handler, IssuanceStatuses

LEMMA InitInv == Init => AInv
  <1> SUFFICES ASSUME Init PROVE AInv
    OBVIOUS
  <1>1. Unborn \in Row
    BY DEF Unborn, Row, IssuanceStatuses, KycStatuses
  <1>2. Types
    BY <1>1, IdleIsHandler DEF Init, Types, NoAccount, LPAccount, LPStates, Instructions
  <1>3. Bound
    BY IdleIsHandler DEF Init, Bound, Serving
  <1>4. ActiveIsReal
    BY IdleIsHandler DEF Init, ActiveIsReal, Unborn
  <1>5. OwnedByCaller
    BY IdleIsHandler DEF Init, OwnedByCaller, Serving
  <1> QED
    BY <1>2, <1>3, <1>4, <1>5 DEF AInv

\* A step that leaves the rows, the LP and the answers alone and moves one
\* handler to a state that the invariant allows.
MovesTo(h, r) ==
    /\ handler' = [handler EXCEPT ![h] = r]
    /\ UNCHANGED <<rows, lp, reports, answers>>

Allowed(r) ==
    /\ r \in Handler
    /\ r.pc \in Serving => r.id \in Ids
    /\ r.pc # "idle" /\ r.by = "create" => r.user \in Users /\ r.req \in RequestIds
    /\ r.by = "webhook" => r.pc \in {"read", "write"}
    /\ r.pc \in {"read", "write"} => r.got \in IssuanceStatuses
    /\ r.pc = "storeKyc" => r.got \in KycStatuses
    /\ r.pc \in {"read", "write"} /\ r.got = "active" => lp[r.id].deposit = "usable"
    /\ r.by = "create" /\ r.pc \in Serving => Owned(rows[r.id], r.user, r.req)

LEMMA MoveInv ==
    ASSUME AInv, NEW h \in Handlers, NEW r, MovesTo(h, r), Allowed(r)
    PROVE AInv'
  <1>1. handler \in [Handlers -> Handler]
    BY DEF AInv, Types
  <1>2. /\ handler' \in [Handlers -> Handler]
        /\ \A g \in Handlers : handler'[g] = IF g = h THEN r ELSE handler[g]
    BY <1>1 DEF MovesTo, Allowed
  <1>3. rows' = rows /\ lp' = lp /\ reports' = reports /\ answers' = answers
    BY DEF MovesTo
  <1>4. Types'
    BY <1>2, <1>3 DEF AInv, Types
  <1>5. Bound'
    BY <1>2 DEF AInv, Bound, Allowed
  <1>6. ActiveIsReal'
    BY <1>2, <1>3 DEF AInv, ActiveIsReal, Allowed
  <1>7. OwnedByCaller'
    BY <1>2, <1>3 DEF AInv, OwnedByCaller, Owned, Allowed
  <1> QED
    BY <1>4, <1>5, <1>6, <1>7 DEF AInv

\* The same when it also answers, with an account of the caller's.
LEMMA AnswerInv ==
    ASSUME AInv, NEW h \in Handlers, NEW a \in Ids,
           handler[h].user \in Users, handler[h].req \in RequestIds,
           Owned(rows[a], handler[h].user, handler[h].req),
           Answer(h, a), Finish(h), UNCHANGED <<rows, lp, reports>>
    PROVE AInv'
  <1>1. handler \in [Handlers -> Handler]
    BY DEF AInv, Types
  <1>2. /\ handler' \in [Handlers -> Handler]
        /\ \A g \in Handlers : handler'[g] = IF g = h THEN Idle ELSE handler[g]
    BY <1>1, IdleIsHandler DEF Finish
  <1>3. answers' = answers \cup {<<handler[h].user, handler[h].req, a>>}
    BY DEF Answer
  <1>4. Types'
    BY <1>2, <1>3 DEF AInv, Types
  <1>5. Bound'
    BY <1>2, IdleIsHandler DEF AInv, Bound, Serving
  <1>6. ActiveIsReal'
    BY <1>2, IdleIsHandler DEF AInv, ActiveIsReal
  <1>7. OwnedByCaller'
    BY <1>2, <1>3, IdleIsHandler DEF AInv, OwnedByCaller, Owned, Serving
  <1> QED
    BY <1>4, <1>5, <1>6, <1>7 DEF AInv

LEMMA IdleAllowed == Allowed(Idle)
  BY IdleIsHandler DEF Allowed, Serving

LEMMA FinishInv ==
    ASSUME AInv, NEW h \in Handlers, Finish(h), UNCHANGED <<rows, lp, reports, answers>>
    PROVE AInv'
  BY MoveInv, IdleAllowed DEF Finish, MovesTo

\* A handler goes on to its next await with what it has.
LEMMA GoInv ==
    ASSUME AInv, NEW h \in Handlers, NEW pc \in {"lookup", "copy", "insert", "raced",
                                                 "provision", "import"},
           handler[h].by = "create", handler[h].pc # "idle",
           pc \in {"provision", "import"} => handler[h].pc \in Serving,
           Go(h, pc), UNCHANGED <<rows, lp, reports, answers>>
    PROVE AInv'
  <1> DEFINE r == [handler[h] EXCEPT !.pc = pc]
  <1>1. handler[h] \in Handler
    BY DEF AInv, Types
  <1>2. /\ r \in Handler /\ r.pc = pc /\ r.by = "create" /\ r.id = handler[h].id
        /\ r.user = handler[h].user /\ r.req = handler[h].req
    BY <1>1 DEF Handler
  <1>3. /\ handler[h].user \in Users /\ handler[h].req \in RequestIds
        /\ pc \in Serving =>
             /\ handler[h].id \in Ids
             /\ Owned(rows[handler[h].id], handler[h].user, handler[h].req)
    BY DEF AInv, Bound, OwnedByCaller, Serving
  <1>4. Allowed(r)
    BY <1>2, <1>3 DEF Allowed
  <1>5. MovesTo(h, r)
    BY DEF MovesTo, Go
  <1> QED
    BY <1>4, <1>5, MoveInv

\* A row that has the requestId is the answer if it is the caller's.
LEMMA ReplayInv ==
    ASSUME AInv, NEW h \in Handlers, handler[h].by = "create", handler[h].pc # "idle",
           NEW a \in Holding(handler[h].req), Replay(h, a), UNCHANGED <<rows, lp, reports>>
    PROVE AInv'
  <1>1. /\ a \in Ids /\ rows[a].state = "live" /\ rows[a].req = handler[h].req
        /\ handler[h].user \in Users /\ handler[h].req \in RequestIds
    BY DEF Holding, Live, AInv, Bound
  <1>2. CASE rows[a].user = handler[h].user
    BY <1>1, <1>2, AnswerInv DEF Replay, Owned
  <1>3. CASE rows[a].user # handler[h].user
    BY <1>3, FinishInv DEF Replay
  <1> QED
    BY <1>2, <1>3

LEMMA CreateInv ==
    ASSUME AInv, NEW h \in Handlers, NEW u \in Users, NEW q \in RequestIds, Create(h, u, q)
    PROVE AInv'
  <1> DEFINE r == [Idle EXCEPT !.pc = "lookup", !.user = u, !.req = q]
  <1>1. /\ r \in Handler /\ r.pc = "lookup" /\ r.by = "create"
        /\ r.user = u /\ r.req = q
    BY DEF Idle, Handler, IssuanceStatuses
  <1>2. Allowed(r)
    BY <1>1 DEF Allowed, Serving
  <1>3. MovesTo(h, r)
    BY DEF MovesTo, Create, issuance, history
  <1> QED
    BY <1>2, <1>3, MoveInv

\* Everything before the insert is a creating request's.
LEMMA ByCreate ==
    ASSUME AInv, NEW h \in Handlers, handler[h].pc \notin {"read", "write"}
    PROVE handler[h].by = "create"
  BY DEF AInv, Types, Bound, Handler

LEMMA LookupInv ==
    ASSUME AInv, NEW h \in Handlers, Lookup(h)
    PROVE AInv'
  <1>1. handler[h].pc = "lookup" /\ handler[h].by = "create"
    BY ByCreate DEF Lookup, At
  <1>2. CASE Holding(handler[h].req) = {}
    BY <1>1, <1>2, GoInv DEF Lookup, issuance
  <1>3. CASE Holding(handler[h].req) # {}
    BY <1>1, <1>3, ReplayInv DEF Lookup, issuance
  <1> QED
    BY <1>2, <1>3

LEMMA CopyDocumentInv ==
    ASSUME AInv, NEW h \in Handlers, CopyDocument(h)
    PROVE AInv'
  <1>1. handler[h].pc = "copy" /\ handler[h].by = "create"
    BY ByCreate DEF CopyDocument, At
  <1> QED
    BY <1>1, GoInv, FinishInv DEF CopyDocument, issuance, history

LEMMA RacedInv ==
    ASSUME AInv, NEW h \in Handlers, Raced(h)
    PROVE AInv'
  <1>1. handler[h].pc = "raced" /\ handler[h].by = "create"
    BY ByCreate DEF Raced, At
  <1>2. CASE Holding(handler[h].req) = {}
    BY <1>2, FinishInv DEF Raced, issuance
  <1>3. CASE Holding(handler[h].req) # {}
    BY <1>1, <1>3, ReplayInv DEF Raced, issuance
  <1> QED
    BY <1>2, <1>3

\* The new row is the caller's; it was nobody's, so nobody else serves it.
LEMMA InsertInv ==
    ASSUME AInv, NEW h \in Handlers, Insert(h)
    PROVE AInv'
  <1>1. /\ handler[h].pc = "insert" /\ handler[h].by = "create" /\ handler[h] \in Handler
        /\ handler \in [Handlers -> Handler] /\ rows \in [Ids -> Row]
        /\ handler[h].user \in Users /\ handler[h].req \in RequestIds
    BY ByCreate DEF Insert, At, AInv, Types, Bound
  <1>2. CASE Holding(handler[h].req) # {}
    BY <1>1, <1>2, GoInv DEF Insert, issuance, history
  <1>3. CASE Holding(handler[h].req) = {}
    <2> DEFINE c == handler[h]
               new == [Unborn EXCEPT !.state = "live", !.user = c.user, !.req = c.req,
                         !.kyc = IF c.user \in ImportUsers THEN "pending_import" ELSE None]
    <2>1. PICK a \in Ids :
            /\ rows[a].state = "unborn"
            /\ rows' = [rows EXCEPT ![a] = new]
            /\ handler' = [handler EXCEPT ![h].pc = "announce", ![h].id = a]
      BY <1>3 DEF Insert
    <2>2. new \in Row /\ Owned(new, c.user, c.req) /\ new.status # "active"
      BY <1>1, <2>1 DEF Unborn, Row, IssuanceStatuses, KycStatuses, Owned
    <2> HIDE DEF new
    <2>3. \A b \in Ids : rows'[b] = IF b = a THEN new ELSE rows[b]
      BY <1>1, <2>1
    <2>4. /\ handler' \in [Handlers -> Handler]
          /\ \A g \in Handlers \ {h} : handler'[g] = handler[g]
          /\ handler'[h].pc = "announce" /\ handler'[h].by = "create" /\ handler'[h].id = a
          /\ handler'[h].user = c.user /\ handler'[h].req = c.req
      BY <1>1, <2>1 DEF Handler
    <2>5. lp' = lp /\ reports' = reports /\ answers' = answers
      BY DEF Insert, issuance, history
    <2>6. Types'
      BY <1>1, <2>1, <2>2, <2>4, <2>5 DEF AInv, Types
    <2>7. Bound'
      BY <1>1, <2>4 DEF AInv, Bound, Serving
    <2>8. ActiveIsReal'
      BY <2>2, <2>3, <2>4, <2>5 DEF AInv, ActiveIsReal
    <2>9. OwnedByCaller'
      <3>1. ASSUME NEW b \in Ids, NEW u, NEW q, Owned(rows[b], u, q)
            PROVE rows'[b] = rows[b]
        BY <2>1, <2>3, <3>1 DEF Owned
      <3>2. \A g \in Handlers : handler[g].pc \in Serving => handler[g].id \in Ids
        BY DEF AInv, Bound
      <3>3. \A ans \in answers : ans[3] \in Ids
        BY DEF AInv, Types
      <3>4. \A ans \in answers' : Owned(rows'[ans[3]], ans[1], ans[2])
        BY <2>5, <3>1, <3>3 DEF AInv, OwnedByCaller
      <3>5. ASSUME NEW g \in Handlers, handler'[g].by = "create", handler'[g].pc \in Serving
            PROVE Owned(rows'[handler'[g].id], handler'[g].user, handler'[g].req)
        <4>1. CASE g = h
          BY <2>2, <2>3, <2>4, <4>1
        <4>2. CASE g # h
          BY <2>4, <3>1, <3>2, <3>5, <4>2 DEF AInv, OwnedByCaller
        <4> QED
          BY <4>1, <4>2
      <3> QED
        BY <3>4, <3>5 DEF OwnedByCaller
    <2> QED
      BY <2>6, <2>7, <2>8, <2>9 DEF AInv
  <1> QED
    BY <1>2, <1>3

LEMMA AnnounceInv ==
    ASSUME AInv, NEW h \in Handlers, Announce(h)
    PROVE AInv'
  <1>1. /\ handler[h].pc = "announce" /\ handler[h].by = "create"
        /\ handler[h].pc \in Serving /\ handler[h].id \in Ids
        /\ handler[h].user \in Users /\ handler[h].req \in RequestIds
        /\ Owned(rows[handler[h].id], handler[h].user, handler[h].req)
    BY ByCreate DEF Announce, At, AInv, Bound, OwnedByCaller, Serving
  <1>2. UNCHANGED <<rows, lp, reports>>
    BY DEF Announce, issuance
  <1>3. CASE handler[h].user \in NamedUsers
    BY <1>1, <1>2, <1>3, GoInv DEF Announce
  <1>4. CASE handler[h].user \notin NamedUsers /\ handler[h].user \in ImportUsers
    BY <1>1, <1>2, <1>4, GoInv DEF Announce
  <1>5. CASE handler[h].user \notin NamedUsers /\ handler[h].user \notin ImportUsers
    BY <1>1, <1>2, <1>5, AnswerInv DEF Announce
  <1> QED
    BY <1>3, <1>4, <1>5
-----------------------------------------------------------------------------
(* The issuance. *)

\* A creating handler learns the issuance status it will store.
Learns(h, r) ==
    /\ r \in Handler
    /\ handler' = [handler EXCEPT ![h] = r]
    /\ r.pc \in {"poll", "read"} /\ r.by = handler[h].by /\ r.id = handler[h].id
    /\ r.user = handler[h].user /\ r.req = handler[h].req
    /\ r.got \in IssuanceStatuses

\* The LP's account only moves on, and usable instructions stay.
LEMMA LearnInv ==
    ASSUME AInv, NEW h \in Handlers, NEW r, Learns(h, r), handler[h].pc \in Serving,
           handler[h].by = "create",
           lp' \in [Ids -> LPAccount],
           \A a \in Ids : lp[a].deposit = "usable" => lp'[a].deposit = "usable",
           r.got = "active" => lp'[r.id].deposit = "usable",
           UNCHANGED <<rows, reports, answers>>
    PROVE AInv'
  <1>1. handler \in [Handlers -> Handler]
    BY DEF AInv, Types
  <1>2. /\ handler' \in [Handlers -> Handler]
        /\ \A g \in Handlers : handler'[g] = IF g = h THEN r ELSE handler[g]
    BY <1>1 DEF Learns
  <1>3. Types'
    BY <1>2 DEF AInv, Types
  <1>4. Bound'
    BY <1>2 DEF AInv, Bound, Learns, Serving
  <1>5. ActiveIsReal'
    <2>1. \A g \in Handlers : handler[g].pc \in {"read", "write"} => handler[g].id \in Ids
      BY DEF AInv, Bound, Serving
    <2>2. \A p \in reports : p.id \in Ids
      BY DEF AInv, Types
    <2> QED
      BY <1>2, <2>1, <2>2 DEF AInv, ActiveIsReal, Learns
  <1>6. OwnedByCaller'
    BY <1>2 DEF AInv, OwnedByCaller, Learns
  <1> QED
    BY <1>3, <1>4, <1>5, <1>6 DEF AInv

LEMMA ProvisionInv ==
    ASSUME AInv, NEW h \in Handlers, Provision(h)
    PROVE AInv'
  <1>1. /\ handler[h].pc = "provision" /\ handler[h].by = "create" /\ handler[h] \in Handler
        /\ handler[h].id \in Ids /\ lp \in [Ids -> LPAccount]
    BY ByCreate DEF Provision, At, AInv, Types, Bound, Serving
  <1>2. PICK account \in LPAccount :
          Provisioned(handler[h].id, account) /\ Issued(h, account)
    BY DEF Provision
  <1> DEFINE next == IF account.state # "failed" /\ account.deposit = "none"
                     THEN "poll" ELSE "read"
             r == [handler[h] EXCEPT !.pc = next, !.got = Seen(account)]
  <1>3. /\ Seen(account) \in IssuanceStatuses
        /\ Seen(account) = "active" => account.deposit = "usable"
    BY SeenStatus
  <1>4. r \in Handler /\ Learns(h, r)
    BY <1>1, <1>2, <1>3 DEF Handler, Learns, Issued
  <1>5. /\ lp' \in [Ids -> LPAccount]
        /\ \A a \in Ids : lp[a].deposit = "usable" => lp'[a].deposit = "usable"
        /\ lp'[handler[h].id] = account
    BY <1>1, <1>2 DEF Provisioned, NoAccount
  <1>6. r.got = "active" => lp'[r.id].deposit = "usable"
    BY <1>1, <1>3, <1>5 DEF Handler
  <1>7. UNCHANGED <<rows, reports, answers>> /\ handler[h].pc \in Serving
    BY <1>1 DEF Provision, history, Serving
  <1> QED
    BY <1>1, <1>4, <1>5, <1>6, <1>7, LearnInv

LEMMA ProvisionFailsInv ==
    ASSUME AInv, NEW h \in Handlers, ProvisionFails(h)
    PROVE AInv'
  <1>1. /\ handler[h].pc = "provision" /\ handler[h].by = "create" /\ handler[h] \in Handler
        /\ handler[h].id \in Ids /\ lp \in [Ids -> LPAccount]
    BY ByCreate DEF ProvisionFails, At, AInv, Types, Bound, Serving
  <1> DEFINE r == [handler[h] EXCEPT !.pc = "read", !.got = "failed"]
  <1>2. Learns(h, r) /\ r.got = "failed"
    BY <1>1 DEF Handler, IssuanceStatuses, Learns, ProvisionFails
  <1>3. /\ lp' \in [Ids -> LPAccount]
        /\ \A a \in Ids : lp[a].deposit = "usable" => lp'[a].deposit = "usable"
    BY <1>1 DEF ProvisionFails, Provisioned, NoAccount
  <1>4. UNCHANGED <<rows, reports, answers>> /\ handler[h].pc \in Serving
    BY <1>1 DEF ProvisionFails, history, Serving
  <1> QED
    BY <1>1, <1>2, <1>3, <1>4, LearnInv

LEMMA PollInv ==
    ASSUME AInv, NEW h \in Handlers, Poll(h)
    PROVE AInv'
  <1>1. /\ handler[h].pc = "poll" /\ handler[h].by = "create" /\ handler[h] \in Handler
        /\ handler[h].id \in Ids /\ lp \in [Ids -> LPAccount]
    BY ByCreate DEF Poll, At, AInv, Types, Bound, Serving
  <1> DEFINE r == [handler[h] EXCEPT !.pc = "read", !.got = Seen(lp[handler[h].id])]
  <1>2. /\ Seen(lp[handler[h].id]) \in IssuanceStatuses
        /\ Seen(lp[handler[h].id]) = "active" => lp[handler[h].id].deposit = "usable"
    BY <1>1, SeenStatus
  <1>3. Learns(h, r) /\ (r.got = "active" => lp[r.id].deposit = "usable")
    BY <1>1, <1>2 DEF Handler, Learns, Poll
  <1>4. UNCHANGED <<rows, lp, reports, answers>> /\ handler[h].pc \in Serving
    BY <1>1 DEF Poll, issuance, history, Serving
  <1> QED
    BY <1>1, <1>3, <1>4, LearnInv

LEMMA PollFailsInv ==
    ASSUME AInv, NEW h \in Handlers, PollFails(h)
    PROVE AInv'
  BY FinishInv DEF PollFails, issuance, history

LEMMA ReadBeforeInv ==
    ASSUME AInv, NEW h \in Handlers, ReadBefore(h)
    PROVE AInv'
  <1> DEFINE b == IF Live(handler[h].id) THEN Capability(rows[handler[h].id]) ELSE "not_started"
             r == [handler[h] EXCEPT !.pc = "write", !.before = b]
  <1>1. handler[h].pc = "read" /\ handler[h] \in Handler /\ handler[h].id \in Ids
    BY DEF ReadBefore, At, AInv, Types, Bound, Serving
  <1>2. b \in {"not_started", "pending", "active", "failed"}
    BY DEF Capability
  <1> HIDE DEF b
  <1>3. /\ r \in Handler /\ r.pc = "write" /\ r.by = handler[h].by /\ r.id = handler[h].id
        /\ r.user = handler[h].user /\ r.req = handler[h].req /\ r.got = handler[h].got
    BY <1>1, <1>2 DEF Handler
  <1>4. Allowed(r)
    BY <1>1, <1>3 DEF Allowed, AInv, Bound, ActiveIsReal, OwnedByCaller, Serving
  <1>5. MovesTo(h, r)
    BY DEF ReadBefore, MovesTo, issuance, history, b
  <1> QED
    BY <1>4, <1>5, MoveInv

\* A row is rewritten: its owner stays and what it says of the issuance is so.
RowSaved(a, row) ==
    /\ rows' = [rows EXCEPT ![a] = row]
    /\ row \in Row /\ row.state # "unborn"
    /\ row.user = rows[a].user /\ row.req = rows[a].req
    /\ row.status = "active" => lp[a].deposit = "usable"

LEMMA SaveInv ==
    ASSUME AInv, NEW h \in Handlers, NEW a \in Ids, NEW row, RowSaved(a, row), Finish(h),
           UNCHANGED <<lp, reports>>,
           \/ UNCHANGED answers
           \/ /\ Answer(h, a)
              /\ handler[h].user \in Users /\ handler[h].req \in RequestIds
              /\ Owned(rows[a], handler[h].user, handler[h].req)
    PROVE AInv'
  <1>1. handler \in [Handlers -> Handler] /\ rows \in [Ids -> Row]
    BY DEF AInv, Types
  <1>2. /\ handler' \in [Handlers -> Handler]
        /\ \A g \in Handlers : handler'[g] = IF g = h THEN Idle ELSE handler[g]
    BY <1>1, IdleIsHandler DEF Finish
  <1>3. /\ rows' \in [Ids -> Row]
        /\ \A b \in Ids : rows'[b] = IF b = a THEN row ELSE rows[b]
    BY <1>1 DEF RowSaved
  <1>4. \A b \in Ids : \A u, q : Owned(rows[b], u, q) => Owned(rows'[b], u, q)
    BY <1>3 DEF RowSaved, Owned
  <1>5. Types'
    BY <1>2, <1>3 DEF AInv, Types, Answer
  <1>6. Bound'
    BY <1>2, IdleIsHandler DEF AInv, Bound, Serving
  <1>7. ActiveIsReal'
    BY <1>2, <1>3, IdleIsHandler DEF AInv, ActiveIsReal, RowSaved
  <1>8. OwnedByCaller'
    <2>1. \A g \in Handlers : handler[g].pc \in Serving => handler[g].id \in Ids
      BY DEF AInv, Bound
    <2>2. \A ans \in answers : ans[3] \in Ids
      BY DEF AInv, Types
    <2>3. \A ans \in answers' : Owned(rows'[ans[3]], ans[1], ans[2])
      BY <1>4, <2>2 DEF AInv, OwnedByCaller, Answer
    <2>4. \A g \in Handlers :
            handler'[g].by = "create" /\ handler'[g].pc \in Serving =>
              Owned(rows'[handler'[g].id], handler'[g].user, handler'[g].req)
      BY <1>2, <1>4, <2>1, IdleIsHandler DEF AInv, OwnedByCaller, Serving
    <2> QED
      BY <2>3, <2>4 DEF OwnedByCaller
  <1> QED
    BY <1>5, <1>6, <1>7, <1>8 DEF AInv

LEMMA WriteIssuanceInv ==
    ASSUME AInv, NEW h \in Handlers, WriteIssuance(h)
    PROVE AInv'
  <1> DEFINE c == handler[h]
             row == Patched(rows[c.id], c)
  <1>1. /\ c.pc = "write" /\ c \in Handler /\ c.id \in Ids /\ rows[c.id] \in Row
        /\ c.got = "active" => lp[c.id].deposit = "usable"
    BY DEF WriteIssuance, At, AInv, Types, Bound, ActiveIsReal, Serving
  <1>2. UNCHANGED <<lp, reports>> /\ Finish(h)
    BY DEF WriteIssuance, issuance
  <1>3. CASE ~Live(c.id)
    BY <1>2, <1>3, FinishInv DEF WriteIssuance, history
  <1>4. CASE Live(c.id)
    <2>1. rows' = [rows EXCEPT ![c.id] = row]
      BY <1>4 DEF WriteIssuance
    <2>2. /\ row \in Row /\ row.state = "live" /\ row.user = rows[c.id].user
          /\ row.req = rows[c.id].req /\ row.status = c.got
      <3>1. c.got \in IssuanceStatuses
        BY <1>1 DEF AInv, Bound
      <3> QED
        BY <1>1, <1>4, <3>1 DEF Live, Patched, Row, Handler
    <2>3. RowSaved(c.id, row)
      BY <1>1, <2>1, <2>2 DEF RowSaved
    <2>4. c.by = "create" => /\ c.user \in Users /\ c.req \in RequestIds
                             /\ Owned(rows[c.id], c.user, c.req)
      BY <1>1 DEF AInv, Bound, OwnedByCaller, Serving
    <2>5. IF c.by = "create" THEN Answer(h, c.id) ELSE UNCHANGED answers
      BY <1>4 DEF WriteIssuance
    <2> HIDE DEF row
    <2> QED
      BY <1>1, <1>2, <2>3, <2>4, <2>5, SaveInv
  <1> QED
    BY <1>3, <1>4
-----------------------------------------------------------------------------
(* The identity check, the LP, and the rest. *)

LEMMA ImportKycInv ==
    ASSUME AInv, NEW h \in Handlers, ImportKyc(h)
    PROVE AInv'
  <1>1. /\ handler[h].pc = "import" /\ handler[h].by = "create" /\ handler[h] \in Handler
        /\ handler[h].pc \in Serving /\ handler[h].id \in Ids
        /\ handler[h].user \in Users /\ handler[h].req \in RequestIds
        /\ Owned(rows[handler[h].id], handler[h].user, handler[h].req)
    BY ByCreate DEF ImportKyc, At, AInv, Types, Bound, OwnedByCaller, Serving
  <1>2. UNCHANGED <<rows, lp, reports, answers>>
    BY DEF ImportKyc, issuance, history
  <1>3. ASSUME NEW s \in {"approved", "rejected", "pending_import", "failed"},
               handler' = [handler EXCEPT ![h].pc = "storeKyc", ![h].got = s]
        PROVE AInv'
    <2> DEFINE r == [handler[h] EXCEPT !.pc = "storeKyc", !.got = s]
    <2>1. /\ r \in Handler /\ r.pc = "storeKyc" /\ r.got = s /\ r.by = "create"
          /\ r.id = handler[h].id /\ r.user = handler[h].user /\ r.req = handler[h].req
          /\ s \in KycStatuses
      BY <1>1 DEF Handler, KycStatuses
    <2>2. Allowed(r)
      BY <1>1, <2>1 DEF Allowed
    <2>3. MovesTo(h, r)
      BY <1>2, <1>3 DEF MovesTo
    <2> QED
      BY <2>2, <2>3, MoveInv
  <1>4. CASE Finish(h)
    BY <1>2, <1>4, FinishInv
  <1> QED
    BY <1>3, <1>4 DEF ImportKyc

LEMMA StoreKycInv ==
    ASSUME AInv, NEW h \in Handlers, StoreKyc(h)
    PROVE AInv'
  <1> DEFINE c == handler[h]
             row == [rows[c.id] EXCEPT !.kyc = c.got]
  <1>1. /\ c.pc = "storeKyc" /\ c.by = "create" /\ c.id \in Ids /\ rows[c.id] \in Row
        /\ c.got \in KycStatuses /\ c.user \in Users /\ c.req \in RequestIds
        /\ Owned(rows[c.id], c.user, c.req)
        /\ rows[c.id].status = "active" => lp[c.id].deposit = "usable"
    BY ByCreate DEF StoreKyc, At, AInv, Types, Bound, ActiveIsReal, OwnedByCaller, Serving
  <1>2. UNCHANGED <<lp, reports>> /\ Finish(h)
    BY DEF StoreKyc, issuance
  <1>3. CASE ~Live(c.id)
    BY <1>2, <1>3, FinishInv DEF StoreKyc
  <1>4. CASE Live(c.id)
    <2>1. rows' = [rows EXCEPT ![c.id] = row]
      BY <1>4 DEF StoreKyc
    <2>2. RowSaved(c.id, row)
      BY <1>1, <1>4, <2>1 DEF RowSaved, Row, Live
    <2>3. Answer(h, c.id) \/ UNCHANGED answers
      BY <1>4 DEF StoreKyc
    <2> HIDE DEF row
    <2> QED
      BY <1>1, <1>2, <2>2, <2>3, SaveInv
  <1> QED
    BY <1>3, <1>4

\* The LP changes an account; the new one's instructions are usable if the old
\* one's were, and so are those of an account it reports as active.
LEMMA LPInv ==
    ASSUME AInv, NEW a \in Ids, NEW account \in LPAccount,
           lp' = [lp EXCEPT ![a] = account],
           lp[a].deposit = "usable" => account.deposit = "usable",
           NEW said \in SUBSET {"pending", "active", "failed"},
           "active" \in said => account.deposit = "usable",
           reports' = reports \cup {[id |-> a, status |-> s] : s \in said},
           UNCHANGED <<rows, handler, answers>>
    PROVE AInv'
  <1>1. lp \in [Ids -> LPAccount]
    BY DEF AInv, Types
  <1>2. /\ lp' \in [Ids -> LPAccount]
        /\ \A b \in Ids : lp[b].deposit = "usable" => lp'[b].deposit = "usable"
        /\ lp'[a] = account
    BY <1>1
  <1>3. Types'
    BY <1>2 DEF AInv, Types
  <1>4. Bound' /\ OwnedByCaller'
    BY DEF AInv, Bound, OwnedByCaller
  <1>5. ActiveIsReal'
    <2>1. \A g \in Handlers : handler[g].pc \in {"read", "write"} => handler[g].id \in Ids
      BY DEF AInv, Bound, Serving
    <2>2. \A p \in reports : p.id \in Ids
      BY DEF AInv, Types
    <2>3. \A p \in reports' : p.status = "active" => lp'[p.id].deposit = "usable"
      BY <1>2, <2>2 DEF AInv, ActiveIsReal
    <2> QED
      BY <1>2, <2>1, <2>3 DEF AInv, ActiveIsReal
  <1> QED
    BY <1>3, <1>4, <1>5 DEF AInv

LEMMA LPInstructsInv ==
    ASSUME AInv, NEW a \in Ids, LPInstructs(a)
    PROVE AInv'
  <1>1. PICK i \in {"unusable", "usable"} : lp' = [lp EXCEPT ![a].deposit = i]
    BY DEF LPInstructs
  <1> DEFINE account == [lp[a] EXCEPT !.deposit = i]
  <1>2. lp[a] \in LPAccount /\ lp[a].deposit = "none"
    BY DEF LPInstructs, AInv, Types
  <1>3. account \in LPAccount /\ lp' = [lp EXCEPT ![a] = account]
    BY <1>1, <1>2 DEF LPAccount, Instructions
  <1>4. reports' = reports \cup {[id |-> a, status |-> s] : s \in {}}
    BY DEF LPInstructs
  <1>5. UNCHANGED <<rows, handler, answers>>
    BY DEF LPInstructs, history
  <1> HIDE DEF account
  <1> QED
    BY <1>2, <1>3, <1>4, <1>5, LPInv

LEMMA LPMovesInv ==
    ASSUME AInv, NEW a \in Ids, LPMoves(a)
    PROVE AInv'
  <1>1. PICK s \in {"kyc_pending", "active", "failed"} :
          /\ lp' = [lp EXCEPT ![a].state = s]
          /\ reports' = IF s = "active" /\ lp[a].deposit # "usable" THEN reports
                        ELSE reports \cup {[id |-> a, status |-> Reported(s)]}
    BY DEF LPMoves
  <1> DEFINE account == [lp[a] EXCEPT !.state = s]
             said == IF s = "active" /\ lp[a].deposit # "usable" THEN {} ELSE {Reported(s)}
  <1>2. lp[a] \in LPAccount
    BY DEF AInv, Types
  <1>3. /\ account \in LPAccount /\ lp' = [lp EXCEPT ![a] = account]
        /\ account.deposit = lp[a].deposit
    BY <1>1, <1>2 DEF LPAccount, LPStates
  <1>4. /\ said \in SUBSET {"pending", "active", "failed"}
        /\ "active" \in said => account.deposit = "usable"
        /\ reports' = reports \cup {[id |-> a, status |-> x] : x \in said}
    BY <1>1, <1>3 DEF Reported
  <1>5. UNCHANGED <<rows, handler, answers>>
    BY DEF LPMoves, history
  <1> HIDE DEF account, said
  <1> QED
    BY <1>3, <1>4, <1>5, LPInv

LEMMA ReportInv ==
    ASSUME AInv, NEW h \in Handlers, Report(h)
    PROVE AInv'
  <1>1. PICK r \in reports :
          /\ reports' = reports \ {r}
          /\ handler' = [handler EXCEPT ![h] =
               IF Live(r.id)
               THEN [Idle EXCEPT !.pc = "read", !.by = "webhook", !.id = r.id,
                                 !.got = r.status]
               ELSE Idle]
    BY DEF Report
  <1> DEFINE f == IF Live(r.id)
                  THEN [Idle EXCEPT !.pc = "read", !.by = "webhook", !.id = r.id,
                                    !.got = r.status]
                  ELSE Idle
  <1>2. /\ r.id \in Ids /\ r.status \in {"pending", "active", "failed"}
        /\ r.status = "active" => lp[r.id].deposit = "usable"
    BY DEF AInv, Types, ActiveIsReal
  <1>3. /\ f \in Handler
        /\ \/ f.pc = "idle" /\ f.by = "create"
           \/ /\ f.pc = "read" /\ f.by = "webhook" /\ f.id = r.id
              /\ f.got = r.status
    BY <1>2 DEF Idle, Handler, IssuanceStatuses
  <1>4. UNCHANGED <<rows, lp, answers>>
    BY DEF Report, history
  <1> HIDE DEF f
  <1>5. /\ handler' \in [Handlers -> Handler]
        /\ \A g \in Handlers : handler'[g] = IF g = h THEN f ELSE handler[g]
    BY <1>1, <1>3 DEF AInv, Types, f
  <1>6. Types'
    BY <1>1, <1>4, <1>5 DEF AInv, Types
  <1>7. Bound'
    BY <1>2, <1>3, <1>5 DEF AInv, Bound, Serving, IssuanceStatuses
  <1>8. ActiveIsReal'
    BY <1>1, <1>2, <1>3, <1>4, <1>5 DEF AInv, ActiveIsReal
  <1>9. OwnedByCaller'
    BY <1>3, <1>4, <1>5 DEF AInv, OwnedByCaller, Serving
  <1> QED
    BY <1>6, <1>7, <1>8, <1>9 DEF AInv

\* A deleted row still says whose it was.
LEMMA DeleteInv ==
    ASSUME AInv, NEW a \in Ids, Delete(a)
    PROVE AInv'
  <1>1. /\ rows \in [Ids -> Row] /\ rows[a].state = "live"
        /\ rows' = [rows EXCEPT ![a].state = "deleted"]
        /\ UNCHANGED <<handler, lp, reports, answers>>
    BY DEF Delete, Live, AInv, Types, issuance, history
  <1>2. /\ rows' \in [Ids -> Row]
        /\ \A b \in Ids : /\ rows'[b].user = rows[b].user /\ rows'[b].req = rows[b].req
                          /\ rows'[b].status = rows[b].status
                          /\ rows[b].state # "unborn" => rows'[b].state # "unborn"
    BY <1>1 DEF Row
  <1>3. Types'
    BY <1>1, <1>2 DEF AInv, Types
  <1>4. Bound'
    BY <1>1 DEF AInv, Bound
  <1>5. ActiveIsReal'
    BY <1>1, <1>2 DEF AInv, ActiveIsReal
  <1>6. OwnedByCaller'
    BY <1>1, <1>2 DEF AInv, Types, Bound, OwnedByCaller, Owned
  <1> QED
    BY <1>3, <1>4, <1>5, <1>6 DEF AInv

LEMMA CrashInv ==
    ASSUME AInv, Crash
    PROVE AInv'
  <1>1. handler' = [h \in Handlers |-> Idle] /\ UNCHANGED <<rows, lp, reports, answers>>
    BY DEF Crash, issuance, history
  <1> QED
    BY <1>1, IdleIsHandler
    DEF AInv, Types, Bound, ActiveIsReal, OwnedByCaller, Serving

LEMMA SameInv ==
    ASSUME AInv, UNCHANGED <<rows, handler, lp, reports, answers>>
    PROVE AInv'
  BY DEF AInv, Types, Bound, ActiveIsReal, OwnedByCaller

\* Every step keeps the invariant.
LEMMA StepInv == AInv /\ [Next]_vars => AInv'
  <1> SUFFICES ASSUME AInv, [Next]_vars PROVE AInv'
    OBVIOUS
  <1>1. ASSUME NEW h \in Handlers, Serve(h)
        PROVE AInv'
    BY <1>1, LookupInv, CopyDocumentInv, InsertInv, RacedInv, AnnounceInv, ProvisionInv,
       ProvisionFailsInv, PollInv, ReadBeforeInv, WriteIssuanceInv, ImportKycInv, StoreKycInv
       DEF Serve
  <1>2. ASSUME NEW h \in Handlers, Report(h) \/ PollFails(h)
        PROVE AInv'
    BY <1>2, ReportInv, PollFailsInv
  <1>3. ASSUME NEW h \in Handlers, NEW u \in Users, NEW q \in RequestIds, Create(h, u, q)
        PROVE AInv'
    BY <1>3, CreateInv
  <1>4. ASSUME NEW a \in Ids, LPInstructs(a) \/ LPMoves(a) \/ Delete(a)
        PROVE AInv'
    BY <1>4, LPInstructsInv, LPMovesInv, DeleteInv
  <1>5. ASSUME NEW i \in DOMAIN events, Outbox(i)
        PROVE AInv'
    BY <1>5, SameInv DEF Outbox, issuance, history
  <1>6. CASE Crash
    BY <1>6, CrashInv
  <1>7. CASE UNCHANGED vars
    BY <1>7, SameInv DEF vars
  <1> QED
    BY <1>1, <1>2, <1>3, <1>4, <1>5, <1>6, <1>7 DEF Next

LEMMA Invariance == Spec => []AInv
  BY InitInv, StepInv, PTL DEF Spec
-----------------------------------------------------------------------------
\* However answers, polls, reports, deletions and crashes interleave, deposit
\* details are shown as ready (GET /accounts, mapUsdNamedDepositCapability) only
\* for an account that the LP has given usable instructions for.
THEOREM NeverReadyTooSoon == Spec => []ReadyIsReal
  <1>1. AInv => ReadyIsReal
    BY DEF AInv, Types, ActiveIsReal, ReadyIsReal, Capability
  <1> QED
    BY <1>1, Invariance, PTL

\* However creations with one requestId race, replay and meet deletions, POST
\* /accounts answers nobody with an account that another business made.
THEOREM NeverAnothersAccount == Spec => []ReplayIsOwn
  <1>1. AInv => ReplayIsOwn
    BY DEF AInv, OwnedByCaller, Owned, ReplayIsOwn
  <1> QED
    BY <1>1, Invariance, PTL
=============================================================================
