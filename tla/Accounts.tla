------------------------------ MODULE Accounts ------------------------------
(***************************************************************************)
(* Onramp accounts: POST /users/:id/accounts with rail "onramp", the named  *)
(* USD deposit account the liquidity provider (LP) issues for it, or the    *)
(* identity check it imports, the LP's later reports on the issuance,       *)
(* and DELETE of the account.                                               *)
(*                                                                          *)
(* The creating request stores the row, asks the LP, polls it and writes    *)
(* what it last saw; a report's handler reads the row and writes what the   *)
(* report says.  Neither looks at what the row has become in between: every *)
(* await is a step here.                                                    *)
(***************************************************************************)
EXTENDS PartnerWebhooks, FiniteSets

CONSTANTS
    Handlers,     \* the requests the API processes may be serving at one time
    Ids,          \* account ids, each given out once
    RequestIds,   \* the requestId headers of POST /accounts
    Users,        \* the businesses that call it
    NamedUsers,   \* those whose USD accounts are issued by the LP
    ImportUsers,  \* those whose beneficiaries' identity is imported
    MaxFaults     \* bound: crashes and lost LP answers

ASSUME UsersAssumption == NamedUsers \cap ImportUsers = {} /\ MaxFaults \in Nat

VARIABLES
    rows,         \* the accounts table
    handler,      \* what each request in flight has read and is about to do
    lp,           \* the LP's issuance for each account
    reports,      \* provisioned_account.* events not yet delivered
    answers,      \* what POST /accounts has answered, to whom, naming which row
    overwritten,  \* accounts whose readiness a stale write has taken back
    faults        \* how many processes and LP answers have been lost

issuance == <<lp, reports>>
history == <<answers, overwritten>>
vars == <<rows, handler, lp, reports, answers, overwritten, faults, events, configured>>
-----------------------------------------------------------------------------
None == "none"

IssuanceStatuses == {None, "pending", "active", "failed"}

LPStates == {None, "provisioning", "kyc_pending", "active", "failed"}

\* The deposit instructions the LP gives with an account: none yet, of no use
\* (depositDetailsFromInstructions makes nothing of them), or usable.  They may
\* come before the account is active.
Instructions == {"none", "unusable", "usable"}

LPAccount == [state : LPStates, deposit : Instructions]

NoAccount == [state |-> None, deposit |-> "none"]

KycStatuses == {None, "pending_import", "approved", "rejected", "failed"}

\* An account.  `details` says whether depositDetails is stored.  (Its
\* provisionedAccountId is left out: an account has one issuance.)
Row ==
    [state : {"unborn", "live", "deleted"},
     user : Users \cup {None}, req : RequestIds \cup {None},
     status : IssuanceStatuses, details : BOOLEAN,
     kyc : KycStatuses]

Unborn ==
    [state |-> "unborn", user |-> None, req |-> None, status |-> None,
     details |-> FALSE, kyc |-> None]

\* A request in flight.  `got` is the issuance or identity status it is about
\* to store, `before` the capability it read, `by` whether it creates the account
\* or handles a report.
Handler ==
    [pc : {"idle", "lookup", "copy", "insert", "raced", "announce", "provision",
           "poll", "read", "write", "import", "storeKyc"},
     by : {"create", "webhook"}, user : Users \cup {None}, req : RequestIds \cup {None},
     id : Ids \cup {None}, got : IssuanceStatuses \cup KycStatuses,
     before : {"not_started", "pending", "active", "failed"}]

Idle ==
    [pc |-> "idle", by |-> "create", user |-> None, req |-> None, id |-> None,
     got |-> None, before |-> "not_started"]

Init ==
    /\ rows = [a \in Ids |-> Unborn]
    /\ handler = [h \in Handlers |-> Idle]
    /\ lp = [a \in Ids |-> NoAccount]
    /\ reports = {}
    /\ answers = {}
    /\ overwritten = {}
    /\ faults = 0
    /\ OutboxInit

\* (Mutant of Capability: trusts the status without the deposit details.)
CapabilityByStatus(r) == IF r.status = None THEN "not_started" ELSE r.status

\* mapUsdNamedDepositCapability: active without details is still pending.
Capability(r) ==
    CASE r.status = "failed" -> "failed"
      [] r.status = "active" /\ r.details -> "active"
      [] r.status = "pending" \/ (r.status = "active" /\ ~r.details) -> "pending"
      [] OTHER -> "not_started"

Live(a) == rows[a].state = "live"

Holding(q) == {a \in Ids : Live(a) /\ rows[a].req = q}

At(h, pc) == handler[h].pc = pc

Go(h, pc) == handler' = [handler EXCEPT ![h].pc = pc]

Finish(h) == handler' = [handler EXCEPT ![h] = Idle]

Fault == faults < MaxFaults /\ faults' = faults + 1

Answer(h, a) == answers' = answers \cup {<<handler[h].user, handler[h].req, a>>}
-----------------------------------------------------------------------------
(* POST /users/:id/accounts, rail onramp. *)

\* The request has passed validation.  (Bound: while there are ids to give out.)
Create(h, u, q) ==
    /\ At(h, "idle")
    /\ \E a \in Ids : rows[a].state = "unborn"
    /\ handler' = [handler EXCEPT ![h] = [Idle EXCEPT !.pc = "lookup", !.user = u, !.req = q]]
    /\ UNCHANGED <<rows, issuance, history, faults, events, configured>>

\* (Mutant of Replay: answers whoever knows the requestId.)
ReplayToAnyone(h, a) == Answer(h, a) /\ Finish(h)

\* A row already has the requestId: it is the answer if it is the caller's own
\* (accountCreationPayloadsMatch), otherwise 409.
Replay(h, a) ==
    /\ IF rows[a].user = handler[h].user THEN Answer(h, a) ELSE UNCHANGED answers
    /\ Finish(h)

Lookup(h) ==
    /\ At(h, "lookup")
    /\ IF Holding(handler[h].req) = {}
       THEN Go(h, "copy") /\ UNCHANGED answers
       ELSE \E a \in Holding(handler[h].req) : Replay(h, a)
    /\ UNCHANGED <<rows, issuance, overwritten, faults, events, configured>>

\* The source-of-funds document is copied to storage, or the request ends in 400.
CopyDocument(h) ==
    /\ At(h, "copy")
    /\ Go(h, "insert") \/ Finish(h)
    /\ UNCHANGED <<rows, issuance, history, faults, events, configured>>

\* creationRequestId is unique: the loser of a race gets P2002 and looks again.
Insert(h) ==
    LET c == handler[h] IN
    /\ At(h, "insert")
    /\ IF Holding(c.req) # {}
       THEN Go(h, "raced") /\ UNCHANGED rows
       ELSE \E a \in Ids :
              /\ rows[a].state = "unborn"
              /\ rows' = [rows EXCEPT ![a] =
                   [Unborn EXCEPT !.state = "live", !.user = c.user, !.req = c.req,
                      !.kyc = IF c.user \in ImportUsers THEN "pending_import" ELSE None]]
              /\ handler' = [handler EXCEPT ![h].pc = "announce", ![h].id = a]
    /\ UNCHANGED <<issuance, history, faults, events, configured>>

\* The row may be gone again: then the P2002 is thrown after all.
Raced(h) ==
    /\ At(h, "raced")
    /\ IF Holding(handler[h].req) = {}
       THEN Finish(h) /\ UNCHANGED answers
       ELSE \E a \in Holding(handler[h].req) : Replay(h, a)
    /\ UNCHANGED <<rows, issuance, overwritten, faults, events, configured>>

\* account.created; then the LP is asked, or the request is answered.
Announce(h) ==
    LET c == handler[h] IN
    /\ At(h, "announce")
    /\ Schedule("account.created", c.id, None)
    /\ CASE c.user \in NamedUsers -> Go(h, "provision") /\ UNCHANGED answers
         [] c.user \in ImportUsers -> Go(h, "import") /\ UNCHANGED answers
         [] OTHER -> Answer(h, c.id) /\ Finish(h)
    /\ UNCHANGED <<rows, issuance, overwritten, faults, configured>>

\* What the LP can make of a request to provision (external).
Provisioned(a, account) ==
    /\ lp[a] = NoAccount
    /\ account.state \in {"provisioning", "active", "failed"}
    /\ account.state = "active" => account.deposit # "none"
    /\ account.state = "failed" => account.deposit = "none"
    /\ lp' = [lp EXCEPT ![a] = account]

\* (Mutant of Seen: takes any account that has not failed for a ready one.)
SeenUnlessFailed(account) == IF account.state = "failed" THEN "failed" ELSE "active"

\* The issuance status the creating request makes of the LP's account: a failed
\* one has failed, any other is active once its instructions are usable, whatever
\* its state.
Seen(account) ==
    CASE account.state = "failed" -> "failed"
      [] account.state # "failed" /\ account.deposit = "usable" -> "active"
      [] OTHER -> "pending"

\* issueGraphNamedDepositAccount is answered: only an account without any
\* instructions is polled.
Issued(h, account) ==
    handler' = [handler EXCEPT
        ![h].pc = IF account.state # "failed" /\ account.deposit = "none" THEN "poll" ELSE "read",
        ![h].got = Seen(account)]

Provision(h) ==
    /\ At(h, "provision")
    /\ \E account \in LPAccount : Provisioned(handler[h].id, account) /\ Issued(h, account)
    /\ UNCHANGED <<rows, reports, history, faults, events, configured>>

\* The LP refuses; or it provisions and its answer is lost.  Both are stored
\* as a failure that names no LP account.
ProvisionFails(h) ==
    /\ At(h, "provision")
    /\ \/ UNCHANGED <<lp, faults>>
       \/ \E account \in LPAccount : Provisioned(handler[h].id, account) /\ Fault
    /\ handler' = [handler EXCEPT ![h].pc = "read", ![h].got = "failed"]
    /\ UNCHANGED <<rows, reports, history, events, configured>>

\* pollUntilInstructionsOrFailed: what the LP has now, or pending when the
\* attempts are used up.
Poll(h) ==
    /\ At(h, "poll")
    /\ handler' = [handler EXCEPT ![h].pc = "read", ![h].got = Seen(lp[handler[h].id])]
    /\ UNCHANGED <<rows, issuance, history, faults, events, configured>>

\* A poll that throws ends the request: the row keeps no issuance status.
PollFails(h) ==
    /\ At(h, "poll")
    /\ Fault
    /\ Finish(h)
    /\ UNCHANGED <<rows, issuance, history, events, configured>>
-----------------------------------------------------------------------------
(* updateAccountProviderIssuance: read, write, and tell the partner when the *)
(* capability differs from the one read.                                      *)

ReadBefore(h) ==
    LET a == handler[h].id IN
    /\ At(h, "read")
    /\ handler' = [handler EXCEPT ![h].pc = "write",
                     ![h].before = IF Live(a) THEN Capability(rows[a]) ELSE "not_started"]
    /\ UNCHANGED <<rows, issuance, history, faults, events, configured>>

\* (Mutant of Patched: stores the status without the deposit details.)
PatchedStatusOnly(r, c) == [r EXCEPT !.status = c.got]

\* The creating request writes all the fields; a report leaves the deposit
\* details alone unless the account is active.
Patched(r, c) ==
    [r EXCEPT !.status = c.got,
              !.details = IF c.by = "create" \/ c.got = "active" THEN c.got = "active" ELSE @]

\* maybeScheduleAccountCapabilitiesUpdated
Told(before, after) == before # after

\* A row deleted meanwhile makes the update throw.
WriteIssuance(h) ==
    LET c == handler[h]
        r == Patched(rows[c.id], c)
    IN
    /\ At(h, "write")
    /\ Finish(h)
    /\ IF Live(c.id)
       THEN /\ rows' = [rows EXCEPT ![c.id] = r]
            /\ IF Told(c.before, Capability(r))
               THEN Schedule("account.capabilities.updated", c.id, Capability(r))
               ELSE UNCHANGED events
            /\ IF c.by = "create" THEN Answer(h, c.id) ELSE UNCHANGED answers
            /\ overwritten' = IF Capability(rows[c.id]) = "active" /\ Capability(r) # "active"
                              THEN overwritten \cup {c.id} ELSE overwritten
       ELSE UNCHANGED <<rows, events, history>>
    /\ UNCHANGED <<issuance, faults, configured>>
-----------------------------------------------------------------------------
(* The import of a beneficiary's identity check. *)

\* importSwipeluxBeneficiaryKyc: refused, or answered with a status; a call
\* that throws leaves the row at pending_import.
ImportKyc(h) ==
    /\ At(h, "import")
    /\ \/ /\ \E s \in {"approved", "rejected", "pending_import", "failed"} :
               handler' = [handler EXCEPT ![h].pc = "storeKyc", ![h].got = s]
          /\ UNCHANGED faults
       \/ Fault /\ Finish(h)
    /\ UNCHANGED <<rows, issuance, history, events, configured>>

StoreKyc(h) ==
    LET c == handler[h] IN
    /\ At(h, "storeKyc")
    /\ Finish(h)
    /\ IF Live(c.id)
       THEN /\ rows' = [rows EXCEPT ![c.id].kyc = c.got]
            /\ IF c.got # "failed" THEN Answer(h, c.id) ELSE UNCHANGED answers
       ELSE UNCHANGED <<rows, answers>>
    /\ UNCHANGED <<issuance, overwritten, faults, events, configured>>
-----------------------------------------------------------------------------
(* The LP, its reports, and deletion. *)

\* The issuance status a report stands for.
Reported(state) == IF state = "kyc_pending" THEN "pending" ELSE state

Pending(a) == lp[a].state \in {"provisioning", "kyc_pending"}

\* The LP gives instructions, once, and says nothing of it (external).
LPInstructs(a) ==
    /\ Pending(a)
    /\ lp[a].deposit = "none"
    /\ \E i \in {"unusable", "usable"} : lp' = [lp EXCEPT ![a].deposit = i]
    /\ UNCHANGED <<rows, handler, reports, history, faults, events, configured>>

\* provisioned_account.kyc_pending, .active and .failed (external): each is
\* emitted once, and may be delivered after a later one.  One that says an
\* account is active without usable instructions is dropped when delivered, so
\* it is not kept here.
LPMoves(a) ==
    /\ Pending(a)
    /\ \E s \in {"kyc_pending", "active", "failed"} \ {lp[a].state} :
         /\ s = "active" => lp[a].deposit # "none"
         /\ lp' = [lp EXCEPT ![a].state = s]
         /\ reports' = IF s = "active" /\ lp[a].deposit # "usable" THEN reports
                       ELSE reports \cup {[id |-> a, status |-> Reported(s)]}
    /\ UNCHANGED <<rows, handler, history, faults, events, configured>>

\* applyFiatDepositAccountIssuanceWebhook: the report is claimed, then the row
\* is looked up; a deleted row is not for it.
Report(h) ==
    /\ At(h, "idle")
    /\ \E r \in reports :
         /\ reports' = reports \ {r}
         /\ handler' = [handler EXCEPT ![h] =
              IF Live(r.id)
              THEN [Idle EXCEPT !.pc = "read", !.by = "webhook", !.id = r.id,
                                !.got = r.status]
              ELSE Idle]
    /\ UNCHANGED <<rows, lp, history, faults, events, configured>>

\* DELETE /accounts/:id.  hasPendingTransactions never finds any.
Delete(a) ==
    /\ Live(a)
    /\ rows' = [rows EXCEPT ![a].state = "deleted"]
    /\ Schedule("account.deleted", a, None)
    /\ UNCHANGED <<handler, issuance, history, faults, configured>>

\* The API process dies and starts again.
Crash ==
    /\ Fault
    /\ handler' = [h \in Handlers |-> Idle]
    /\ events' = Abandoned
    /\ UNCHANGED <<rows, issuance, history, configured>>

Outbox(i) ==
    /\ Deliver(i)
    /\ UNCHANGED <<rows, handler, issuance, history, faults>>

Serve(h) ==
    \/ Lookup(h) \/ CopyDocument(h) \/ Insert(h) \/ Raced(h) \/ Announce(h)
    \/ Provision(h) \/ ProvisionFails(h) \/ Poll(h) \/ ReadBefore(h) \/ WriteIssuance(h)
    \/ ImportKyc(h) \/ StoreKyc(h)

Next ==
    \/ \E h \in Handlers :
         \/ Serve(h) \/ Report(h) \/ PollFails(h)
         \/ \E u \in Users, q \in RequestIds : Create(h, u, q)
    \/ \E a \in Ids : LPInstructs(a) \/ LPMoves(a) \/ Delete(a)
    \/ \E i \in DOMAIN events : Outbox(i)
    \/ Crash

\* A request being served is not left standing, nor is an event being sent;
\* the LP redelivers a report until it is taken.  Nothing else need happen.
Fairness ==
    /\ \A h \in Handlers : WF_vars(Serve(h))
    /\ SF_vars(\E h \in Handlers : Report(h))
    /\ \A i \in Followed : WF_vars(Outbox(i))

Spec == Init /\ [][Next]_vars /\ Fairness
-----------------------------------------------------------------------------
(* Properties. *)

TypeOK ==
    /\ rows \in [Ids -> Row]
    /\ handler \in [Handlers -> Handler]
    /\ lp \in [Ids -> LPAccount]
    /\ reports \subseteq [id : Ids, status : {"pending", "active", "failed"}]
    /\ answers \subseteq Users \X RequestIds \X Ids
    /\ overwritten \subseteq Ids
    /\ faults \in 0 .. MaxFaults
    /\ OutboxTypeOK

\* A partner is shown an account as ready for deposits only if the LP has given
\* usable instructions for that very account, whatever the order of answers,
\* polls, reports and deletes.  (Not only if the LP calls it active: the creating
\* request goes by the instructions alone, graphAccountIssuance.ts.)
ReadyIsReal ==
    \A a \in Ids : Capability(rows[a]) = "active" => lp[a].deposit = "usable"

\* Nobody is answered with another business's account, though requestIds are
\* one namespace and two creations with the same one may race.
ReplayIsOwn ==
    \A ans \in answers : rows[ans[3]].user = ans[1] /\ rows[ans[3]].req = ans[2]

\* An account the LP has made active, with instructions, becomes ready for its
\* owner, unless it is deleted, a process died, or a write that had not seen it
\* (the creating request's last poll, or a late pending report) put it back.
ActivationLands ==
    \A a \in Ids :
        (Live(a) /\ lp[a] = [state |-> "active", deposit |-> "usable"] /\ faults = 0)
            ~> \/ Capability(rows[a]) = "active"
               \/ ~Live(a) \/ faults > 0 \/ a \in overwritten
=============================================================================
