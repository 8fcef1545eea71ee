------------------------------- MODULE Onramp -------------------------------
(***************************************************************************)
(* One onramp (fiat in, crypto out), from the moment createOnramp has       *)
(* stored it until its crypto is sent, and the offramp it funds when it is  *)
(* the first leg of a fiat-to-fiat transfer.                                *)
(*                                                                          *)
(* As for an offramp, webhook handlers, polling GETs, operators and the     *)
(* lazy expiry run concurrently on one unlocked row, through                *)
(* updateOnrampStatus, and every await is a step.  What is peculiar to an   *)
(* onramp: every GET of it advances its payout.                             *)
(*                                                                          *)
(* The crypto leaves in one of two ways.  Either the liquidity provider     *)
(* (LP) sends it on-chain: there is one idempotency key,                    *)
(* `onramp-crypto-wd:<txnRef>`, and so one withdrawal, `sent`.  Or, when    *)
(* the address it would go to is the deposit address of an offramp of the   *)
(* same business (`pair`), nothing is sent and the offramp is marked funded.*)
(***************************************************************************)
EXTENDS Naturals, FiniteSets

CONSTANTS
    Handlers,   \* the requests the API processes may be serving at one time
    Reports,    \* the onramp.* events the LP may emit
    Jobs,       \* the optional entry points an instance exercises
    Pairs,      \* whether the onramp funds an offramp: {"open"}, {"absent"} or both
    MaxFaults   \* bound: handlers or LP answers an instance may lose

ReportKinds ==
    {"onramp.awaiting_funds", "onramp.fiat_received", "onramp.fiat_processed",
     "onramp.crypto_initiated", "onramp.completed", "onramp.failed"}

ASSUME InstanceAssumption ==
    /\ Reports \subseteq ReportKinds
    /\ Pairs \subseteq {"absent", "open"}
    /\ MaxFaults \in Nat

VARIABLES
    row,      \* the onramp's database row
    pair,     \* the offramp the onramp's crypto goes to, as the onramp sees it
    handler,  \* what each request in flight has read and is about to do
    sent,     \* the LP's state of the crypto withdrawal
    events,   \* the webhook events the LP has emitted
    claimed,  \* the events in the webhook dedupe ledger
    audit,    \* what operators have decided about the onramp
    faults    \* how many handlers and LP answers have been lost

vars == <<row, pair, handler, sent, events, claimed, audit, faults>>
-----------------------------------------------------------------------------
Statuses ==
    {"CREATED", "AWAITING_FUNDS", "FIAT_PENDING", "FIAT_PROCESSED",
     "CRYPTO_INITIATED", "CRYPTO_PENDING", "COMPLETED", "FIAT_FAILED",
     "FIAT_RETURNED", "CRYPTO_FAILED", "EXPIRED"}

FundedStatuses ==
    {"FIAT_PENDING", "FIAT_PROCESSED", "CRYPTO_INITIATED", "CRYPTO_PENDING"}

AutoFailStatuses == {"EXPIRED", "FIAT_FAILED", "CRYPTO_FAILED"}

\* The row: whether the receipt names the withdrawal, the withdrawal status in
\* palremitOrchestrator, and whether a failure was held back (heldFailure).
Row ==
    [status : Statuses,
     wid : BOOLEAN,
     wstatus : {"none", "pending", "successful", "failed", "settled_internally"},
     held : BOOLEAN]

Columns == {"receipt", "refs"}

NewRow == [status |-> "AWAITING_FUNDS", wid |-> FALSE, wstatus |-> "none", held |-> FALSE]

\* absent: the onramp's crypto goes to a customer's wallet.  open: the offramp
\* waits for the crypto and matches.  claimed: settled internally.  paying: its
\* fiat payout has been asked for.  credited: the LP credited the crypto sent
\* on-chain.  closed: expired, cancelled or its deposit window is over.
PairState == {"absent", "open", "claimed", "paying", "credited", "closed"}

SentState == {"none", "pending", "successful", "failed"}

ProvisionEvents ==
    {"provisioned_account.active", "provisioned_account.kyc_pending",
     "provisioned_account.failed"}

EventKinds ==
    {"deposit.credited", "withdrawal.successful", "withdrawal.failed"}
       \union ProvisionEvents \union ReportKinds

Decisions == {"received", "success", "failed"}

\* A handler: where it stands, the row it is about to store, the columns its
\* update replaces, whether it may fail a funded ramp (allowAfterFunds), what
\* follows the update, and the row the payout being advanced was read from.
Handler ==
    [pc : {"idle", "update", "write", "advance", "settle", "claim", "send", "pay_pair"},
     new : Row, sets : SUBSET Columns, force : BOOLEAN,
     then : {"idle", "advance", "send", "pay_pair"}, copy : Row]

Idle ==
    [pc |-> "idle", new |-> NewRow, sets |-> {}, force |-> FALSE,
     then |-> "idle", copy |-> NewRow]

Init ==
    /\ row = NewRow
    /\ pair \in Pairs
    /\ handler = [p \in Handlers |-> Idle]
    /\ sent = "none"
    /\ events = {}
    /\ claimed = {}
    /\ audit = {}
    /\ faults = 0
-----------------------------------------------------------------------------
(* Decisions the code takes on a row it has read. *)

\* (Mutant of BlocksTransition: only expiry is guarded.)
BlocksOnlyExpiry(r, next) == next = "EXPIRED" /\ r.status \in FundedStatuses

\* blocksOnrampTransition: an automatic failure of a funded ramp.
BlocksTransition(r, next) ==
    next \in AutoFailStatuses /\ r.status \in FundedStatuses

\* (Mutant of Sendable: any row without a withdrawal is sent.)
SendableUnlessNamed(r) == ~r.wid

\* The rows whose crypto advanceOnrampIfFiatProcessed asks the LP for, once it
\* has not been settled internally: fiat in, or an earlier attempt that left no
\* withdrawal on the receipt.
Sendable(r) ==
    \/ r.status = "FIAT_PROCESSED"
    \/ r.status \in {"CRYPTO_FAILED", "CRYPTO_INITIATED", "CRYPTO_PENDING"} /\ ~r.wid

\* A call updateOnrampStatus(r.status, the columns cols of r), then `then`.  Of
\* providerRefs the caller passes palremitOrchestrator only.
Update(r, cols, then) ==
    [Idle EXCEPT !.pc = "update",
                 !.new = [status |-> r.status,
                          wid |-> "receipt" \in cols /\ r.wid,
                          wstatus |-> IF "refs" \in cols THEN r.wstatus ELSE "none",
                          held |-> FALSE],
                 !.sets = cols,
                 !.then = then]

\* An idle handler takes up work.
Run(p, h) ==
    /\ handler[p].pc = "idle"
    /\ handler' = [handler EXCEPT ![p] = h]

Goto(p, h) == handler' = [handler EXCEPT ![p] = h]

\* The event is claimed in the dedupe ledger before it is processed; a second
\* delivery finds it claimed and is answered "duplicate".
Claim(p, e) ==
    /\ handler[p].pc = "idle"
    /\ e \in events
    /\ e \notin claimed
    /\ claimed' = claimed \union {e}
-----------------------------------------------------------------------------
(* Webhook handlers, up to their call of updateOnrampStatus. *)

\* (Mutant of CreditableStatuses: a late credit does not revive an expired onramp.)
CreditableUnlessExpired == {"AWAITING_FUNDS", "FIAT_PENDING"}

CreditableStatuses == {"AWAITING_FUNDS", "FIAT_PENDING", "EXPIRED"}

DepositCredited(p) ==
    /\ Claim(p, "deposit.credited")
    /\ IF row.status \in CreditableStatuses
       THEN Run(p, Update([row EXCEPT !.status = "FIAT_PROCESSED", !.wid = FALSE],
                          {"receipt", "refs"}, "advance"))
       ELSE UNCHANGED handler
    /\ UNCHANGED <<row, pair, sent, events, audit, faults>>

\* (Mutant of WithdrawalSuccessful: accepted only while the LP is being asked.)
WithdrawalSuccessfulIfInitiated(p) ==
    /\ Claim(p, "withdrawal.successful")
    /\ IF row.status = "CRYPTO_INITIATED"
       THEN Run(p, Update([row EXCEPT !.status = "COMPLETED", !.wid = TRUE,
                                      !.wstatus = "successful"],
                          {"receipt", "refs"}, "idle"))
       ELSE UNCHANGED handler
    /\ UNCHANGED <<row, pair, sent, events, audit, faults>>

\* The receipt names the withdrawal.  The fee is queued then; that writes no
\* column of this module.
WithdrawalSuccessful(p) ==
    /\ Claim(p, "withdrawal.successful")
    /\ IF row.status \notin {"COMPLETED", "EXPIRED"}
       THEN Run(p, Update([row EXCEPT !.status = "COMPLETED", !.wid = TRUE,
                                      !.wstatus = "successful"],
                          {"receipt", "refs"}, "idle"))
       ELSE UNCHANGED handler
    /\ UNCHANGED <<row, pair, sent, events, audit, faults>>

\* The receipt no longer names the withdrawal.
WithdrawalFailed(p) ==
    /\ Claim(p, "withdrawal.failed")
    /\ IF row.status = "CRYPTO_PENDING"
       THEN Run(p, Update([row EXCEPT !.status = "CRYPTO_FAILED", !.wid = FALSE,
                                      !.wstatus = "failed"],
                          {"receipt", "refs"}, "idle"))
       ELSE UNCHANGED handler
    /\ UNCHANGED <<row, pair, sent, events, audit, faults>>

\* provisioned_account.active sends the status back to AWAITING_FUNDS,
\* kyc_pending stores the status it read, failed tries to fail the row.
ProvisionedStatus(kind, s) ==
    CASE kind = "provisioned_account.active" -> "AWAITING_FUNDS"
      [] kind = "provisioned_account.kyc_pending" -> s
      [] kind = "provisioned_account.failed" -> "FIAT_FAILED"

AccountProvisioned(p, kind) ==
    /\ Claim(p, kind)
    /\ IF row.status \in {"AWAITING_FUNDS", "FIAT_PENDING", "CREATED"}
       THEN Run(p, Update([row EXCEPT !.status = ProvisionedStatus(kind, @)],
                          {"refs"}, "idle"))
       ELSE UNCHANGED handler
    /\ UNCHANGED <<row, pair, sent, events, audit, faults>>

ReportedStatus(kind) ==
    CASE kind = "onramp.awaiting_funds" -> "AWAITING_FUNDS"
      [] kind = "onramp.fiat_received" -> "FIAT_PENDING"
      [] kind = "onramp.fiat_processed" -> "FIAT_PROCESSED"
      [] kind = "onramp.crypto_initiated" -> "CRYPTO_INITIATED"
      [] kind = "onramp.completed" -> "COMPLETED"
      [] kind = "onramp.failed" -> "CRYPTO_FAILED"

\* The onramp.* events are stored whatever the row says.  completed replaces
\* the receipt, by the transaction's hash or by nothing.
Reported(p, kind) ==
    /\ Claim(p, kind)
    /\ Run(p, Update([row EXCEPT !.status = ReportedStatus(kind), !.wid = FALSE],
                     IF kind = "onramp.completed" THEN {"receipt"} ELSE {}, "idle"))
    /\ UNCHANGED <<row, pair, sent, events, audit, faults>>
-----------------------------------------------------------------------------
(* API and operator requests, up to their first await after reading. *)

\* Lazy expiry on GET or LIST, once the deposit window is over.
Expire(p) ==
    /\ "expire" \in Jobs
    /\ row.status = "AWAITING_FUNDS"
    /\ Run(p, Update([row EXCEPT !.status = "EXPIRED"], {}, "idle"))
    /\ UNCHANGED <<row, pair, sent, events, claimed, audit, faults>>

\* GET /onramps/:id advances the payout; the lazy expiry that follows is Expire.
Get(p) ==
    /\ "get" \in Jobs
    /\ Run(p, [Idle EXCEPT !.pc = "advance"])
    /\ UNCHANGED <<row, pair, sent, events, claimed, audit, faults>>

\* An operator's request passes all of the providerRefs it read.
Decide(p, decision, r, cols, force, then) ==
    /\ Run(p, [Update(r, cols, then) EXCEPT !.new.held = r.held, !.force = force])
    /\ audit' = audit \union {decision}

MarkFiatReceived(p) ==
    /\ "mark" \in Jobs
    /\ row.status \in {"AWAITING_FUNDS", "FIAT_PENDING"}
    /\ Decide(p, "received", [row EXCEPT !.status = "FIAT_PROCESSED", !.wid = FALSE],
              {"receipt", "refs"}, FALSE, "advance")
    /\ UNCHANGED <<row, pair, sent, events, claimed, faults>>

MarkSuccess(p) ==
    /\ "mark" \in Jobs
    /\ Decide(p, "success", [row EXCEPT !.status = "COMPLETED", !.wid = FALSE,
                                        !.wstatus = "successful"],
              {"receipt", "refs"}, FALSE, "idle")
    /\ UNCHANGED <<row, pair, sent, events, claimed, faults>>

MarkFailed(p) ==
    /\ "mark" \in Jobs
    /\ Decide(p, "failed", [row EXCEPT !.status = "FIAT_FAILED", !.wstatus = "failed"],
              {"refs"}, TRUE, "idle")
    /\ UNCHANGED <<row, pair, sent, events, claimed, faults>>
-----------------------------------------------------------------------------
(* updateOnrampStatus: read the row, hold back an automatic failure, write. *)

\* providerRefs is merged: what the caller passes over what was just read.
Merged(h, r) ==
    IF "refs" \in h.sets THEN [h EXCEPT !.new.held = @ \/ r.held]
                         ELSE [h EXCEPT !.new.wstatus = r.wstatus]

\* A held update keeps the status just read and puts the refusal on record.
Held(h, r) ==
    [Merged(h, r) EXCEPT !.new.status = r.status,
                         !.new.held = TRUE,
                         !.sets = @ \union {"refs"}]

\* The update of h, once r has been read again.
Decided(h, r) ==
    IF ~h.force /\ BlocksTransition(r, h.new.status) THEN Held(h, r)
    ELSE IF "refs" \in h.sets THEN Merged(h, r)
    ELSE h

UpdateRead(p) ==
    LET h == handler[p]
    IN  /\ h.pc = "update"
        /\ Goto(p, [Decided(h, row) EXCEPT !.pc = "write"])
        /\ UNCHANGED <<row, pair, sent, events, claimed, audit, faults>>

\* The row as the update of h leaves it.
Stored(r, h) ==
    [status |-> h.new.status,
     wid |-> IF "receipt" \in h.sets THEN h.new.wid ELSE r.wid,
     wstatus |-> IF "refs" \in h.sets THEN h.new.wstatus ELSE r.wstatus,
     held |-> IF "refs" \in h.sets THEN h.new.held ELSE r.held]

UpdateWrite(p) ==
    LET h == handler[p]
    IN  /\ h.pc = "write"
        /\ row' = Stored(row, h)
        /\ Goto(p, [Idle EXCEPT !.pc = h.then, !.copy = h.copy])
        /\ UNCHANGED <<pair, sent, events, claimed, audit, faults>>
-----------------------------------------------------------------------------
(* advanceOnrampIfFiatProcessed: settle with the offramp or send on-chain. *)

AdvanceRead(p) ==
    /\ handler[p].pc = "advance"
    /\ CASE row.status = "FIAT_PROCESSED"
              -> Goto(p, [Idle EXCEPT !.pc = "settle", !.copy = row])
         [] row.status # "FIAT_PROCESSED" /\ Sendable(row)
              -> Goto(p, [Idle EXCEPT !.pc = "send", !.copy = row])
         [] OTHER -> Goto(p, Idle)
    /\ UNCHANGED <<row, pair, sent, events, claimed, audit, faults>>

\* Not settled: CRYPTO_INITIATED is stored, then the LP is asked.
InitiateSend(p) ==
    Goto(p, [Update([handler[p].copy EXCEPT !.status = "CRYPTO_INITIATED"], {}, "send")
                EXCEPT !.copy = handler[p].copy])

\* The one offramp the crypto would go to is looked up and checked.
FindPair(p) ==
    /\ handler[p].pc = "settle"
    /\ IF pair = "open" THEN Goto(p, [handler[p] EXCEPT !.pc = "claim"])
                        ELSE InitiateSend(p)
    /\ UNCHANGED <<row, pair, sent, events, claimed, audit, faults>>

\* (Mutants of ClaimPair: the outcome of the claim is not looked at; the caller
\* is not told that the onramp is settled.)
ClaimPairUnchecked(p) ==
    /\ handler[p].pc = "claim"
    /\ pair' = IF pair = "open" THEN "claimed" ELSE pair
    /\ Goto(p, Update([handler[p].copy EXCEPT !.status = "COMPLETED", !.wid = FALSE,
                                              !.wstatus = "settled_internally"],
                      {"receipt", "refs"}, "idle"))
    /\ UNCHANGED <<row, sent, events, claimed, audit, faults>>

ClaimPairThenSend(p) ==
    /\ handler[p].pc = "claim"
    /\ pair' = IF pair = "open" THEN "claimed" ELSE pair
    /\ InitiateSend(p)
    /\ UNCHANGED <<row, sent, events, claimed, audit, faults>>

\* claimOfframpCrypto is one conditional update, so one writer wins it.
ClaimPair(p) ==
    LET h == handler[p]
    IN  /\ h.pc = "claim"
        /\ IF pair = "open"
           THEN /\ pair' = "claimed"
                /\ Goto(p, Update([h.copy EXCEPT !.status = "COMPLETED", !.wid = FALSE,
                                                 !.wstatus = "settled_internally"],
                                  {"receipt", "refs"}, "pay_pair"))
           ELSE InitiateSend(p) /\ UNCHANGED pair
        /\ UNCHANGED <<row, sent, events, claimed, audit, faults>>

\* The offramp's payout is started (AdvanceRead of module Offramp).
PayPair(p) ==
    /\ handler[p].pc = "pay_pair"
    /\ pair' = "paying"
    /\ Goto(p, Idle)
    /\ UNCHANGED <<row, sent, events, claimed, audit, faults>>

\* What is stored once the LP has answered: with the withdrawal, or without.
SendStored(r, named) ==
    Update([r EXCEPT !.status = "CRYPTO_PENDING", !.wid = named, !.wstatus = "pending"],
           {"receipt", "refs"}, "idle")

\* The withdrawal there is for the onramp's idempotency key, minted if need be.
Minted == IF sent = "none" THEN "pending" ELSE sent

SendAccepted(p) ==
    /\ handler[p].pc = "send"
    /\ sent' = Minted
    /\ Goto(p, SendStored(handler[p].copy, TRUE))
    /\ UNCHANGED <<row, pair, events, claimed, audit, faults>>

SendRefused(p) ==
    /\ handler[p].pc = "send"
    /\ Goto(p, SendStored(handler[p].copy, FALSE))
    /\ UNCHANGED <<row, pair, sent, events, claimed, audit, faults>>

\* The LP accepts, but its answer arrives as an error or without an id, which
\* the code takes for a refusal.
SendAnswerLost(p) ==
    /\ faults < MaxFaults
    /\ handler[p].pc = "send"
    /\ sent' = Minted
    /\ Goto(p, SendStored(handler[p].copy, FALSE))
    /\ faults' = faults + 1
    /\ UNCHANGED <<row, pair, events, claimed, audit>>

\* A request dies half-way: a process restart, or an awaited call that throws.
\* The claim on its webhook event stays.
Abort(p) ==
    /\ faults < MaxFaults
    /\ handler[p].pc # "idle"
    /\ Goto(p, Idle)
    /\ faults' = faults + 1
    /\ UNCHANGED <<row, pair, sent, events, claimed, audit>>
-----------------------------------------------------------------------------
(* The liquidity provider, and the other life of the offramp. *)

Emit(e) == events' = events \union {e}

\* The customer's bank transfer is credited, an account changes state, or an
\* onramp.* event is sent: once each.
LPReports(kind) ==
    /\ kind \in {"deposit.credited"} \union Reports
          \union (IF "provision" \in Jobs THEN ProvisionEvents ELSE {})
    /\ kind \notin events
    /\ Emit(kind)
    /\ UNCHANGED <<row, pair, handler, sent, claimed, audit, faults>>

LPSends ==
    /\ sent = "pending"
    /\ sent' = "successful"
    /\ Emit("withdrawal.successful")
    /\ UNCHANGED <<row, pair, handler, claimed, audit, faults>>

LPFails ==
    /\ sent = "pending"
    /\ sent' = "failed"
    /\ Emit("withdrawal.failed")
    /\ UNCHANGED <<row, pair, handler, claimed, audit, faults>>

\* The crypto sent on-chain is credited to the offramp that waits for it.
PairCredited ==
    /\ pair = "open" /\ sent = "successful"
    /\ pair' = "credited"
    /\ UNCHANGED <<row, handler, sent, events, claimed, audit, faults>>

PairCloses ==
    /\ pair = "open"
    /\ pair' = "closed"
    /\ UNCHANGED <<row, handler, sent, events, claimed, audit, faults>>
-----------------------------------------------------------------------------
Webhook(p) ==
    \/ DepositCredited(p) \/ WithdrawalSuccessful(p) \/ WithdrawalFailed(p)
    \/ \E kind \in ProvisionEvents : AccountProvisioned(p, kind)
    \/ \E kind \in Reports : Reported(p, kind)

Request(p) ==
    Expire(p) \/ Get(p) \/ MarkFiatReceived(p) \/ MarkSuccess(p) \/ MarkFailed(p)

\* A step of a request already in flight.
Progress(p) ==
    \/ UpdateRead(p) \/ UpdateWrite(p) \/ AdvanceRead(p)
    \/ FindPair(p) \/ ClaimPair(p) \/ PayPair(p)
    \/ SendAccepted(p) \/ SendRefused(p)

Fault(p) == Abort(p) \/ SendAnswerLost(p)

Environment ==
    \/ \E kind \in EventKinds : LPReports(kind)
    \/ LPSends \/ LPFails \/ PairCredited \/ PairCloses

Next ==
    \/ \E p \in Handlers : Webhook(p) \/ Request(p) \/ Progress(p) \/ Fault(p)
    \/ Environment

Spec == Init /\ [][Next]_vars

\* A request in flight keeps running, and the LP delivers an event again until
\* it is answered.  Nothing makes a customer, an operator or the LP act.
Fairness ==
    /\ \A p \in Handlers : WF_vars(Progress(p))
    /\ SF_vars(\E p \in Handlers : Webhook(p))

FairSpec == Spec /\ Fairness
-----------------------------------------------------------------------------
(* Properties. *)

\* Every variable keeps its type.
TypeOK ==
    /\ row \in Row
    /\ pair \in PairState
    /\ handler \in [Handlers -> Handler]
    /\ sent \in SentState
    /\ events \subseteq EventKinds
    /\ claimed \subseteq events
    /\ audit \subseteq Decisions
    /\ faults \in 0..MaxFaults

AllIdle == \A p \in Handlers : handler[p] = Idle

\* handler p took the step
Steps(p) == handler'[p] # handler[p]

\* The LP has told, or an operator has confirmed, that the customer's fiat is in.
FiatIsIn ==
    \/ "received" \in audit
    \/ claimed \intersect {"deposit.credited", "onramp.fiat_received",
                           "onramp.fiat_processed", "onramp.crypto_initiated"} # {}

Settled == pair \in {"claimed", "paying"}

\* what an onramp may be COMPLETED for
CompletedBy ==
    \/ sent = "successful" \/ Settled
    \/ "success" \in audit \/ "onramp.completed" \in claimed

\* onramp.failed stores CRYPTO_FAILED on an onramp that still waits for its fiat,
\* and the next GET takes that for a payout that was interrupted.
FiatReported == FiatIsIn \/ "onramp.failed" \in claimed

\* "Advance onramp after fiat is confirmed" (advanceOnrampPayout.ts): no crypto
\* leaves, on-chain or into the paired offramp, before the fiat is in, although
\* any GET may start the payout, also of a row that has failed or expired, and
\* although requests overlap.  onramp.failed is the one event that breaks it.
SendIsFunded == sent # "none" \/ Settled => FiatReported

\* "Completion to COMPLETED is driven by webhook withdrawal.successful"
\* (advanceOnrampPayout.ts) or by the internal settlement: an onramp is COMPLETED
\* only if its crypto is there, or on the word of an operator or of the LP, even
\* when several requests settle it, send it and report on it at once.
CompletedIsSent == row.status = "COMPLETED" => CompletedBy

\* The step fails or expires an onramp whose fiat is in.
DropsFunds == row.status \in FundedStatuses /\ row'.status \in AutoFailStatuses

\* "Once we hold the customer's money, a ramp must never fail or expire on its
\* own" (fundsReceivedGuard.ts): only an operator's step may.
FundsAreHeld ==
    [][DropsFunds => \E p \in Handlers : Steps(p) /\ handler[p].force]_vars

\* "none of them sends the crypto on-chain while another would settle it"
\* (settler.ts): the offramp of a fiat-to-fiat transfer is funded one way.
PairFundedOnce == faults = 0 /\ Settled => sent = "none"

\* "Credit wins over deposit-window expiry" (processWebhookEvent.ts): if nothing
\* is lost, the fiat credited leads to the crypto being asked for or settled,
\* unless an operator has set the outcome or the LP has failed the account.
CreditIsPaidOut ==
    [](faults = 0 /\ "provisioned_account.failed" \notin events) =>
        ("deposit.credited" \in events
           ~> row.status \in {"CRYPTO_PENDING", "COMPLETED"}
                 \/ audit \intersect {"success", "failed"} # {})

\* If nothing is lost, an onramp whose crypto the LP has sent becomes COMPLETED,
\* unless an operator has set the outcome.
SentIsCompleted ==
    [](faults = 0) =>
        (sent = "successful"
           ~> row.status = "COMPLETED" \/ audit \intersect {"success", "failed"} # {})
-----------------------------------------------------------------------------
(* The inductive invariant behind SendIsFunded and CompletedIsSent. *)

\* The statuses a payout may be started from, and those that follow it.
FiatStatuses == FundedStatuses \union {"CRYPTO_FAILED"}

\* What the code may rely on: that the fiat is in, that the onramp is complete,
\* that its crypto went to the offramp.
Known ==
    (IF FiatReported THEN {"fiat"} ELSE {})
       \union (IF CompletedBy THEN {"completed"} ELSE {})
       \union (IF Settled THEN {"settled"} ELSE {})

\* A row, stored or about to be, says no more than what is known.
RowSound(r, known) ==
    /\ r.status \in FiatStatuses => "fiat" \in known
    /\ r.status = "COMPLETED" => "completed" \in known

\* A handler asks for the crypto, or for the payout of the offramp, only where
\* what it read allows that.
Sound(h, known) ==
    /\ RowSound(h.new, known)
    /\ RowSound(h.copy, known)
    /\ h.pc \in {"settle", "claim", "send"} \/ h.then = "send" => "fiat" \in known
    /\ h.pc = "pay_pair" \/ h.then = "pay_pair" => "settled" \in known

IInv ==
    /\ TypeOK
    /\ RowSound(row, Known)
    /\ \A p \in Handlers : Sound(handler[p], Known)
    /\ sent # "none" \/ Settled => FiatReported
    /\ "withdrawal.successful" \in events => sent = "successful"
=============================================================================
