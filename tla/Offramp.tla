------------------------------ MODULE Offramp -------------------------------
(***************************************************************************)
(* One offramp (crypto in, fiat out), from the moment createOfframp has     *)
(* stored it until its payout is settled.                                   *)
(*                                                                          *)
(* The offramp is a database row.  Webhook handlers, API requests, operator *)
(* requests and the lazy expiry all run concurrently on it, and none of     *)
(* them locks it: each reads the row, decides, and then calls               *)
(* updateOfframpStatus, which reads the row again (to hold back an          *)
(* automatic failure) and then writes it.  Every await in that path is a    *)
(* step of its own here.  A handler carries what it read; the columns it    *)
(* replaces are built from that copy, not from the row it overwrites.       *)
(*                                                                          *)
(* The liquidity provider (LP) is external.  It credits deposits, settles   *)
(* payouts and reports each by a webhook event, which it may deliver late,  *)
(* repeatedly and in any order.  Payout n is the LP withdrawal minted by    *)
(* the n-th idempotency key: `offramp-fiat-wd:<txnRef>` for payout 1 and    *)
(* `offramp-fiat-reissue:<txnRef>:<id of n>` for payout n + 1, so repeating *)
(* a call never mints a second one.                                         *)
(***************************************************************************)
EXTENDS Naturals, FiniteSets

CONSTANTS
    Handlers,   \* the requests the API processes may be serving at one time
    Deposits,   \* the crypto deposits the customer may send to the address
    Amount,     \* Amount[d] is the amount of deposit d, in cents
    Total,      \* Total[S] is the amount of the deposits of S together
    Expected,   \* the quoted deposit, in cents
    Tolerance,  \* the underpayment tolerance of the asset, in cents
    MaxPayout,  \* bound: payouts an instance may mint for the offramp
    MaxFaults,  \* bound: handlers or LP answers an instance may lose
    FeeChecks,  \* the outcomes of the check whether the platform fee is payable
    Jobs        \* the optional entry points and provisioning events of an instance

ASSUME DepositsAssumption ==
    /\ Amount \in [Deposits -> Nat]
    /\ Total \in [SUBSET Deposits -> Nat]
    /\ Total[{}] = 0
    /\ \A S \in SUBSET Deposits : \A d \in Deposits \ S :
          Total[S \union {d}] = Total[S] + Amount[d]

ASSUME QuoteAssumption == Expected \in Nat \ {0} /\ Tolerance \in Nat

ASSUME FeeAssumption == FeeChecks \subseteq {"pending", "skipped"}

ASSUME BoundsAssumption == MaxPayout \in Nat \ {0} /\ MaxFaults \in Nat

VARIABLES
    row,      \* the offramp's database row
    handler,  \* what each request in flight has read and is about to do
    payout,   \* the LP's state of each payout
    feePayout, \* the LP's state of the platform fee's withdrawal
    events,   \* the webhook events the LP has emitted
    claimed,  \* the events in the webhook dedupe ledger
    faults    \* how many handlers and LP answers have been lost

vars == <<row, handler, payout, feePayout, events, claimed, faults>>
-----------------------------------------------------------------------------
None == 0

Payouts == 1..MaxPayout

PayoutId == Payouts \union {None}

PayoutState == {"none", "pending", "funded", "successful", "failed"}

FeePayoutState == {"none", "pending", "successful", "failed"}

Statuses ==
    {"CREATED", "AWAITING_CRYPTO", "CRYPTO_PENDING", "CRYPTO_RECEIVED",
     "CRYPTO_CONFIRMED", "PROCESSING_FEE", "FEE_PROCESSED", "FIAT_INITIATED",
     "FIAT_PENDING", "COMPLETED", "FAILED", "CRYPTO_FAILED", "FIAT_FAILED",
     "CANCELLED", "REFUNDED", "EXPIRED"}

FundedStatuses ==
    {"CRYPTO_PENDING", "CRYPTO_RECEIVED", "CRYPTO_CONFIRMED", "PROCESSING_FEE",
     "FEE_PROCESSED", "FIAT_INITIATED", "FIAT_PENDING"}

AutoFailStatuses == {"EXPIRED", "FAILED", "FIAT_FAILED", "CRYPTO_FAILED"}

\* The timeline column: the amount credited so far, whether any credit is on
\* it, the payout handed off, and whether the payout is marked paid out.
Timeline == [received : Nat, credited : BOOLEAN, wd : PayoutId, paid : BOOLEAN]

\* The providerRefs column.  Its palremitOrchestrator: the payout the row is
\* attached to, the withdrawal status on record, and whether an operator set
\* the outcome.  Beside it, heldFailure: whether a failure was held back.
Orchestrator ==
    [wd : PayoutId,
     wstatus : {"none", "pending", "funded", "successful", "failed",
                "failed_after_funding"},
     manual : BOOLEAN,
     held : BOOLEAN]

\* The fees column: the platform fee's settlement.
FeeStatuses == {"none", "pending", "skipped", "processing", "completed", "failed"}

Row ==
    [status : Statuses, tl : Timeline, orch : Orchestrator, refund : BOOLEAN,
     fee : FeeStatuses]

Columns == {"tl", "orch", "refund", "fee"}

NewTimeline == [received |-> 0, credited |-> FALSE, wd |-> None, paid |-> FALSE]

NewOrchestrator ==
    [wd |-> None, wstatus |-> "none", manual |-> FALSE, held |-> FALSE]

NewRow ==
    [status |-> "AWAITING_CRYPTO", tl |-> NewTimeline, orch |-> NewOrchestrator,
     refund |-> FALSE, fee |-> "none"]

\* withdrawal.successful and failed are about the fee's withdrawal when their
\* client reference is the fee's: "fee.successful" and "fee.failed".
EventKinds ==
    {"deposit.credited", "provisioned_account.active",
     "provisioned_account.kyc_pending", "provisioned_account.failed",
     "withdrawal.funded", "withdrawal.successful", "withdrawal.failed",
     "fee.successful", "fee.failed"}

Event == EventKinds \X (Deposits \union PayoutId)

\* A handler: where it stands, the row it is working from (for a pending
\* update, the row to store), the columns its update replaces, whether it may
\* fail a funded ramp (allowAfterFunds), the payout it is about, and what
\* follows the update.
Handler ==
    [pc : {"idle", "update", "write", "advance", "payout", "lp_state",
           "reissue_read", "reissue", "fee", "fee_pay", "fee_lookup"},
     new : Row, sets : SUBSET Columns, force : BOOLEAN, wd : PayoutId,
     then : {"idle", "advance", "fee"}]

Idle ==
    [pc |-> "idle", new |-> NewRow, sets |-> {}, force |-> FALSE, wd |-> None,
     then |-> "idle"]

Init ==
    /\ row = NewRow
    /\ handler = [p \in Handlers |-> Idle]
    /\ payout = [n \in Payouts |-> "none"]
    /\ feePayout = "none"
    /\ events = {}
    /\ claimed = {}
    /\ faults = 0
-----------------------------------------------------------------------------
(* Decisions the code takes on a row it has read. *)

\* The underpayment rule of isOfframpCryptoDepositComplete.
DepositComplete(total) ==
    total >= Expected \/ Expected - total < Tolerance

\* offrampFundsReceived: the money is in, by status or by a credit.
FundsReceived(r) == r.status \in FundedStatuses \/ r.tl.credited

\* blocksOfframpTransition: an automatic failure of a funded ramp.
BlocksTransition(r, next) == next \in AutoFailStatuses /\ FundsReceived(r)

\* expectedFiatWithdrawalId, used by webhooks: providerRefs first.
ExpectedWithdrawal(r) == IF r.orch.wd # None THEN r.orch.wd ELSE r.tl.wd

\* offrampFiatWithdrawalId, used by retry and reissue: timeline first.
AttachedWithdrawal(r) == IF r.tl.wd # None THEN r.tl.wd ELSE r.orch.wd

\* An event about payout n is for this row.
Matches(r, n) == ExpectedWithdrawal(r) \in {None, n}

\* (Mutant of Reissueable: the decision only rules out a paid payout.)
ReissueableUnlessPaid(state) == state \notin {"none", "successful"}

\* decideOfframpFiatRetry: only a payout the LP reports failed or refunded (both
\* are "failed" here) is replaced.
Reissueable(state) == state = "failed"

\* A call updateOfframpStatus(r.status, the columns cols of r), and then `then`.
\* Of providerRefs the caller passes palremitOrchestrator only.
Update(r, cols, then) ==
    [pc |-> "update",
     new |-> [status |-> r.status,
              tl |-> IF "tl" \in cols THEN r.tl ELSE NewTimeline,
              orch |-> IF "orch" \in cols THEN [r.orch EXCEPT !.held = FALSE]
                                          ELSE NewOrchestrator,
              refund |-> "refund" \in cols /\ r.refund,
              fee |-> IF "fee" \in cols THEN r.fee ELSE "none"],
     sets |-> cols, force |-> FALSE, wd |-> None, then |-> then]

\* An idle handler takes up work.
Run(p, h) ==
    /\ handler[p].pc = "idle"
    /\ handler' = [handler EXCEPT ![p] = h]

Goto(p, h) == handler' = [handler EXCEPT ![p] = h]

\* (Mutant of Claim: the ledger is written but not consulted.)
ClaimAgain(p, e) ==
    /\ handler[p].pc = "idle"
    /\ e \in events
    /\ claimed' = claimed \union {e}

\* The event is claimed in the dedupe ledger before it is processed; a second
\* delivery finds it claimed and is answered "duplicate".
Claim(p, e) ==
    /\ handler[p].pc = "idle"
    /\ e \in events
    /\ e \notin claimed
    /\ claimed' = claimed \union {e}
-----------------------------------------------------------------------------
(* Webhook handlers, up to their call of updateOfframpStatus. *)

\* (Mutant of CreditableStatuses: a late credit does not revive an expired offramp.)
CreditableUnlessExpired == {"AWAITING_CRYPTO", "CRYPTO_PENDING", "CRYPTO_RECEIVED"}

CreditableStatuses ==
    {"AWAITING_CRYPTO", "CRYPTO_PENDING", "CRYPTO_RECEIVED", "EXPIRED"}

\* The row after a credit of d on top of what the row read says.
Credited(r, d) ==
    LET total == r.tl.received + Amount[d]
    IN  [r EXCEPT !.status = IF DepositComplete(total) THEN "CRYPTO_CONFIRMED"
                                                       ELSE "CRYPTO_RECEIVED",
                  !.tl = [@ EXCEPT !.received = total, !.credited = TRUE]]

DepositCredited(p, d) ==
    /\ Claim(p, <<"deposit.credited", d>>)
    /\ IF row.status \in CreditableStatuses
       THEN LET r == Credited(row, d)
            IN  Run(p, Update(r, {"tl", "orch"},
                              IF r.status = "CRYPTO_CONFIRMED" THEN "advance"
                                                               ELSE "idle"))
       ELSE UNCHANGED handler
    /\ UNCHANGED <<row, payout, feePayout, events, faults>>

\* A payout reached the provider and is funded ("funded") or was paid out
\* ("paid"): the row it completes, or records as paid.
PayoutReported(r, stage) ==
    [r EXCEPT !.status = "COMPLETED",
              !.tl.paid = @ \/ stage = "paid",
              !.orch.wstatus = IF stage = "paid" THEN "successful" ELSE "funded"]

CompletableStatuses == {"FIAT_PENDING", "FIAT_INITIATED", "CRYPTO_CONFIRMED"}

\* The rows completeFiatOfframpFromWithdrawal goes on with.
AcceptsCompletion(r, stage) ==
    \/ r.status = "COMPLETED" /\ stage = "paid" /\ ~r.tl.paid
    \/ r.status \in CompletableStatuses
    \/ r.status \in {"FAILED", "FIAT_FAILED"} /\ r.orch.manual

\* A row that was COMPLETED before is not completed, and its fee not queued, again.
CompleteFromWithdrawal(p, kind, n, stage) ==
    /\ Claim(p, <<kind, n>>)
    /\ IF Matches(row, n) /\ AcceptsCompletion(row, stage)
       THEN Run(p, Update(PayoutReported(row, stage), {"tl", "orch"},
                          IF row.status = "COMPLETED" THEN "idle" ELSE "fee"))
       ELSE UNCHANGED handler
    /\ UNCHANGED <<row, payout, feePayout, events, faults>>

WithdrawalFunded(p, n) ==
    CompleteFromWithdrawal(p, "withdrawal.funded", n, "funded")

WithdrawalSuccessful(p, n) ==
    CompleteFromWithdrawal(p, "withdrawal.successful", n, "paid")

\* (Mutant of FailedAfterFunding: the failure is only put on the timeline.)
FailedAfterFundingTimelineOnly(r) == Update(r, {"tl"}, "idle")

\* withdrawal.failed of a completed offramp is put on record only when the
\* record says funded; otherwise the handler tries to fail the row.
FailedAfterFunding(r) ==
    Update([r EXCEPT !.orch.wstatus = "failed_after_funding"], {"tl", "orch"}, "idle")

FailedPayout(r) ==
    Update([r EXCEPT !.status = "FAILED", !.orch.wstatus = "failed"], {"orch"}, "idle")

WithdrawalFailed(p, n) ==
    /\ Claim(p, <<"withdrawal.failed", n>>)
    /\ CASE Matches(row, n) /\ row.status = "COMPLETED" /\ row.orch.wstatus = "funded"
              -> Run(p, FailedAfterFunding(row))
         [] Matches(row, n) /\ row.status \in CompletableStatuses
              -> Run(p, FailedPayout(row))
         [] OTHER -> UNCHANGED handler
    /\ UNCHANGED <<row, payout, feePayout, events, faults>>

ProvisionableStatuses == {"AWAITING_CRYPTO", "CRYPTO_PENDING"}

\* provisioned_account.active resets the status to AWAITING_CRYPTO, kyc_pending
\* stores the status it read, failed tries to fail the row.
ProvisionedStatus(kind, s) ==
    CASE kind = "provisioned_account.active" -> "AWAITING_CRYPTO"
      [] kind = "provisioned_account.kyc_pending" -> s
      [] kind = "provisioned_account.failed" -> "CRYPTO_FAILED"

ProvisionEvents ==
    {"provisioned_account.active", "provisioned_account.kyc_pending",
     "provisioned_account.failed"}

AccountProvisioned(p, kind) ==
    /\ Claim(p, <<kind, None>>)
    /\ IF row.status \in ProvisionableStatuses
       THEN Run(p, Update([row EXCEPT !.status = ProvisionedStatus(kind, @)],
                          {"orch"}, "idle"))
       ELSE UNCHANGED handler
    /\ UNCHANGED <<row, payout, feePayout, events, faults>>
-----------------------------------------------------------------------------
(* API and operator requests, up to their first await after reading. *)

\* Lazy expiry on GET or LIST, once the deposit window is over.
Expire(p) ==
    /\ "expire" \in Jobs
    /\ row.status = "AWAITING_CRYPTO"
    /\ Run(p, Update([row EXCEPT !.status = "EXPIRED"], {}, "idle"))
    /\ UNCHANGED <<row, payout, feePayout, events, claimed, faults>>

\* (Mutant of Cancel: refused only once the offramp is completed.)
CancelUnlessCompleted(p) ==
    /\ "cancel" \in Jobs
    /\ row.status \notin {"COMPLETED", "CANCELLED"}
    /\ Run(p, Update([row EXCEPT !.status = "CANCELLED", !.refund = TRUE],
                     {"tl", "refund"}, "idle"))
    /\ UNCHANGED <<row, payout, feePayout, events, claimed, faults>>

Cancel(p) ==
    /\ "cancel" \in Jobs
    /\ row.status \in {"CREATED", "AWAITING_CRYPTO"}
    /\ Run(p, Update([row EXCEPT !.status = "CANCELLED", !.refund = TRUE],
                     {"tl", "refund"}, "idle"))
    /\ UNCHANGED <<row, payout, feePayout, events, claimed, faults>>

\* POST retry-fiat-payout, and the operator's retry of an unattached offramp.
RetryPayout(p) ==
    /\ "retry" \in Jobs
    /\ AttachedWithdrawal(row) = None
    /\ ~row.tl.paid
    /\ row.status = "CRYPTO_CONFIRMED"
    /\ Run(p, [Idle EXCEPT !.pc = "advance"])
    /\ UNCHANGED <<row, payout, feePayout, events, claimed, faults>>

\* The operator's retry of an offramp that has a payout: ask the LP for it.
AdminRetry(p) ==
    /\ "reissue" \in Jobs
    /\ AttachedWithdrawal(row) \in 1..(MaxPayout - 1)
    /\ Run(p, [Idle EXCEPT !.pc = "lp_state", !.wd = AttachedWithdrawal(row)])
    /\ UNCHANGED <<row, payout, feePayout, events, claimed, faults>>

\* The operator's mark passes all of the providerRefs it read.
Mark(p, r, cols, force, then) ==
    Run(p, [Update(r, cols, then) EXCEPT !.new.orch.held = r.orch.held,
                                         !.force = force])

MarkSuccess(p) ==
    /\ "mark" \in Jobs
    /\ Mark(p, [row EXCEPT !.status = "COMPLETED", !.tl.paid = TRUE,
                           !.orch.wstatus = "successful", !.orch.manual = TRUE],
            {"tl", "orch"}, FALSE, "fee")
    /\ UNCHANGED <<row, payout, feePayout, events, claimed, faults>>

MarkFailed(p) ==
    /\ "mark" \in Jobs
    /\ Mark(p, [row EXCEPT !.status = "FAILED", !.orch.wstatus = "failed",
                           !.orch.manual = TRUE],
            {"orch"}, TRUE, "idle")
    /\ UNCHANGED <<row, payout, feePayout, events, claimed, faults>>
-----------------------------------------------------------------------------
(* updateOfframpStatus: read the row, hold back an automatic failure, write. *)

\* providerRefs is merged: what the caller passes over what was just read.
Merged(h, r) ==
    IF "orch" \in h.sets THEN [h EXCEPT !.new.orch.held = @ \/ r.orch.held]
                         ELSE [h EXCEPT !.new.orch = r.orch]

\* A held update keeps the status just read and puts the refusal on record.
Held(h, r) ==
    [Merged(h, r) EXCEPT !.new.status = r.status,
                         !.new.orch.held = TRUE,
                         !.sets = @ \union {"orch"}]

\* The update of h, once r has been read again.
Decided(h, r) ==
    IF ~h.force /\ BlocksTransition(r, h.new.status) THEN Held(h, r)
    ELSE IF "orch" \in h.sets THEN Merged(h, r)
    ELSE h

UpdateRead(p) ==
    LET h == handler[p]
    IN  /\ h.pc = "update"
        /\ Goto(p, [Decided(h, row) EXCEPT !.pc = "write"])
        /\ UNCHANGED <<row, payout, feePayout, events, claimed, faults>>

\* The row as the update of h leaves it.
Stored(r, h) ==
    [status |-> h.new.status,
     tl |-> IF "tl" \in h.sets THEN h.new.tl ELSE r.tl,
     orch |-> IF "orch" \in h.sets THEN h.new.orch ELSE r.orch,
     refund |-> IF "refund" \in h.sets THEN h.new.refund ELSE r.refund,
     fee |-> IF "fee" \in h.sets THEN h.new.fee ELSE r.fee]

UpdateWrite(p) ==
    LET h == handler[p]
    IN  /\ h.pc = "write"
        /\ row' = Stored(row, h)
        /\ Goto(p, [Idle EXCEPT !.pc = h.then])
        /\ UNCHANGED <<payout, feePayout, events, claimed, faults>>
-----------------------------------------------------------------------------
(* advanceOfframpIfDepositReady: read the row, ask the LP for the payout. *)

AdvanceRead(p) ==
    /\ handler[p].pc = "advance"
    /\ IF row.status = "CRYPTO_CONFIRMED" /\ ~row.tl.paid /\ row.tl.wd = None
       THEN Goto(p, [Idle EXCEPT !.pc = "payout", !.new = row])
       ELSE Goto(p, Idle)
    /\ UNCHANGED <<row, payout, feePayout, events, claimed, faults>>

\* (Mutants of PayoutAccepted: a fresh idempotency key for every call; the
\* payout is not recorded in providerRefs.)
PayoutAcceptedFreshKey(p) ==
    LET h == handler[p]
        n == Cardinality({m \in Payouts : payout[m] # "none"}) + 1
    IN  /\ h.pc = "payout"
        /\ n \in Payouts
        /\ payout' = [payout EXCEPT ![n] = "pending"]
        /\ Goto(p, Update([h.new EXCEPT !.status = "FIAT_PENDING", !.tl.wd = n,
                                        !.orch.wd = n, !.orch.wstatus = "pending"],
                          {"tl", "orch"}, "idle"))
        /\ UNCHANGED <<row, feePayout, events, claimed, faults>>

PayoutAcceptedTimelineOnly(p) ==
    LET h == handler[p]
    IN  /\ h.pc = "payout"
        /\ payout' = [payout EXCEPT ![1] = IF @ = "none" THEN "pending" ELSE @]
        /\ Goto(p, Update([h.new EXCEPT !.status = "FIAT_PENDING", !.tl.wd = 1],
                          {"tl"}, "idle"))
        /\ UNCHANGED <<row, feePayout, events, claimed, faults>>

\* The LP accepts: the same payout for the same idempotency key.
PayoutAccepted(p) ==
    LET h == handler[p]
    IN  /\ h.pc = "payout"
        /\ payout' = [payout EXCEPT ![1] = IF @ = "none" THEN "pending" ELSE @]
        /\ Goto(p, Update([h.new EXCEPT !.status = "FIAT_PENDING", !.tl.wd = 1,
                                        !.orch.wd = 1, !.orch.wstatus = "pending"],
                          {"tl", "orch"}, "idle"))
        /\ UNCHANGED <<row, feePayout, events, claimed, faults>>

\* The LP refuses: the error is stored on the row, which stays as read.
PayoutRefused(p) ==
    /\ handler[p].pc = "payout"
    /\ Goto(p, Update(handler[p].new, {"tl", "orch"}, "idle"))
    /\ UNCHANGED <<row, payout, feePayout, events, claimed, faults>>

\* The request cannot be built (no account, no amount): nothing is stored.
PayoutNotBuilt(p) ==
    /\ handler[p].pc = "payout"
    /\ Goto(p, Idle)
    /\ UNCHANGED <<row, payout, feePayout, events, claimed, faults>>

\* The LP accepts, but its answer arrives as an error or without an id, which
\* the code takes for a refusal.
PayoutAnswerLost(p) ==
    /\ faults < MaxFaults
    /\ handler[p].pc = "payout"
    /\ payout' = [payout EXCEPT ![1] = IF @ = "none" THEN "pending" ELSE @]
    /\ Goto(p, Update(handler[p].new, {"tl", "orch"}, "idle"))
    /\ faults' = faults + 1
    /\ UNCHANGED <<row, feePayout, events, claimed>>
-----------------------------------------------------------------------------
(* Reissue of a failed payout by the operator. *)

\* The lookup may fail, which tells the operator nothing ("none").
ReadLPState(p) ==
    LET h == handler[p]
    IN  /\ h.pc = "lp_state"
        /\ \E answer \in {payout[h.wd], "none"} :
              IF Reissueable(answer)
              THEN Goto(p, [h EXCEPT !.pc = "reissue_read"])
              ELSE Goto(p, Idle)
        /\ UNCHANGED <<row, payout, feePayout, events, claimed, faults>>

\* The row must still be attached to the payout that is replaced.
ReissueRead(p) ==
    LET h == handler[p]
    IN  /\ h.pc = "reissue_read"
        /\ IF AttachedWithdrawal(row) = h.wd
           THEN Goto(p, [h EXCEPT !.pc = "reissue", !.new = row])
           ELSE Goto(p, Idle)
        /\ UNCHANGED <<row, payout, feePayout, events, claimed, faults>>

\* (Mutant of ReissueAccepted: providerRefs keeps naming the old payout.)
ReissueAcceptedKeepsRefs(p) ==
    LET h == handler[p]
        next == h.wd + 1
    IN  /\ h.pc = "reissue"
        /\ payout' = [payout EXCEPT ![next] = IF @ = "none" THEN "pending" ELSE @]
        /\ Goto(p, Update([h.new EXCEPT !.status = "FIAT_PENDING",
                                        !.tl.wd = next, !.tl.paid = FALSE],
                          {"tl", "orch"}, "idle"))
        /\ UNCHANGED <<row, feePayout, events, claimed, faults>>

ReissueAccepted(p) ==
    LET h == handler[p]
        next == h.wd + 1
    IN  /\ h.pc = "reissue"
        /\ payout' = [payout EXCEPT ![next] = IF @ = "none" THEN "pending" ELSE @]
        /\ Goto(p, Update([h.new EXCEPT !.status = "FIAT_PENDING",
                                        !.tl.wd = next, !.tl.paid = FALSE,
                                        !.orch.wd = next,
                                        !.orch.wstatus = "pending",
                                        !.orch.manual = FALSE],
                          {"tl", "orch"}, "idle"))
        /\ UNCHANGED <<row, feePayout, events, claimed, faults>>

ReissueRefused(p) ==
    /\ handler[p].pc = "reissue"
    /\ Goto(p, Idle)
    /\ UNCHANGED <<row, payout, feePayout, events, claimed, faults>>

-----------------------------------------------------------------------------
(* The platform fee: queued when the offramp completes, paid to the platform *)
(* once an operator approves it.  saveFees is updateOfframpStatus with the   *)
(* status COMPLETED.                                                         *)

\* (Mutant of FeeQueue: a fee under way is queued again.)
FeeQueueAgain(p) ==
    /\ handler[p].pc = "fee"
    /\ IF row.status = "COMPLETED"
       THEN \E s \in FeeChecks :
               Goto(p, Update([row EXCEPT !.fee = s], {"fee"}, "idle"))
       ELSE Goto(p, Idle)
    /\ UNCHANGED <<row, payout, feePayout, events, claimed, faults>>

\* The fee is queued for approval, or skipped for good if it is not payable.
FeeQueue(p) ==
    /\ handler[p].pc = "fee"
    /\ IF row.status = "COMPLETED" /\ row.fee = "none"
       THEN \E s \in FeeChecks :
               Goto(p, Update([row EXCEPT !.fee = s], {"fee"}, "idle"))
       ELSE Goto(p, Idle)
    /\ UNCHANGED <<row, payout, feePayout, events, claimed, faults>>

ApproveFee(p) ==
    /\ "fee" \in Jobs
    /\ row.status = "COMPLETED"
    /\ row.fee \in {"pending", "failed"}
    /\ Run(p, [Idle EXCEPT !.pc = "fee_pay", !.new = row])
    /\ UNCHANGED <<row, payout, feePayout, events, claimed, faults>>

\* What is stored for a fee withdrawal in the given state; no withdrawal counts
\* as a failure.
FeeStatus(state) ==
    CASE state = "pending" -> "processing"
      [] state = "successful" -> "completed"
      [] OTHER -> "failed"

FeeSkipped(p) ==
    /\ handler[p].pc = "fee_pay"
    /\ Goto(p, Update([handler[p].new EXCEPT !.fee = "skipped"], {"fee"}, "idle"))
    /\ UNCHANGED <<row, payout, feePayout, events, claimed, faults>>

\* The LP is asked for the withdrawal, always with the same idempotency key, and
\* accepts or refuses; the answer is kept for the case that the lookup fails.
FeeCreate(p) ==
    LET h == handler[p]
    IN  /\ h.pc = "fee_pay"
        /\ feePayout' \in {feePayout, IF feePayout = "none" THEN "pending" ELSE feePayout}
        /\ Goto(p, [h EXCEPT !.pc = "fee_lookup", !.new.fee = FeeStatus(feePayout')])
        /\ UNCHANGED <<row, payout, events, claimed, faults>>

\* The LP accepts, but its answer is lost.
FeeAnswerLost(p) ==
    LET h == handler[p]
    IN  /\ faults < MaxFaults
        /\ h.pc = "fee_pay"
        /\ feePayout' = IF feePayout = "none" THEN "pending" ELSE feePayout
        /\ Goto(p, [h EXCEPT !.pc = "fee_lookup", !.new.fee = "failed"])
        /\ faults' = faults + 1
        /\ UNCHANGED <<row, payout, events, claimed>>

\* The withdrawal is looked up by its client reference; if that fails, the
\* answer to its creation stands.
FeeLookup(p) ==
    LET h == handler[p]
    IN  /\ h.pc = "fee_lookup"
        /\ \E s \in {h.new.fee} \union {FeeStatus(x) : x \in {feePayout} \ {"none"}} :
              Goto(p, Update([h.new EXCEPT !.fee = s], {"fee"}, "idle"))
        /\ UNCHANGED <<row, payout, feePayout, events, claimed, faults>>

\* The outcome of the fee's withdrawal is stored whatever the row's status.
FeeReported(p, kind) ==
    /\ Claim(p, <<kind, None>>)
    /\ IF row.fee \in {"processing", "failed"}
       THEN LET s == IF kind = "fee.successful" THEN "completed" ELSE "failed"
            IN  Run(p, Update([row EXCEPT !.status = "COMPLETED", !.fee = s],
                              {"fee"}, "idle"))
       ELSE UNCHANGED handler
    /\ UNCHANGED <<row, payout, feePayout, events, faults>>
-----------------------------------------------------------------------------
\* A request dies half-way: a process restart, or an awaited call that throws.
\* The claim on its webhook event stays.
Abort(p) ==
    /\ faults < MaxFaults
    /\ handler[p].pc # "idle"
    /\ Goto(p, Idle)
    /\ faults' = faults + 1
    /\ UNCHANGED <<row, payout, feePayout, events, claimed>>
-----------------------------------------------------------------------------
(* The liquidity provider. *)

Emit(e) == events' = events \union {e}

LPCredits(d) ==
    /\ <<"deposit.credited", d>> \notin events
    /\ Emit(<<"deposit.credited", d>>)
    /\ UNCHANGED <<row, handler, payout, feePayout, claimed, faults>>

LPProvisions(kind) ==
    /\ kind \in Jobs
    /\ <<kind, None>> \notin events
    /\ Emit(<<kind, None>>)
    /\ UNCHANGED <<row, handler, payout, feePayout, claimed, faults>>

LPFunds(n) ==
    /\ payout[n] = "pending"
    /\ payout' = [payout EXCEPT ![n] = "funded"]
    /\ Emit(<<"withdrawal.funded", n>>)
    /\ UNCHANGED <<row, handler, feePayout, claimed, faults>>

LPPays(n) ==
    /\ payout[n] \in {"pending", "funded"}
    /\ payout' = [payout EXCEPT ![n] = "successful"]
    /\ Emit(<<"withdrawal.successful", n>>)
    /\ UNCHANGED <<row, handler, feePayout, claimed, faults>>

LPFails(n) ==
    /\ payout[n] \in {"pending", "funded"}
    /\ payout' = [payout EXCEPT ![n] = "failed"]
    /\ Emit(<<"withdrawal.failed", n>>)
    /\ UNCHANGED <<row, handler, feePayout, claimed, faults>>

LPSettlesFee(state, kind) ==
    /\ feePayout = "pending"
    /\ feePayout' = state
    /\ Emit(<<kind, None>>)
    /\ UNCHANGED <<row, handler, payout, claimed, faults>>
-----------------------------------------------------------------------------
Webhook(p) ==
    \/ \E d \in Deposits : DepositCredited(p, d)
    \/ \E kind \in {"fee.successful", "fee.failed"} : FeeReported(p, kind)
    \/ \E kind \in ProvisionEvents : AccountProvisioned(p, kind)
    \/ \E n \in Payouts :
          WithdrawalFunded(p, n) \/ WithdrawalSuccessful(p, n) \/ WithdrawalFailed(p, n)

Request(p) ==
    Expire(p) \/ Cancel(p) \/ RetryPayout(p) \/ AdminRetry(p) \/ MarkSuccess(p)
       \/ MarkFailed(p) \/ ApproveFee(p)

\* A step of a request already in flight.
Progress(p) ==
    \/ UpdateRead(p) \/ UpdateWrite(p)
    \/ AdvanceRead(p) \/ PayoutAccepted(p) \/ PayoutRefused(p) \/ PayoutNotBuilt(p)
    \/ ReadLPState(p) \/ ReissueRead(p) \/ ReissueAccepted(p) \/ ReissueRefused(p)
    \/ FeeQueue(p) \/ FeeSkipped(p) \/ FeeCreate(p) \/ FeeLookup(p)

Fault(p) == Abort(p) \/ PayoutAnswerLost(p) \/ FeeAnswerLost(p)

LP ==
    \/ \E d \in Deposits : LPCredits(d)
    \/ \E kind \in ProvisionEvents : LPProvisions(kind)
    \/ \E n \in Payouts : LPFunds(n) \/ LPPays(n) \/ LPFails(n)
    \/ LPSettlesFee("successful", "fee.successful")
    \/ LPSettlesFee("failed", "fee.failed")

Next ==
    \/ \E p \in Handlers : Webhook(p) \/ Request(p) \/ Progress(p) \/ Fault(p)
    \/ LP

Spec == Init /\ [][Next]_vars

\* A request in flight keeps running, and the LP delivers an event again until
\* it is answered.  Nothing makes a customer, an operator or the LP act.
Fairness ==
    /\ \A p \in Handlers : WF_vars(Progress(p))
    /\ SF_vars(\E p \in Handlers : Webhook(p))

FairSpec == Spec /\ Fairness
-----------------------------------------------------------------------------
(* Properties. *)

\* Every variable keeps its type.
TypeOK ==
    /\ row \in Row
    /\ handler \in [Handlers -> Handler]
    /\ payout \in [Payouts -> PayoutState]
    /\ feePayout \in FeePayoutState
    /\ events \subseteq Event
    /\ claimed \subseteq events
    /\ faults \in 0..MaxFaults

\* The deposits whose credit has been taken from the LP, each once.
Counted == {d \in Deposits : <<"deposit.credited", d>> \in claimed}

Contract == INSTANCE PayoutContract WITH counted <- Counted

\* However handlers interleave and die, the offramp behaves, as far as money
\* is concerned, like PayoutContract: the handoff needs a complete deposit and
\* a payout is replaced only after the LP failed it (advanceOfframpPayout.ts,
\* reissueOfframpFiatPayout.ts).
ImplementsContract == Contract!Spec

\* The customer is never paid twice, although retry, reissue and the deposit
\* webhook may all ask the LP for a payout at the same time.
OneLivePayout == Contract!OneLivePayout

\* No fiat payout is minted before the credited deposits cover the quote, even
\* when the LP delivers one credit several times.
PayoutIsFunded == Contract!PayoutIsFunded

AllIdle == \A p \in Handlers : handler[p] = Idle

\* handler p took the step
Steps(p) == handler'[p] # handler[p]

\* "Only allowed before crypto is received" (cancelOfframp.ts): an offramp with
\* a refund pending has no payout at the LP, so it is not settled twice.
RefundOrPayout == row.refund => \A n \in Payouts : payout[n] = "none"

\* The two places that name the payout agree, although webhooks read the one
\* first (expectedFiatWithdrawalId) and retry the other (offrampFiatWithdrawalId).
PointersAgree == row.tl.wd = row.orch.wd

\* "record the failure so ops can follow it up with the provider"
\* (processWebhookEvent.ts): once the failure of the payout of a completed
\* offramp has been taken from the LP, the row says so, by its withdrawal
\* status or by a failure held back.  (Not if the fee's withdrawal has been
\* reported, which completes the offramp whatever has become of its payout:
\* settleOfframpPlatformFee.)
FailureIsOnRecord ==
    AllIdle /\ faults = 0 /\ row.status = "COMPLETED" /\ row.orch.wd # None
       /\ <<"withdrawal.failed", row.orch.wd>> \in claimed
       /\ {<<"fee.successful", None>>, <<"fee.failed", None>>} \intersect claimed = {}
        => \/ row.orch.manual
           \/ row.orch.wstatus \in {"failed", "failed_after_funding"}
           \/ row.orch.held

\* Once the LP's report that the platform fee was paid has been taken, the row
\* says so, whatever it had on record before and however often the offramp
\* completed (settleRampPlatformFee.ts).
FeeIsRecorded ==
    AllIdle /\ faults = 0 /\ <<"fee.successful", None>> \in claimed
        => row.fee = "completed"

\* "Once we hold the customer's money, a ramp must never fail or expire on its
\* own" (fundsReceivedGuard.ts): no step but that of an operator's update, which
\* passes allowAfterFunds, takes a funded offramp to a failure.
FundedNeverFails ==
    [][row.status \in FundedStatuses /\ row'.status \in AutoFailStatuses
          => \E p \in Handlers : handler[p].force]_vars

\* "Credit wins over deposit-window expiry" (processWebhookEvent.ts): if nothing
\* is lost, an offramp whose deposit has been credited in full does not
\* stay expired or waiting for crypto.
CreditWins ==
    [](faults = 0) =>
        (Contract!Funded(Counted)
           ~> row.status \notin {"AWAITING_CRYPTO", "CRYPTO_RECEIVED", "EXPIRED"})

\* If nothing is lost, an offramp whose payout the LP paid out becomes
\* COMPLETED, unless an operator has set its outcome.
PaidIsCompleted ==
    [](faults = 0) =>
        ((\E n \in Payouts : payout[n] = "successful")
           ~> (row.status = "COMPLETED" \/ row.orch.manual))
-----------------------------------------------------------------------------
(* The inductive invariant behind OneLivePayout and PayoutIsFunded. *)

\* No copy of the received amount, on the row or in a handler, exceeds what
\* the dedupe ledger has let through.
Accounted ==
    /\ row.tl.received <= Total[Counted]
    /\ \A p \in Handlers : handler[p].new.tl.received <= Total[Counted]

\* CRYPTO_CONFIRMED, wherever it is copied, means that the deposit is complete.
ConfirmedIsFunded ==
    /\ row.status = "CRYPTO_CONFIRMED" => Contract!Funded(Counted)
    /\ \A p \in Handlers :
          /\ handler[p].new.status = "CRYPTO_CONFIRMED" => Contract!Funded(Counted)
          /\ handler[p].pc = "payout" => handler[p].new.status = "CRYPTO_CONFIRMED"

\* A handler that is about to replace a payout has seen it failed.
ReissueIsSafe ==
    \A p \in Handlers :
        /\ handler[p].pc \in {"lp_state", "reissue_read", "reissue"}
              => handler[p].wd \in 1..(MaxPayout - 1)
        /\ handler[p].pc \in {"reissue_read", "reissue"}
              => payout[handler[p].wd] = "failed"

IInv ==
    /\ TypeOK
    /\ Accounted
    /\ ConfirmedIsFunded
    /\ ReissueIsSafe
    /\ OneLivePayout
    /\ PayoutIsFunded
-----------------------------------------------------------------------------
(* What holds besides while requests do not overlap (one handler): the       *)
(* inductive invariant behind PointersAgree and FeeIsRecorded.               *)

\* The row as it will be once the update in flight is stored.
Coming(p) ==
    LET h == handler[p]
    IN  CASE h.pc = "update" -> Stored(row, Decided(h, row))
          [] h.pc = "write" -> Stored(row, h)
          [] OTHER -> row

\* What a request has read is still what the row says.
FreshCopy(p) ==
    LET h == handler[p]
    IN  /\ h.pc \in {"payout", "reissue", "fee_pay"} => h.new = row
        /\ h.pc = "fee_lookup" => h.new = [row EXCEPT !.fee = h.new.fee]
        /\ h.pc = "payout" => row.status = "CRYPTO_CONFIRMED" /\ row.tl.wd = None
        /\ h.pc = "reissue" => AttachedWithdrawal(row) = h.wd
        /\ h.pc \in {"fee_pay", "fee_lookup"}
              => row.status = "COMPLETED" /\ row.fee \in {"pending", "failed"}

\* The LP reports what became of a withdrawal.
ReportsAreTrue ==
    /\ \A n \in Payouts :
          /\ <<"withdrawal.funded", n>> \in events => payout[n] \notin {"none", "pending"}
          /\ <<"withdrawal.successful", n>> \in events => payout[n] = "successful"
          /\ <<"withdrawal.failed", n>> \in events => payout[n] = "failed"
    /\ <<"fee.successful", None>> \in events => feePayout = "successful"
    /\ <<"fee.failed", None>> \in events => feePayout = "failed"

PointersInv(r) == r.tl.wd = r.orch.wd

\* If nothing is lost, a fee that is on its way is on record as such.
FeeInv(p) ==
    faults = 0 =>
        /\ feePayout \in {"pending", "successful"} =>
              (IF handler[p].pc = "fee_lookup" THEN handler[p].new.fee ELSE Coming(p).fee)
                 \in {"processing", "completed"}
        /\ <<"fee.successful", None>> \in claimed => Coming(p).fee = "completed"

RowInv(p) ==
    /\ FreshCopy(p)
    /\ \A r \in {row, Coming(p)} : PointersInv(r)
    /\ FeeInv(p)
=============================================================================
