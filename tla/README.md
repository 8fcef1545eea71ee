# BloxFi ramps in TLA+

BloxFi lets a partner's customers turn crypto into fiat (an *offramp*) and fiat
into crypto (an *onramp*). It keeps the orders; a liquidity provider, Palremit
(the *LP* below), receives the deposits and sends the payouts, and reports what
it did by webhook. This directory holds TLA+ modules of that program, the TLC
configurations that check them, and proofs for TLAPS.

Paths below are relative to the repository's `src/`.

## 1. The system and its hard parts

Everything runs in stateless Node processes over one PostgreSQL database and
Redis. Nothing locks a ramp: a webhook handler, an API request, an operator's
request and the lazy expiry may all be between a read and a write of the same
row, in one process or in several. There is no job queue and no outbox: work
that was interrupted is resumed only if somebody asks again. What a process
keeps in memory (the pricing rules) and what the dashboard page keeps in its
script are copies, refreshed by requests that overtake each other.

| Part | State it keeps | Operations | Hard because |
| --- | --- | --- | --- |
| Offramp payout (`core/offramps`, `core/ramps`, `db/repositories/offramp.repo.ts`) | the offramp row: `status`, `timeline`, `providerRefs`, `fees`, `refundDetails` | create, cancel, lazy expiry, credit, hand off to payout, retry, reissue, complete, fail | every operation is read, decide, `await`, read again, write; two columns name the payout; JSON columns are replaced whole |
| Platform fee (`core/ramps/settleRampPlatformFee.ts`) | `fees.platformFee.settlement` of the row, one LP withdrawal | queue, approve, look up, report | saving the fee writes the status `COMPLETED` of an offramp |
| Inbound webhooks (`api/v1/webhooks`, `core/webhooks`) | the dedupe ledger, the inbound log | claim, process | an event is claimed before it is processed; LP events repeat, overtake each other and may be lost half-way |
| Onramp (`core/onramps`, `onramp.repo.ts`) | the onramp row | create, confirm fiat, send crypto, complete, expire | webhooks, operators and every GET advance it concurrently |
| Fiat to fiat (`core/fiatToFiat`) | an onramp linked to the offramp it funds | link, claim the offramp, settle internally | two rows are moved by two statements |
| Ramp creation (`api/v1/*/controllers.ts`, `rampQuote.repo.ts`, `middleware/idempotency.ts`) | Redis request ids, locked quotes, rows | quote, create | checks and consumption are separated by awaits |
| Partner webhooks (`core/partnerWebhooks`) | the outbound log | emit, three attempts, finalize | fire and forget; a crash leaves events pending |
| Accounts (`core/accounts`, `account.repo.ts`) | account rows, the LP's issuance | create, issue, poll, report, update, delete | one requestId namespace; a poll and a report both write what they saw last; KYB, corridor and row are read at different times |
| Users and KYB (`core/users`, `core/kyb`, `user.repo.ts`) | user rows, rail statuses, submissions | sign up, draft, submit, decide | a submission and a decision each read, write, then write again per rail |
| Settings and pricing (`core/quotes`, `core/admin`) | setting rows, the audit trail, the rules each instance holds in memory | save, remove, reload, quote | four awaits per edit; loads overlap; a quote reads the rules twice |
| Dashboard, server side (`core/admin/dashboard.ts`) | none of its own; the audit trail | mark, retry, reissue, approve a fee | decisions taken on a row and a provider state read earlier |
| Held payouts (`core/admin/heldPayouts.ts`) | the hold is the orchestrator's, its record ours | look, price, release with a raised cap | the price moves; the answer may be lost; a deterministic key makes a repeat a replay |
| Dashboard page (`api/admin/page.ts`) | what the dialogs show, what the script remembers, what is in flight | open, press, answer | every answer works on the dialog that is open by then |
| Lists (`*.repo.ts`, the page) | none but the cursor | page by page, two tables merged | rows come, change and go between two pages |

What makes each part correct: a customer is paid at most once per deposit and
never before the deposit is complete; money we hold is never failed or expired
by the code; a cancelled order is refunded or paid but not both; what the
partner was told (`COMPLETED`) is not taken back silently; failures of the LP
stay on record; a fee is settled once; an event lost half-way costs
progress but never money; an account is shown as ready only with
instructions the LP has given for it; a destination on record is one a payout can use; an edit of a
price stays and a quote keeps its margin; an operator's press does what the
operator saw; a walk of a list misses nothing. `PROJECT.json` lists every part
with what is modelled of it, and under "hazards" where in the code each of
these is at risk.

## 2. The modules

| Module | What it is |
| --- | --- |
| `Offramp` | one offramp, every request that can touch its row, the dedupe ledger, the LP |
| `PayoutContract` | what the offramp promises about money, without rows and handlers |
| `Onramp` | one onramp, every request that can touch its row, the ledger, the LP, and the offramp it may fund |
| `RampCreation` | requests that create onramps and offramps, from the Redis key to the row |
| `PartnerWebhooks` | the events told to the partner; extended by the next three |
| `Accounts` | onramp accounts: creation, the LP's issuance, its reports, deletion |
| `Kyb` | sign-up, the KYB draft and submission, the provider's decisions |
| `PayoutAccounts` | offramp accounts: the destination, the corridor's requirements, the KYB gate |
| `Settings` | what operators set, its audit trail, and the rules each instance holds in memory |
| `QuoteAmounts` | the arithmetic of a quote, as operators |
| `Pricing` | quotes for offramps and onramps while the rules are reloaded; extends both |
| `PayoutDesk` | the page's transaction dialog, held payouts, fees, attestations, with the server and the orchestrator behind them |
| `BusinessDesk` | the page's businesses tab and its dialog |
| `SettingsDesk` | the page's settings tabs |
| `Listings` | walking a list by its cursor |
| `Console` | the page: the four modules above in one specification |
| `MC...` | constants and symmetry for TLC |
| `OfframpProofs`, `OnrampProofs`, `RampCreationProofs`, `AccountsProofs`, `PayoutAccountsProofs`, `KybProofs`, `PricingProofs`, `ConsoleProofs` | theorems, proved by TLAPS |

### Offramp

State. `row` is the database row reduced to what decisions are taken on:
`status`; the timeline (`tl`: amount received, whether anything was credited,
the payout handed off, the paid mark); providerRefs (`orch`: the payout the row
is attached to, its last known state, the operator's mark, and `held`, the
`heldFailure` note); a pending refund; the fee's settlement. `handler[p]` is a
request in flight: where it stands and the copy of the row it works from.
`payout` and `feePayout` are the LP's withdrawals, `events` what the LP has
emitted, `claimed` the dedupe ledger. Payout 1 is the withdrawal minted under
`offramp-fiat-wd:<txnRef>`, payout n + 1 the one minted by reissuing payout n;
asking twice under one key returns the same withdrawal, which is the LP's
documented idempotency and the only thing that stops two concurrent payouts.

Steps. One action per stretch of code between two awaits:

| Code | Actions |
| --- | --- |
| claim of the event and the handler up to its update | `DepositCredited`, `WithdrawalFunded`, `WithdrawalSuccessful`, `WithdrawalFailed`, `AccountProvisioned`, `FeeReported` |
| `updateOfframpStatus`: read, funds guard, merge; then write | `UpdateRead`, `UpdateWrite` |
| `advanceOfframpIfDepositReady`: read; ask the LP | `AdvanceRead`, `PayoutAccepted`, `PayoutRefused`, `PayoutNotBuilt`, `PayoutAnswerLost` |
| retry by the partner, by an operator; reissue | `RetryPayout`, `AdminRetry`, `ReadLPState`, `ReissueRead`, `ReissueAccepted`, `ReissueRefused` |
| cancel, lazy expiry, the operator's marks | `Cancel`, `Expire`, `MarkSuccess`, `MarkFailed` |
| fee settlement | `FeeQueue`, `ApproveFee`, `FeeSkipped`, `FeeCreate`, `FeeAnswerLost`, `FeeLookup` |
| the process dies or an await throws | `Abort` |
| the provider | `LPCredits`, `LPProvisions`, `LPFunds`, `LPPays`, `LPFails`, `LPSettlesFee` |

A column that an update does not pass keeps its value in the row; a column it
passes is replaced by the handler's copy, however old. `providerRefs` is merged
with what `updateOfframpStatus` has just read, and since every caller passes a
whole `palremitOrchestrator`, only `heldFailure` survives the merge.

Abstractions to know of:

- The claim of an event and the handler's first read of the row are one step.
  Between them the code does nothing to the row, so the merge only removes
  executions in which the handler reads later than it claims, and those are the
  executions in which the event is claimed later.
- Each LP event has one stable id, so its redelivery is recognised. The ledger
  relies on this too.
- An LP payout that was refunded is "failed" here: the code treats both alike.
- Time is absent: `Expire` may happen whenever the row still awaits crypto, so
  before and after the deposit window are both explored.
- Amounts are cents in `Nat`; the code rounds to cents in the same comparison.

### PayoutContract

Deposits are credited once; the first payout needs the credited deposits to
cover the quote up to the tolerance; payout n + 1 needs payout n to have failed.
`Offramp` implements it with `counted` mapped to the deposits in the dedupe
ledger and `payout` to itself.

### Onramp

State. `row` holds what decisions about an onramp are taken on: `status`,
whether the receipt names the LP's withdrawal (`wid`), the withdrawal's status
in providerRefs (`wstatus`) and the `heldFailure` note (`held`). `handler[p]` is
a request in flight, with the update it is about to store and the copy of the
row the payout is made from. `sent` is the LP's withdrawal of the crypto: there
is one idempotency key, so one withdrawal. `pair` is the offramp the crypto is
meant for, in a fiat-to-fiat transfer, as far as the onramp can see it: waiting,
claimed, being paid out, funded on-chain, or closed. `audit` is what operators
have decided.

| Code | Actions |
| --- | --- |
| claim of the event and the handler up to its update | `DepositCredited`, `WithdrawalSuccessful`, `WithdrawalFailed`, `AccountProvisioned`, `Reported` (`onramp.*`) |
| `updateOnrampStatus`: read, funds guard, merge; then write | `UpdateRead`, `UpdateWrite` |
| GET: advance the payout, then the lazy expiry | `Get`, `Expire` |
| the operator's marks | `MarkFiatReceived`, `MarkSuccess`, `MarkFailed` |
| `advanceOnrampIfFiatProcessed`: read; ask the LP | `AdvanceRead`, `SendAccepted`, `SendRefused`, `SendAnswerLost` |
| `trySettleFiatToFiatInternally`: look up, claim, complete, start the payout | `FindPair`, `ClaimPair`, `PayPair` |
| the process dies or an await throws | `Abort` |
| the provider, and the offramp's other life | `LPReports`, `LPSends`, `LPFails`, `PairCredited`, `PairCloses` |

Abstractions to know of:

- The check that an event names the withdrawal on the row never fails here,
  because one key gives one withdrawal.
- A destination without address or network, for which the code refuses to send,
  is left out: creation always stores both.
- The platform fee of an onramp writes the fee column alone, on which nothing
  here depends.
- An operator's decision is in `audit` when the request starts, whatever becomes
  of the update.
- `PairCloses` may happen whenever the offramp is open; a claimed offramp's own
  life is module `Offramp`.

### RampCreation

State. `stage[r]` is the awaited call request r is at, `body[r]` the ramp it asks
for (its kind, request id and quote). `keys` are the request ids held in Redis,
`consumed` and `expired` the quotes that are, `accounts` the requests for which
the LP has opened a deposit account, `stored` those whose row is in the database.

| Code | Actions |
| --- | --- |
| `idempotencyMiddleware` | `Send` (`SET NX`), `Release` (the response failed), `KeyExpires` |
| `createOnramp`, `createOfframp` of the controllers | `Lookup`, `CheckQuote` (onramp), `ConsumeQuote` (offramp), `SettleQuote` (onramp, after the insert) |
| the core functions | `Refuse` (every validation: `RefuseOfframp`, `RefuseOnramp`), `Provision` (`ProvisionWallet`, `ProvisionBankAccount`), `ReuseAccount`, `Store` |
| surroundings | `QuoteExpires`, `Throw`, `Lose` |

The order of the kinds differs, and that is the point: an offramp consumes its
quote first, by a conditional update, and may burn it; an onramp looks at its
quote first and consumes it after the insert, and may share it.

Abstractions to know of:

- A key outlives every request in flight (the TTL is a day by default; the
  longest request polls the LP for 40 seconds).
- An account is counted when the LP has opened it. An LP that opens one for an
  offramp and never sends instructions is a `Throw` at "store"; an onramp goes on
  with a static account then (`ProvisionBankAccount`), and takes a static or a
  named one to begin with in `ReuseAccount`.
- A request lives on when its client is gone; `Lose` is a process that dies, or a
  refused client that is gone before the response is out.
- A request rejected before the middleware holds a key (no header, Redis down)
  touches nothing and is left out.
- A quote is read and updated in `consumeRampQuote` in one step: its `updateMany`
  repeats every condition of the read that can have changed.
- The ramps' types, users and amounts are not in the body; whatever a validation
  looks at, its outcome is `Refuse`.

### PartnerWebhooks

State. `events` are the events in the order they were scheduled, each with
where its process is with it, the outcome on the outbound row, the attempts and
whether the partner has received it; `configured` whether URL and secret are
set. `schedulePartnerWebhook` returns at once, so scheduling is part of the
action that schedules and delivery is steps of its own.

| Code | Actions |
| --- | --- |
| `createPending`, no configuration, a post, its outcome | `Store`, `Skip`, `Post`, `Finalize` |
| the process dies | `Abandoned`, in the module's `Crash` |

Events beyond `Followed` are scheduled and then left alone: nothing reads an
event but its own delivery.

### Accounts

State. `rows` are the accounts: owner, requestId, issuance status, whether the
LP's account and the deposit details are stored, identity status. `handler[h]`
is a request in flight with what it is about to store. `lp` is the account at
the LP: what the LP calls its state, and apart from that whether it has deposit
instructions, and usable ones (`issueGraphNamedDepositAccount` goes by the
instructions, whatever the state, unless it is failed). `reports` are its
`provisioned_account.*` events not yet delivered, `answers` what was answered to
whom, `overwritten` the accounts whose readiness a stale write has taken back.

| Code | Actions |
| --- | --- |
| `createAccount`: validated, looked up, copied, inserted, the lost race, announced | `Create`, `Lookup`, `CopyDocument`, `Insert`, `Raced`, `Announce` |
| `issueGraphNamedDepositAccount` and its polls | `Provision`, `ProvisionFails`, `Poll`, `PollFails` |
| `updateAccountProviderIssuance` | `ReadBefore`, `WriteIssuance` |
| the identity import | `ImportKyc`, `StoreKyc` |
| `deleteAccount`, the report's handler | `Delete`, `Report` |
| the LP's state, its instructions; a crash; delivery | `LPMoves`, `LPInstructs`; `Crash`; `Outbox` |

`mapUsdNamedDepositCapability` is `Capability`: active without details is
pending. The polls are one step, since only the last one's answer is kept.
"Cannot delete if pending transactions" (`deleteAccount.ts:2`) is not what
happens: `hasPendingTransactions` answers false (`account.repo.ts:274`), so
`Delete` goes through whatever ramps wait for the account.

### Kyb

State. `users` by requestId (e-mail and `kybStatus`), `rails` the status per
rail, `submissions` what was stored, `claimed` the provider's events taken. An
event has a type, and any word, or none, as its status, its profile's and its
rails': `ToKybStatus` is `toKybStatus`, which knows some of them, and a rail's
word is stored as it came (`Other` stands for the words the program does not
know).

| Code | Actions |
| --- | --- |
| `createBusinessUser`: the advisory lock and the two lookups, the insert, P2002, `user.created` | `SignUp`, `LookUp`, `Insert`, `Raced`, `Greet` |
| the draft, its documents | `Draft`, `AttachDocuments` |
| `submitKybApplication`: read, status, submission, rails | `Submit`, `WriteReview`, `Record`, `StoreRail` |
| the `kyb.*` webhooks | `Decide`, `WriteDecision`, `StoreRail` |
| a crash; delivery | `Crash`; `Outbox` |

A transaction's lookups are one step because the lock is held over them; the
insert is another, since the requestId index is not under the lock.

### PayoutAccounts

State. `rows` hold the destination and the requirements it was checked against
(`providerPayout`, `requirementsSnapshot`); `kyb` and `required` are what the
user, the rail and the LP's corridor say at the moment. A destination is a
function from wire keys to values; `Normalize`, `Merge` and `Meets` are
`normalizePalremitDestination`, `mergePalremitDestination` and
`validateDestinationAgainstCorridorFields`. A key in a patch may be null or
empty, which removes it. `OldOnes` are destinations stored before they were
normalised: "stored accounts may still carry those keys"
(`normalizePalremitDestination.ts:6`), and PUTs are laid over them.

| Code | Actions |
| --- | --- |
| `createAccount`, rail offramp | `Create`, `CheckCorridor`, `CheckKyb`, `Insert` |
| `updateAccount` | `Update`, `Recheck`, `Write` |
| `deleteAccount` | `Delete` |
| surroundings | `KybChanges`, `CorridorChanges`, `Crash`, `Outbox` |

### Settings, QuoteAmounts and Pricing

State. `table` is the rows, with a count of writes; `audit` the AdminAction
rows; `editor[e]` an edit in flight; `rules[i]` what instance i prices with,
`loads[i]` its loads under way in the order of their tickets. Two variables are
history: the version in a row or a rule says how many writes made it, `acked[i]`
the newest one an instance has answered for. `quote` is the quote being made.

| Code | Actions |
| --- | --- |
| PUT and DELETE of a setting | `Save`, `Delete`, `Read`, `Find`, `Upsert`, `Remove`, `Record`, `RecordFails`, `Reload` |
| `refreshPairMarkupRules`: the timer, the query, the ticket | `Tick`, `Query`, `Apply`, `LoadFails` |
| the instance restarts | `Restart` |
| `createOfframpQuote` | `OfframpRate`, `OfframpFee`, `Answer` |
| `createOnrampQuote` | `OnrampQuote`, `Answer` |

`Settings` has two kinds of key: the pair markups in full, and the names under
which transfers are sent, which are edited alike except that a blank one removes
the row and nothing is reloaded.

Abstractions: the awaits of a quote that read nothing a reload changes are part
of the step beside them. Amounts are whole units and markups multiples of
`1/Scale`; the rounding that the code does on purpose is done. Where exact
arithmetic would decide what the code's doubles do not, the model decides both
ways: `offrampQuoteSolvency.ts:16` compares `(s * e) / e` with `s` by a strict
`>`, and in doubles the former is the greater for about one pair in twenty
(3044.035521 at 1436.3658 is one), so `InsolvencyVerdicts` leaves a tie open, and
a quote priced exactly at the provider's rate may be refused. A transfer fee is
in the coin sent. Quotes for onramps are priced in fiat per crypto; the code's
other branch, crypto per fiat, is in `QuoteAmounts` and has its theorem.

### Console: PayoutDesk, BusinessDesk, SettingsDesk, Listings

The page is one thread that never waits: an action is a click, what the server
does with a request, or the code after an await. What a dialog *shows* is kept
apart from what the script *remembers*.

| Module | State | Actions |
| --- | --- | --- |
| `PayoutDesk` | `ctx` (`detailCtx`), `dialog`, `confirm`, `fee`, `waiting`; `calls` in flight; `payout`, `cost` and `keys` at the orchestrator; `records` in the audit trail; each payout has a `cost` of its own | open a row, mark, retry, approve a fee, attest, look at a hold, price it, accept the rate; their answers and failures; `AcceptAtOrchestrator`, `RecordAccept`, `LoseAccept`; `SendPayout`, `ReleasedElsewhere`, `PriceMoves` |
| `BusinessDesk` | `biz` (`bizState`), `badges`, the orchestrator's `ids` | list, open, close, switch tab or type, more transactions, save, save for the house, remove; their answers |
| `SettingsDesk` | `sheet` (`siState` or `rmState`), `stored`, `asks` | enter and leave the tab, edit, save, delete; their answers; `EditedElsewhere` |
| `Listings` | `table`, `at`, `status` of the rows; `cursor`, `shown`, `asked`; what the walk owes | rows come, complete, settle, go; `OpenTab`, `Reload`, `LoadMore`; `Sweep`, `ReadPage`, `Answered`, `Failed` |

Abstractions: one of the three providers of `BusinessDesk` and one of the two
settings tabs (sender info), since the code treats them alike and apart. What is
typed is not a state: a save sends whatever the fields may hold. A payout stands
for its withdrawal: the key of a release names the offramp here and the
withdrawal in the code, and a reissue, which changes the withdrawal, is not taken
during a hold. Opening a transaction from a business's list is left out. The four
share nothing but
the page, so a behaviour of `Console` visits one of them. What the server does
with an edit, await by await, is `Settings`; with a mark or a retry, `Offramp`
and `Onramp`.

## 3. The runs

| Run | Instance | Shows |
| --- | --- | --- |
| `offramp_concurrent` | two requests at once, one fault | `OneLivePayout`, `PayoutIsFunded` and the refinement of `PayoutContract` hold under every interleaving |
| `offramp_sequential` | one request at a time, one fault, marks and fees, fairness | `FailureIsOnRecord`, `FeeIsRecorded`, `PointersAgree`, `RefundOrPayout`, and the liveness properties `CreditWins`, `PaidIsCompleted` |
| `offramp_late_expiry` | two requests at once, one deposit, expiry, no fault | `FundedNeverFails` is violated |
| `onramp_concurrent` | two requests at once, one fault, GETs, expiry, `onramp.fiat_received`, `failed` and `completed`, an offramp to fund or none | `SendIsFunded`, `CompletedIsSent` |
| `onramp_sequential` | one request at a time, one fault, marks and accounts as well, fairness | `PairFundedOnce`, `FundsAreHeld`, and the liveness properties `CreditIsPaidOut`, `SentIsCompleted` |
| `onramp_double_funding` | two GETs at once, no fault | `PairFundedOnce` is violated |
| `ramp_creation` | three requests, two request ids, a quote of each kind, one fault | `OfframpQuoteOnce`, `AccountsHaveRamps`, `DuplicateIsJustified` |
| `accounts` | two requests at once, one account id, two businesses (one with a named account, one with an identity import), one fault, fairness | `ReadyIsReal`, `ReplayIsOwn`, and the liveness property `ActivationLands` |
| `kyb` | two requests at once, one requestId, two e-mails, a rail, two events of any type with or without a status, a profile's word and a rail's, one fault, three attempts | `UserIsToldOnce`, `SubmissionShows`, `LogIsHonest` |
| `payout_accounts` | two requests at once, an account that is new or was stored before destinations were normalised, two PUTs, destinations and patches with legacy keys and nulls, two sets of requirements, one fault | `DestinationIsCanonical`, `PayoutAccountIsVetted` |
| `pricing` | one instance, a markup and a name, two edits with two values, one timer load beside the edits' loads, one fault, five kinds of quote, fairness | `EditStays`, `SettingIsOnRecord`, `FundableIsQuoted`, `MarginIsKept`, and the liveness property `EditReachesAll` |
| `console` | two payouts, a deposit, two applications and two businesses, two values for a setting, two requests in flight, three to five clicks (four at the payouts); three rows of a list, one to a page, three instants | `ActionIsForShown`, `ReleaseIsAgreed`, `ReleaseIsOnRecord`, `ShownIsOwn`, `OwnEditsShown`, `WalkIsComplete`, `NothingTwice` |

**Offramp and onramp.** What concerns *money at the LP* survives any overlap and
any crash, because it rests on idempotency keys and on the LP's own state. What
concerns *the row* holds when requests do not overlap, which is what the sequential runs
check, and fails when two do, because the guard, the status check or the sum is
computed on a copy read before an await. Those overlaps are hazards of
`PROJECT.json`, and no property of a sequential run is listed under them:

- the funds guard of `updateOfframpStatus` decides on a row that is no longer
  the one it writes, so a credited offramp can still expire
  (`offramp_late_expiry`: a read of an overdue offramp is about to expire it, the
  deposit is credited, the expiry is written over `CRYPTO_CONFIRMED`, and neither
  the advance nor the partner's retry, which want that status, starts a payout);
- two partial deposits credited at once both add to the same old amount, and one
  of them is lost to the row: it then waits for more, and no payout is unfunded;
- a cancellation racing a credit leaves a refund beside a payout
  (`RefundOrPayout` with a second handler), and two reports on one payout lose
  the failure (`FailureIsOnRecord`).

Some need no overlap. The report on a fee stores `COMPLETED` whatever the
offramp's status is (`settleOfframpPlatformFee.ts:47`): a payout is funded, so
the offramp is completed and its fee approved and sent; the payout then fails, an
operator reissues it, and the report on the fee completes the offramp again while
the new payout is still pending. `FailureIsOnRecord` excepts an offramp whose fee
has been reported. `COMPLETED` is stored when a payout is *funded*
(`processWebhookEvent.ts:625`), and stays when it fails later, whereas
`docs/fiat-to-fiat-flow.md:47` says "`offramp.completed` means the recipient has
been paid": no property here says that of the code. And since every GET advances
the payout of an onramp that seems to have been interrupted, an `onramp.failed`
that came before the fiat is followed by the crypto being sent. That event is
delivered in `onramp_concurrent` and in the theorem; `SendIsFunded` says that it
is the only way to it.
Of the `onramp.*` events `onramp_sequential` delivers none: any but
`onramp.completed` is written whatever the status is, and puts a settled onramp
back to where a payout may start (`PairFundedOnce`).

What two requests can do to a fiat-to-fiat transfer is fund its offramp twice
(`onramp_double_funding`): both read `FIAT_PROCESSED`, one wins the claim of the
offramp, and the other takes an offramp that is no longer open for one that
cannot be settled with. `PROJECT.json` quotes the comment of `settler.ts` that
this contradicts.

**Creation.** An offramp's quote is consumed by a conditional update before
anything else and is never shared, but burns with a creation that fails. An
onramp's is looked at first (`onramps/controllers.ts:341`) and consumed after
the insert (`:409`), so it survives a failure and two requests with different
ids may share it.

**Accounts and KYB.** A race of creations, reports, polls and deletions never
shows an account as ready without usable instructions of the LP and never answers
with another business's account. (That the LP itself calls the account active is
not promised: the creating request goes by the instructions alone.) What it can do is take a readiness back: a creating
request's last poll may be older than the report that came meanwhile. That is
the exception `ActivationLands` names. A business is shown as "not_started" when
the provider has said so, or has sent a rail "suspended" or any other word that
`deriveOverallStatus` does not know: that is `Hidden`, which `SubmissionShows`
excepts. A submission that read the user before a
decision puts the user back under review (`submitKyb.ts:41`), against which no
property is stated. An event that
dies with its process stays pending for ever; the log never says otherwise
(`LogIsHonest`).

**Payout accounts.** Racing PUTs replace the whole of `providerPayout`, so the
last writer wins with a destination that is canonical and meets the requirements
stored with it, and the other's fields are lost. A row stored before destinations
were normalised stays as it is until a PUT. A PUT that names only `swift_code` keeps a stored `bank_code`,
which is looked at first: the update is accepted and changes nothing.

**Pricing.** Loads overlap, and the ticket each takes when it starts is what
keeps an edit once answered from being undone by an older load (`EditStays`).
A quote reads the rules twice; a rule that comes or goes between the two neither
refuses a quote priced below the provider's rate, except for what rounding a
fixed receive amount to whole units adds, nor sells below the margin
(`FundableIsQuoted`, `MarginIsKept`). An audit record that cannot be stored leaves the row written,
the rules not reloaded until the timer, and the operator with an error.

**The page.** What is pressed acts on what was shown, and a payout leaves its
hold only on terms agreed to for it. The answers, however, are drawn into
whatever is open by then, and the properties' exceptions name what follows:

- another payout's price in a dialog (`checkHoldRate`, `page.ts:969`), another
  business's provider ids, transactions and badge (`:1557`); the answer to a mark
  closes whichever dialog is open, that of an accepted rate whichever
  confirmation is;
- after a first release, what the customer paid and what is extra are computed
  from the raised cap (`:929`, `:998`);
- the key of a release names the payout and its caps, so a second release at the
  same caps is a replay that does nothing (`heldPayouts.ts:193`), and a release
  whose answer is lost is never recorded;
- a list answered after its tab was left appends to the next one, two presses of
  Load more add a page twice, an overtaken list of settings stays on the page,
  Enter saves while a save is under way, and a row that was deleted and created
  again meanwhile is answered 404 without a reload.

**Lists.** A walk that sends one request at a time skips no row that stays in
the list, except rows of the same instant as a page's last row. A list of ramps
filtered by currency filters after the page was cut, so a page without a match
ends the walk early (`onramp.repo.ts:262`, `offramp.repo.ts:309`); it is not among the
views of `Listings`.

### Bounds

Two handlers are enough for every race between a read and a write of one row (a
third could only repeat either role; what is proved without naming one request
at a time holds for any number). One fault is enough for each single loss; the proofs cover any number.

The instances of `Offramp` have two deposits of 2 cents, a quote of 4 and a
tolerance of 2, so one deposit is exactly the underpayment that is *not*
tolerated (4 - 2 < 2 is false) and both complete it. Two payouts are enough for
a payout, its failure and its replacement. (`offramp_late_expiry` has one deposit,
which the tolerance of 3 makes complete, and one payout.) `Jobs` names the entry points an
instance exercises: webhooks on deposits and payouts always are.
`offramp_concurrent` leaves out the marks, the provisioning events and the fee to
stay within a few minutes, `onramp_concurrent` the marks, the provisioning events
and three of the `onramp.*` events; the proofs cover them.

`ramp_creation` has three requests so that two may share a request id while a
third shares the quote, or all three share either; two ids and two quotes are
then enough for every pattern of equal and different.

In `accounts`, `kyb` and `payout_accounts` one account or user is what requests
race for; two businesses, or two e-mails, make them meet in one requestId.
Delivery is followed of the first event only, since events do not interact;
`kyb` posts it up to three times as the code does, the other two once.
`MaxSignUps` and `MaxSubmissions` are the two sign-ups that race and the one
submission that races the decisions.

In `pricing` one key is the pair's rule on both sides, since a quote reads one
side; two edits of two keys give the races of two saves, of a save and a
removal, and loads of edits beside the timer's; the theorems cover any number.
`Scale` 10 with rates near 20 makes rounding visible in amounts of one digit.

In `console` four clicks open, look at, and press in one dialog while another's
answer is on its way; businesses need a fifth to come back, settings three (save, edit, remove). Lists have one slot,
because a second request at once (`crossed`) excuses the walk; the theorems cover
any number of slots, rows and limits.

Deadlock is not checked: when every event is claimed and nobody asks for
anything, the system rightly stands still.

### Fairness

In `Offramp` and `Onramp` (`FairSpec`) a request in flight takes its next step
(the event loop runs it, and fetches have timeouts), and a webhook that stays
deliverable again and again is eventually handled, since the LP redelivers until
it is answered (strong, because the only handler of the instance may be busy in
between). The liveness properties are conditional on `[](faults = 0)`: an
interrupted handoff is never resumed by the code, which is a hazard of its own
in `PROJECT.json`.

In `Accounts` the same holds of requests and reports, and an event that is
followed is delivered. In `Settings` the timer keeps firing (weak: it is a
`setInterval`), and its queries are asked and answered infinitely often if they
can be (strong: the database may refuse some of them, but not every one for
ever). Nothing is assumed of customers, operators or the LP: no credit, payout,
retry, edit or decision ever has to happen.

## 4. The proofs

| Module | Theorem | Statement |
| --- | --- | --- |
| `OfframpProofs` | `TypeCorrect` | `Spec => []TypeOK` |
| | `NeverPaidTwice` | `Spec => []OneLivePayout` |
| | `NeverPaidUnfunded` | `Spec => []PayoutIsFunded` |
| | `Implementation` | `Spec => ImplementsContract` |
| | `PointersNeverDiffer` | `Spec => []PointersAgree`, one request at a time |
| | `PaidFeeIsRecorded` | `Spec => []FeeIsRecorded`, one request at a time |
| `OnrampProofs` | `TypeCorrect` | `Spec => []TypeOK` |
| | `CompletedOnlyIfSent` | `Spec => []CompletedIsSent` |
| | `SentOnlyIfFunded` | `Spec => []SendIsFunded`, for every set of `Reports` |
| `RampCreationProofs` | `TypeCorrect` | `Spec => []TypeOK` |
| | `OneOfframpPerQuote` | `Spec => []OfframpQuoteOnce` |
| | `NoStrayAccount` | `Spec => []AccountsHaveRamps` |
| | `QuoteSurvivesFailure` | `Spec => []OnrampQuoteIsKept` |
| | `OnlyDuplicatesRefused` | `Spec => DuplicateIsJustified` |
| `AccountsProofs` | `NeverReadyTooSoon` | `Spec => []ReadyIsReal` |
| | `NeverAnothersAccount` | `Spec => []ReplayIsOwn` |
| `KybProofs` | `NewUserIsToldOnce` | `Spec => []UserIsToldOnce` |
| | `SubmissionsShow` | `Spec => []SubmissionShows` |
| | `OutboundLogIsHonest` | `Spec => []LogIsHonest` |
| `PayoutAccountsProofs` | `StoredIsCanonical` | `Spec => []DestinationIsCanonical` |
| | `NeverUnvetted` | `Spec => []PayoutAccountIsVetted` |
| | `NormalizeIsIdempotent` | a normalised destination is in form, and normalising it changes nothing |
| `PricingProofs` | `EditsStay` | `Spec => []EditStays` |
| | `SettingsAreOnRecord` | `Spec => []SettingIsOnRecord` |
| | `FundableIsNeverRefused` | `Spec => []FundableIsQuoted` |
| | `MarginIsEarned` | `Spec => []MarginIsKept` |
| | `DestFixedIsCovered` | the crypto asked for a fixed fiat amount covers it after every fee |
| | `FlooredIsSolvent` | a rate below the provider's is never insolvent, however doubles are rounded at a tie |
| | `MarkupAfterFloor` | a markup taken off the capped market leaves the margin under both |
| | `OnrampDestIsCovered`, `OnrampDestIsCoveredInverted` | the fiat asked for a fixed amount of crypto covers it and the fees, at a rate in fiat per crypto and in crypto per fiat |
| `ConsoleProofs` | `PressedIsWhatWasShown` | `Spec => []ActionIsForShown` |
| | `ReleasesAreOnRecord` | `Spec => []ReleaseIsOnRecord` |
| | `ReleasesAreAgreed` | `Spec => ReleaseIsAgreed` |
| | `ShownIsTheOpenOnes` | `Spec => []ShownIsOwn` |
| | `EditsHereAreShown` | `Spec => []OwnEditsShown` |
| | `WalksAreComplete` | `Spec => []WalkIsComplete` |
| | `WalksShowNothingTwice` | `Spec => []NothingTwice` |

Every theorem is for any sets and numbers the constants may be: handlers,
deposits, amounts, payouts, faults, requests, ids, edits, clicks, instances,
rows, page sizes. The exception is `PointersNeverDiffer` and `PaidFeeIsRecorded`:
"one request at a time" is the hypothesis `Handlers = {p}`, as in the run that
states them; deposits, payouts, faults and amounts are still any.

Assumptions are the named `ASSUME`s of the modules, which TLC evaluates in the
runs: `DepositsAssumption` (an amount for each deposit, and `Total` the sum over
a set of them), `QuoteAssumption`, `FeeAssumption` and
`BoundsAssumption` of `Offramp`; `InstanceAssumption` of `Onramp`;
`QuoteKindAssumption` and `FaultsAssumption` of `RampCreation`;
`AttemptsAssumption` (there is a first attempt) of `PartnerWebhooks`;
`UsersAssumption` of `Accounts`; `KybAssumption` (bounds, and events of the types
handled that name users and rails there are, with any status) of `Kyb`; `PayoutAssumption` and `InputsAssumption` of
`PayoutAccounts`; `SettingsAssumption`, `ScaleAssumption`, `PricingAssumption`
(a markup, even doubled, leaves a price, which `PAIR_MARKUP_MAX_BPS` sees to) and
`InputsAssumption` of `Settings`, `QuoteAmounts` and `Pricing`;
`DeskAssumption` (no answer is no answer) of `PayoutDesk` and
`ListingsAssumption` of `Listings`.

The type-correctness theorems, `QuoteSurvivesFailure`, `NormalizeIsIdempotent` and
the five about amounts in `PricingProofs` are about what no run states by itself.

The arguments. In each module one lemma per action shows that the step keeps the
inductive invariant, most by way of a lemma for the step's shape.

- `Offramp`. `OneLivePayout` is not inductive: a handler that is about to reissue
  payout n carries the LP's answer, given earlier. `ReissueIsSafe` adds that such
  a handler has seen it failed (and failed is final at the LP). `PayoutIsFunded`
  is not inductive either: payouts are asked for by handlers that have read
  `CRYPTO_CONFIRMED`, and that status may have been stored from any stale copy.
  `ConfirmedIsFunded` says that the status, *wherever it is copied*, implies a
  complete deposit, and `Accounted` that no copy of the received amount exceeds
  what the ledger has let through: stale totals lose deposits but never invent
  them. Under the invariant each step is a step of `PayoutContract` or a stutter.
- `Offramp`, one request at a time. What the row says while an update is under
  way is not what it will say, and the update cannot be judged by the row either,
  since the funds guard may still hold it back. `Coming(p)` is the row as it will
  be once the update in flight is stored, guard and merge included, and the
  invariant `RowInv` is about both rows. Reading and writing then change nothing,
  and each handler's step is judged where it decides. `FreshCopy` says that what a
  request holds over the call to the LP is still the row (this is where one
  request is needed); `PointersInv` that both columns name one payout, also when a
  process dies between two updates; `FeeInv` that a withdrawn fee is on the row,
  or in the hands of the request that looked it up.
- `RampCreation`. The invariant follows a request along its way. `KeyInv`: a
  request in flight has its key, and no two in flight have the same. `RowInv`:
  between the lookup and the insert no row has the request's id; only an equal
  request could store one, so the insert never collides and no account is left
  behind. `QuoteInv`: an offramp between `ConsumeQuote` and its row holds its
  quote alone. `WayInv` says which kind may be at which stage, and `KeyOwnerInv`
  that each key in Redis was left by a request in flight, created or lost.
- `Onramp`. What is sent, stored or settled next depends on copies of the row
  held by other requests. `Known` is the set of facts the code may rely on (the
  fiat is in or `onramp.failed` was taken, the onramp is complete, its crypto went
  to the offramp), which only grows; a row is `RowSound` when its status claims no more than what is known,
  and a handler is `Sound` when both its copies are. A stale copy stays sound
  because nothing known is ever forgotten.
- `Accounts`. What the handlers carry from one await to the next is what
  threatens the rows, so `AInv` says of the handlers what it says of the rows:
  an "active" about to be stored has usable instructions at the LP already, which
  the LP does not take back (`ActiveIsReal`), and the account a creating request serves is its caller's
  (`OwnedByCaller`).
- `Kyb`. `UserIsToldOnce` needs that the request about to announce a user is the
  only one, and that nobody has announced it (`Greeted`). `SubmissionShows` needs
  that a user never goes back to "not_started" (`BooksSound`) whatever a request
  has read before (`HandlerSound`): its submission has either set the status or
  seen one that it leaves alone; an event that says otherwise hides it, and stays
  claimed. `LogIsHonest` needs the delivery as it happened
  beside what is logged of it (`EventHonest`): an outcome is known before it is
  stored, and storing it may fail.
- `PayoutAccounts`. `Carries` says that a destination in flight is in form, that
  once checked it meets the fields stored with it, and that an approval seen is
  remembered. A merge of two destinations in form need not be in form, which is
  why `Update` normalises again and why `NormalizeIsIdempotent` is needed.
- `Pricing`, the rules. A load reads no less than was written when it started, so
  what an edit wrote bounds from below every load whose ticket is no older than
  that of the edit's own load. `Floors` says so of each pair of loads in the order
  of their tickets, together with: a stale load's edit has reached the rules held,
  and staleness goes down the order. So a load that comes back and is not stale
  has read all that was answered for, and one that is stale may be dropped and
  its edit answered. `TrailInv` says of each row why it is what it is: seeded,
  recorded, or written by an edit that is about to record it.
- `Pricing`, the quotes. A quote is priced twice, and the rules may be replaced in
  between. `Asked` keeps of the first price what the second needs: that it was
  positive, and that the markup there is now is no less than the least there has
  been. The rest is arithmetic: the theorems about amounts, and that below the
  provider's rate only rounding to whole units can raise what is paid out above
  what the provider covers.
- `Console`, the payout desk. The script acts on what it remembers, not on what
  the dialog shows, and an answer may replace either. `PageSound` says that a
  dialog with buttons in it and the script's memory name one payout, and
  `CallSound` that a request in flight was pressed in a dialog that showed its own
  payout, and an accepted rate on terms that were agreed to. `RecordsInv` follows a
  release from the orchestrator's acceptance to its record: one request is about
  to make the record, it is in flight once, and the record is not there yet.
- `Console`, the businesses and the settings. `BizInv` is little more than the
  property: an answer that is not the open business's sets `crossed`. The settings
  list is loaded by requests that overtake each other. Of those that may still be
  drawn, only the last matters: `Fresh` says that its answer is no older than the
  edits acknowledged here, and `DrawnFresh` that the list drawn is none older when
  no such request is under way.
- `Console`, the lists. An answer under way was asked for at the walk's own cursor,
  and every row the walk is owed that a table already read may hold is among the
  rows read, or covered by a full page of rows no older than it. So the merged page
  cuts off nothing newer than its last row.

Only model-checked are `FailureIsOnRecord`, `RefundOrPayout`, `FundsAreHeld` and
`PairFundedOnce`, which hold when requests do not overlap and are broken by two
that do, so that a theorem about them would be about no deployment of the code;
and liveness, which the provers do not reach: `CreditWins`, `PaidIsCompleted`,
`CreditIsPaidOut`, `SentIsCompleted`, `ActivationLands` and `EditReachesAll`.
Every other invariant and action property of a passing run is stated by a
theorem. Recursion over data does not occur in the modules.

## 5. Not modelled, and what is left

In `Offramp`: the legacy `offramp.*` events, which write statuses directly; the
claim of an offramp by a fiat-to-fiat settlement (it is `ClaimPair` of `Onramp`);
a reissue whose answer is lost. In `Onramp`: the fee column, the choice of a
static deposit account, and the life of the offramp after it was claimed. In
`RampCreation`: the link of an onramp to an offramp (`offrampLink.ts`), the choice
of the customer's account, and amounts. In `Pricing`: fee previews, and transfer
fees in other currencies. In the page: counts, exports, the list of
attestations. In `Listings`: the currency filter of the ramps' lists
(`onramp.repo.ts:262`).

The components listed as "not_modelled" in `PROJECT.json` keep no state that
interacts with a ramp's: limits are read-only sums and a high-value request is
one insert and a blind write; banks, corridors, coins and networks are lookups at
the provider; files and the HTTP layer are input and output.

What is left, in this order:

1. `RampCreation` with the link of an onramp to an offramp, which is checked and
   then created.
2. `Offramp` with the claim by a settlement and the lost answer of a reissue, and
   with it the composition of both ramps: `Onramp`'s `pair` mapped to an `Offramp`
   row.
3. Proofs: that any number of requests keep `RefundOrPayout` and
   `FailureIsOnRecord` as long as none is between a read and a write of the row
   while another writes it, instead of one request alone; and for 1 and 2 the
   invariants of what they add.
