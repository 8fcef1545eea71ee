--------------------------- MODULE OfframpProofs ----------------------------
(***************************************************************************)
(* Proofs about Offramp for every set of handlers and deposits, every quote *)
(* and every bound: its variables keep their types, its customer is never   *)
(* paid twice or without a complete deposit, and it implements              *)
(* PayoutContract.  And, while requests do not overlap: what the row says   *)
(* of the payout and of the platform fee is so.                             *)
(***************************************************************************)
EXTENDS Offramp, TLAPS

USE DEF None, Payouts, PayoutId

-----------------------------------------------------------------------------
(* Typing. *)

\* The columns a fresh offramp starts with have their types.
LEMMA NewColumns ==
    /\ NewTimeline \in Timeline
    /\ NewOrchestrator \in Orchestrator
    /\ NewRow \in Row
    /\ NewTimeline.received = 0
    /\ NewRow.tl.received = 0
    /\ NewRow.status = "AWAITING_CRYPTO"
<1>1. NewTimeline \in Timeline /\ NewTimeline.received = 0
  BY DEF NewTimeline, Timeline
<1>2. NewOrchestrator \in Orchestrator
  BY DEF NewOrchestrator, Orchestrator
<1> QED
  BY <1>1, <1>2 DEF NewRow, Row, Statuses, FeeStatuses

\* An idle handler has its type.
LEMMA IdleType ==
    /\ Idle \in Handler
    /\ Idle.pc = "idle"
    /\ Idle.new = NewRow
  BY NewColumns DEF Idle, Handler

\* updateOfframpStatus is called with a row, and keeps its status.
LEMMA UpdateType ==
    ASSUME NEW r \in Row, NEW cols \in SUBSET Columns,
           NEW then \in {"idle", "advance", "fee"}
    PROVE  /\ Update(r, cols, then) \in Handler
           /\ Update(r, cols, then).pc = "update"
           /\ Update(r, cols, then).new.status = r.status
           /\ Update(r, cols, then).new.tl.received \in {0, r.tl.received}
<1> DEFINE new == Update(r, cols, then).new
<1>1. new = [status |-> r.status,
             tl |-> IF "tl" \in cols THEN r.tl ELSE NewTimeline,
             orch |-> IF "orch" \in cols THEN [r.orch EXCEPT !.held = FALSE]
                                         ELSE NewOrchestrator,
             refund |-> "refund" \in cols /\ r.refund,
             fee |-> IF "fee" \in cols THEN r.fee ELSE "none"]
  BY DEF Update
<1>2. [r.orch EXCEPT !.held = FALSE] \in Orchestrator
  BY DEF Row, Orchestrator
<1>3. /\ r.status \in Statuses /\ r.tl \in Timeline /\ r.refund \in BOOLEAN
      /\ (IF "fee" \in cols THEN r.fee ELSE "none") \in FeeStatuses
  BY DEF Row, FeeStatuses
<1>4. new \in Row
  BY <1>1, <1>2, <1>3, NewColumns DEF Row
<1>5. new.status = r.status /\ new.tl.received \in {0, r.tl.received}
  BY <1>1, NewColumns
<1>6. Update(r, cols, then) =
        [pc |-> "update", new |-> new, sets |-> cols, force |-> FALSE,
         wd |-> None, then |-> then]
  BY <1>1 DEF Update
<1> HIDE DEF new
<1> QED
  BY <1>4, <1>5, <1>6 DEF Handler

\* A row given another status is a row with the same timeline.
LEMMA StatusType ==
    ASSUME NEW r \in Row, NEW s \in Statuses
    PROVE  /\ [r EXCEPT !.status = s] \in Row
           /\ [r EXCEPT !.status = s].status = s
           /\ [r EXCEPT !.status = s].tl = r.tl
  BY DEF Row

-----------------------------------------------------------------------------
(* What a handler may carry, given the deposits S counted and the payouts.  *)

RowSound(r, S) ==
    /\ r.tl.received <= Total[S]
    /\ r.status = "CRYPTO_CONFIRMED" => Contract!Funded(S)

Sound(h, S, pay) ==
    /\ RowSound(h.new, S)
    /\ h.pc = "payout" => h.new.status = "CRYPTO_CONFIRMED"
    /\ h.pc \in {"lp_state", "reissue_read", "reissue"} => h.wd \in 1..(MaxPayout - 1)
    /\ h.pc \in {"reissue_read", "reissue"} => pay[h.wd] = "failed"

\* The invariant says that the row and all handlers are sound.
LEMMA InvariantIsSound ==
    IInv <=> /\ TypeOK
             /\ RowSound(row, Counted)
             /\ \A p \in Handlers : Sound(handler[p], Counted, payout)
             /\ OneLivePayout
             /\ PayoutIsFunded
  BY DEF IInv, Accounted, ConfirmedIsFunded, ReissueIsSafe, RowSound, Sound

\* A step keeps the credits taken and the payouts failed.
Grows ==
    /\ Counted \subseteq Counted'
    /\ Total[Counted] <= Total[Counted']
    /\ Contract!Funded(Counted) => Contract!Funded(Counted')
    /\ \A n \in Payouts : payout[n] = "failed" => payout'[n] = "failed"

\* Each handler has stood still or moved on to something sound.
SoundMoves ==
    /\ handler' \in [Handlers -> Handler]
    /\ \A p \in Handlers :
          handler'[p] = handler[p] \/ Sound(handler'[p], Counted', payout')

\* Only deposits of the customer are ever counted, and their total is a number.
LEMMA TotalType ==
    Counted \subseteq Deposits /\ Total[Counted] \in Nat
  BY DepositsAssumption DEF Counted

\* What was sound stays sound while credits and failures are kept.
LEMMA SoundStays ==
    ASSUME TypeOK, NEW h \in Handler, Sound(h, Counted, payout), Grows,
           Total[Counted'] \in Nat
    PROVE  Sound(h, Counted', payout')
<1>1. h.new \in Row /\ h.new.tl.received \in Nat
  BY DEF Handler, Row, Timeline
<1>2. RowSound(h.new, Counted')
  BY <1>1, TotalType DEF Sound, RowSound, Grows
<1>3. ASSUME h.pc \in {"reissue_read", "reissue"}
      PROVE  payout'[h.wd] = "failed"
  <2>1. h.wd \in 1..(MaxPayout - 1) /\ payout[h.wd] = "failed"
    BY <1>3 DEF Sound
  <2>2. h.wd \in Payouts
    BY <2>1, BoundsAssumption
  <2> QED
    BY <2>1, <2>2 DEF Grows
<1> QED
  BY <1>2, <1>3 DEF Sound

\* The invariant is kept by a step that keeps the row, the handlers and the
\* payouts sound.
LEMMA SoundStep ==
    ASSUME IInv, Grows, SoundMoves,
           row' \in Row, RowSound(row', Counted'),
           payout' \in [Payouts -> PayoutState], feePayout' \in FeePayoutState,
           events' \subseteq Event, claimed' \subseteq events',
           faults' \in 0..MaxFaults,
           OneLivePayout', PayoutIsFunded'
    PROVE  IInv'
<1>1. TypeOK /\ \A p \in Handlers : Sound(handler[p], Counted, payout)
  BY InvariantIsSound
<1>2. TypeOK'
  BY DEF TypeOK, SoundMoves
<1>3. Total[Counted'] \in Nat
  BY DepositsAssumption DEF Counted
<1>4. ASSUME NEW p \in Handlers
      PROVE  Sound(handler'[p], Counted', payout')
  <2>1. handler[p] \in Handler
    BY <1>1 DEF TypeOK
  <2>2. Sound(handler[p], Counted', payout')
    BY <1>1, <1>3, <2>1, SoundStays
  <2> QED
    BY <2>2 DEF SoundMoves
<1> QED
  BY <1>2, <1>4 DEF IInv, Accounted, ConfirmedIsFunded, ReissueIsSafe, RowSound, Sound

\* A step that leaves the payouts alone keeps what is promised of them.
LEMMA SamePayouts ==
    ASSUME IInv, Grows, UNCHANGED payout
    PROVE  OneLivePayout' /\ PayoutIsFunded'
  BY DEF IInv, Grows, OneLivePayout, PayoutIsFunded, Contract!OneLivePayout,
         Contract!PayoutIsFunded, Contract!Payouts

\* Nothing changes in the credits taken when no deposit event is claimed.
LEMMA SameCredits ==
    ASSUME Counted' = Counted,
           \A n \in Payouts : payout[n] = "failed" => payout'[n] = "failed"
    PROVE  Grows
  BY TotalType DEF Grows

-----------------------------------------------------------------------------
(* The kinds of step. *)

\* Claiming an event other than a deposit credits nothing.
LEMMA ClaimOther ==
    ASSUME NEW p, NEW kind, NEW x, Claim(p, <<kind, x>>), kind # "deposit.credited"
    PROVE  Counted' = Counted
  BY DEF Claim, Counted

\* Claiming a deposit event credits that deposit, which was not credited.
LEMMA ClaimDeposit ==
    ASSUME NEW p, NEW d \in Deposits, Claim(p, <<"deposit.credited", d>>)
    PROVE  d \notin Counted /\ Counted' = Counted \union {d}
  BY DEF Claim, Counted

\* Crediting a deposit only adds to the total.
LEMMA CreditGrows ==
    ASSUME NEW d \in Deposits, d \notin Counted, Counted' = Counted \union {d},
           UNCHANGED payout
    PROVE  Grows /\ Total[Counted'] = Total[Counted] + Amount[d]
<1>1. Counted \in SUBSET Deposits /\ d \in Deposits \ Counted
  BY DEF Counted
<1>2. Total[Counted \union {d}] = Total[Counted] + Amount[d]
  BY <1>1, DepositsAssumption
<1>3. Amount[d] \in Nat /\ Total[Counted] \in Nat
  BY DepositsAssumption, TotalType
<1>4. Contract!Funded(Counted) => Contract!Funded(Counted')
  BY <1>2, <1>3, QuoteAssumption DEF Contract!Funded
<1> QED
  BY <1>2, <1>3, <1>4 DEF Grows

\* An event is claimed only after the LP has emitted it (claimWebhookEvent).
LEMMA ClaimKeeps ==
    ASSUME TypeOK, NEW p, NEW e, Claim(p, e), UNCHANGED events
    PROVE  claimed' \subseteq events'
  BY DEF TypeOK, Claim

\* A handler goes to something sound, or all stand still.
LEMMA GotoSound ==
    ASSUME TypeOK, NEW p \in Handlers, NEW h \in Handler, Goto(p, h),
           Sound(h, Counted', payout')
    PROVE  SoundMoves
  BY DEF TypeOK, Goto, SoundMoves

\* Handlers that all stand still are sound.
LEMMA RestSound ==
    ASSUME TypeOK, UNCHANGED handler
    PROVE  SoundMoves
  BY DEF TypeOK, SoundMoves

\* An update of a sound row is sound.
LEMMA UpdateSound ==
    ASSUME NEW r \in Row, NEW cols \in SUBSET Columns,
           NEW then \in {"idle", "advance", "fee"},
           NEW S \in SUBSET Deposits, NEW pay, RowSound(r, S)
    PROVE  /\ Update(r, cols, then) \in Handler
           /\ Sound(Update(r, cols, then), S, pay)
<1>1. Total[S] \in Nat
  BY DepositsAssumption
<1> QED
  BY <1>1, UpdateType DEF Sound, RowSound

\* A handler that carries nothing is sound.
LEMMA IdleSound ==
    ASSUME NEW pc \in {"idle", "advance", "fee"}, NEW S \in SUBSET Deposits, NEW pay
    PROVE  /\ [Idle EXCEPT !.pc = pc] \in Handler
           /\ Sound([Idle EXCEPT !.pc = pc], S, pay)
           /\ Sound(Idle, S, pay)
<1>1. Total[S] \in Nat
  BY DepositsAssumption
<1>2. RowSound(NewRow, S)
  BY <1>1, NewColumns DEF RowSound
<1>3. [Idle EXCEPT !.pc = pc] \in Handler
  BY IdleType, NewColumns DEF Idle, Handler
<1> QED
  BY <1>2, <1>3, IdleType DEF Sound, Idle

\* A step of a handler that only reads.
LEMMA ReadStep ==
    ASSUME IInv, Grows, SoundMoves, UNCHANGED <<row, payout>>,
           feePayout' \in FeePayoutState,
           events' \subseteq Event, claimed' \subseteq events',
           faults' \in 0..MaxFaults
    PROVE  IInv'
<1>1. row' \in Row /\ payout' \in [Payouts -> PayoutState]
  BY DEF IInv, TypeOK
<1>2. RowSound(row', Counted')
  <2>1. RowSound(row, Counted) /\ row' = row /\ row.tl.received \in Nat
    BY InvariantIsSound DEF TypeOK, Row, Timeline
  <2>2. Total[Counted] \in Nat /\ Total[Counted'] \in Nat
    BY DepositsAssumption DEF Counted
  <2> QED
    BY <2>1, <2>2 DEF RowSound, Grows
<1>3. OneLivePayout' /\ PayoutIsFunded'
  BY SamePayouts
<1> QED
  BY <1>1, <1>2, <1>3, SoundStep

-----------------------------------------------------------------------------
(* Webhook handlers. *)

\* A deposit added to a row is no more than what is counted, and the row is
\* CRYPTO_CONFIRMED only if that covers the quote (isOfframpCryptoDepositComplete).
LEMMA CreditedSound ==
    ASSUME NEW r \in Row, NEW d \in Deposits, NEW S \in SUBSET Deposits,
           r.tl.received + Amount[d] <= Total[S]
    PROVE  Credited(r, d) \in Row /\ RowSound(Credited(r, d), S)
<1> DEFINE total == r.tl.received + Amount[d]
           status == IF DepositComplete(total) THEN "CRYPTO_CONFIRMED"
                                               ELSE "CRYPTO_RECEIVED"
           tl == [r.tl EXCEPT !.received = total, !.credited = TRUE]
<1>1. Amount[d] \in Nat /\ Total[S] \in Nat
  BY DepositsAssumption
<1>2. r.tl \in Timeline /\ r.tl.received \in Nat
  BY DEF Row, Timeline
<1>3. total \in Nat
  BY <1>1, <1>2
<1>4. tl \in Timeline /\ tl.received = total
  <2> HIDE DEF total
  <2> QED
    BY <1>2, <1>3 DEF Timeline
<1>5. status \in Statuses
  BY DEF Statuses
<1>6. ASSUME status = "CRYPTO_CONFIRMED"
      PROVE  Contract!Funded(S)
  BY <1>1, <1>2, <1>6, QuoteAssumption DEF DepositComplete, Contract!Funded
<1>7. Credited(r, d) = [r EXCEPT !.status = status, !.tl = tl]
  BY DEF Credited
<1> HIDE DEF tl, status, total
<1>8. Credited(r, d) \in Row /\ Credited(r, d).tl = tl /\ Credited(r, d).status = status
  BY <1>4, <1>5, <1>7 DEF Row
<1>9. tl.received <= Total[S]
  BY <1>4 DEF total
<1> QED
  BY <1>6, <1>8, <1>9 DEF RowSound

\* deposit.credited keeps the invariant: what it adds to the row's amount has
\* been counted by the same step.
LEMMA DepositCreditedStep ==
    ASSUME IInv, NEW p \in Handlers, NEW d \in Deposits, DepositCredited(p, d)
    PROVE  IInv'
<1>1. TypeOK /\ RowSound(row, Counted) /\ row \in Row
  BY InvariantIsSound DEF TypeOK
<1>2. Claim(p, <<"deposit.credited", d>>) /\ UNCHANGED <<row, payout, feePayout, events, faults>>
  BY DEF DepositCredited
<1>3. Counted' = Counted \union {d} /\ d \notin Counted
  BY <1>2, ClaimDeposit
<1>4. Grows /\ Total[Counted'] = Total[Counted] + Amount[d]
  BY <1>2, <1>3, CreditGrows
<1>5. SoundMoves
  <2>1. CASE row.status \in CreditableStatuses
    <3> DEFINE r == Credited(row, d)
               then == IF r.status = "CRYPTO_CONFIRMED" THEN "advance" ELSE "idle"
               h == Update(r, {"tl", "orch"}, then)
    <3>1. Goto(p, h)
      BY <2>1 DEF DepositCredited, Run, Goto
    <3>2. row.tl.received + Amount[d] <= Total[Counted'] /\ Counted' \in SUBSET Deposits
      <4>1. row.tl.received \in Nat /\ Amount[d] \in Nat /\ Total[Counted] \in Nat
        BY <1>1, DepositsAssumption, TotalType DEF Row, Timeline
      <4> QED
        BY <1>1, <1>4, <4>1 DEF RowSound, Counted
    <3>3. r \in Row /\ RowSound(r, Counted')
      BY <1>1, <3>2, CreditedSound
    <3>4. h \in Handler /\ Sound(h, Counted', payout')
      BY <3>2, <3>3, UpdateSound DEF Columns
    <3> QED
      BY <1>1, <3>1, <3>4, GotoSound
  <2>2. CASE row.status \notin CreditableStatuses
    BY <1>1, <2>2, RestSound DEF DepositCredited
  <2> QED
    BY <2>1, <2>2
<1> QED
  BY <1>1, <1>2, <1>4, <1>5, ClaimKeeps, ReadStep DEF TypeOK

\* A step of a handler that has read the row and prepared an update of it
\* which confirms nothing new.
LEMMA UpdateStep ==
    ASSUME IInv, NEW p \in Handlers, NEW r \in Row, NEW cols \in SUBSET Columns,
           NEW then \in {"idle", "advance", "fee"},
           Goto(p, Update(r, cols, then)), RowSound(r, Counted),
           UNCHANGED <<row, payout, feePayout, events, faults>>,
           Counted' = Counted, claimed' \subseteq events'
    PROVE  IInv'
<1>1. Counted' \in SUBSET Deposits /\ RowSound(r, Counted')
  BY DEF Counted
<1>2. SoundMoves
  BY <1>1, UpdateSound, GotoSound DEF IInv
<1>3. Grows
  BY SameCredits
<1> QED
  BY <1>2, <1>3, ReadStep DEF IInv, TypeOK

\* A row that keeps its amount, and its status unless it is confirmed, is as
\* sound as it was.
LEMMA KeepsSound ==
    ASSUME NEW r, NEW s, NEW S, RowSound(r, S),
           s.tl.received = r.tl.received,
           s.status = r.status \/ s.status # "CRYPTO_CONFIRMED"
    PROVE  RowSound(s, S)
  BY DEF RowSound

\* A payout reported by the LP completes the row and leaves its amount alone.
LEMMA ReportedType ==
    ASSUME NEW r \in Row, NEW stage \in {"funded", "paid"}
    PROVE  /\ PayoutReported(r, stage) \in Row
           /\ PayoutReported(r, stage).status = "COMPLETED"
           /\ PayoutReported(r, stage).tl.received = r.tl.received
<1> DEFINE tl == [r.tl EXCEPT !.paid = @ \/ stage = "paid"]
           orch == [r.orch EXCEPT !.wstatus = IF stage = "paid" THEN "successful"
                                                                ELSE "funded"]
<1>1. tl \in Timeline /\ tl.received = r.tl.received
  BY DEF Row, Timeline
<1>2. orch \in Orchestrator
  BY DEF Row, Orchestrator
<1>3. PayoutReported(r, stage) = [r EXCEPT !.status = "COMPLETED", !.tl = tl, !.orch = orch]
  BY DEF PayoutReported
<1> HIDE DEF tl, orch
<1> QED
  BY <1>1, <1>2, <1>3 DEF Row, Statuses

\* completeFiatOfframpFromWithdrawal keeps the invariant.
LEMMA CompleteFromWithdrawalStep ==
    ASSUME IInv, NEW p \in Handlers, NEW n \in Payouts,
           NEW kind \in {"withdrawal.funded", "withdrawal.successful"},
           NEW stage \in {"funded", "paid"},
           CompleteFromWithdrawal(p, kind, n, stage)
    PROVE  IInv'
<1>1. TypeOK /\ RowSound(row, Counted) /\ row \in Row
  BY InvariantIsSound DEF TypeOK
<1>2. Claim(p, <<kind, n>>) /\ UNCHANGED <<row, payout, feePayout, events, faults>>
  BY DEF CompleteFromWithdrawal
<1>3. Counted' = Counted /\ claimed' \subseteq events'
  BY <1>1, <1>2, ClaimOther, ClaimKeeps
<1>4. CASE Matches(row, n) /\ AcceptsCompletion(row, stage)
  <2> DEFINE r == PayoutReported(row, stage)
  <2> PICK then : then = IF row.status = "COMPLETED" THEN "idle" ELSE "fee"
    OBVIOUS
  <2>1. Goto(p, Update(r, {"tl", "orch"}, then))
    BY <1>4 DEF CompleteFromWithdrawal, Run, Goto
  <2>2. r \in Row /\ RowSound(r, Counted)
    BY <1>1, ReportedType, KeepsSound
  <2> QED
    BY <1>2, <1>3, <2>1, <2>2, UpdateStep DEF Columns
<1>5. CASE ~(Matches(row, n) /\ AcceptsCompletion(row, stage))
  BY <1>1, <1>2, <1>3, <1>5, RestSound, SameCredits, ReadStep
     DEF CompleteFromWithdrawal, TypeOK
<1> QED
  BY <1>4, <1>5

\* A step that leaves all handlers where they are.
LEMMA RestStep ==
    ASSUME IInv, UNCHANGED <<row, handler, payout, feePayout, events, faults>>,
           Counted' = Counted, claimed' \subseteq events'
    PROVE  IInv'
  BY RestSound, SameCredits, ReadStep DEF IInv, TypeOK

\* withdrawal.failed keeps the invariant, whether it records or fails.
LEMMA WithdrawalFailedStep ==
    ASSUME IInv, NEW p \in Handlers, NEW n \in Payouts, WithdrawalFailed(p, n)
    PROVE  IInv'
<1>1. TypeOK /\ RowSound(row, Counted) /\ row \in Row
  BY InvariantIsSound DEF TypeOK
<1>2. Claim(p, <<"withdrawal.failed", n>>) /\ UNCHANGED <<row, payout, feePayout, events, faults>>
  BY DEF WithdrawalFailed
<1>3. Counted' = Counted /\ claimed' \subseteq events'
  BY <1>1, <1>2, ClaimOther, ClaimKeeps
<1>4. CASE Goto(p, FailedAfterFunding(row))
  <2> DEFINE r == [row EXCEPT !.orch.wstatus = "failed_after_funding"]
  <2>1. r \in Row /\ RowSound(r, Counted)
    BY <1>1 DEF Row, Orchestrator, RowSound
  <2> QED
    BY <1>2, <1>3, <1>4, <2>1, UpdateStep DEF FailedAfterFunding, Columns
<1>5. CASE Goto(p, FailedPayout(row))
  <2> DEFINE r == [row EXCEPT !.status = "FAILED", !.orch.wstatus = "failed"]
  <2>1. r \in Row /\ RowSound(r, Counted)
    BY <1>1 DEF Row, Orchestrator, RowSound, Statuses
  <2> QED
    BY <1>2, <1>3, <1>5, <2>1, UpdateStep DEF FailedPayout, Columns
<1>6. CASE UNCHANGED handler
  BY <1>2, <1>3, <1>6, RestStep
<1> QED
  BY <1>4, <1>5, <1>6 DEF WithdrawalFailed, Run, Goto

\* provisioned_account.* keeps the invariant: it never confirms a deposit.
LEMMA AccountProvisionedStep ==
    ASSUME IInv, NEW p \in Handlers, NEW kind \in ProvisionEvents,
           AccountProvisioned(p, kind)
    PROVE  IInv'
<1>1. TypeOK /\ RowSound(row, Counted) /\ row \in Row
  BY InvariantIsSound DEF TypeOK
<1>2. Claim(p, <<kind, None>>) /\ UNCHANGED <<row, payout, feePayout, events, faults>>
  BY DEF AccountProvisioned
<1>3. Counted' = Counted /\ claimed' \subseteq events'
  BY <1>1, <1>2, ClaimOther, ClaimKeeps DEF ProvisionEvents
<1>4. CASE row.status \in ProvisionableStatuses
  <2> DEFINE s == ProvisionedStatus(kind, row.status)
             r == [row EXCEPT !.status = s]
  <2>1. Goto(p, Update(r, {"orch"}, "idle"))
    BY <1>4 DEF AccountProvisioned, Run, Goto
  <2>2. s \in Statuses \ {"CRYPTO_CONFIRMED"}
    BY <1>4 DEF ProvisionedStatus, ProvisionEvents, ProvisionableStatuses, Statuses
  <2>3. r \in Row /\ r.status = s /\ r.tl = row.tl
    <3> HIDE DEF s
    <3> QED
      BY <1>1, <2>2, StatusType
  <2> HIDE DEF r, s
  <2>4. RowSound(r, Counted)
    BY <1>1, <2>2, <2>3 DEF RowSound
  <2> QED
    BY <1>2, <1>3, <2>1, <2>3, <2>4, UpdateStep DEF Columns
<1>5. CASE row.status \notin ProvisionableStatuses
  BY <1>2, <1>3, <1>5, RestStep DEF AccountProvisioned
<1> QED
  BY <1>4, <1>5

-----------------------------------------------------------------------------
(* API and operator requests. *)

\* The lazy expiry keeps the invariant.
LEMMA ExpireStep ==
    ASSUME IInv, NEW p \in Handlers, Expire(p)
    PROVE  IInv'
<1> DEFINE r == [row EXCEPT !.status = "EXPIRED"]
<1>1. TypeOK /\ RowSound(row, Counted) /\ row \in Row
  BY InvariantIsSound DEF TypeOK
<1>2. Goto(p, Update(r, {}, "idle")) /\ UNCHANGED <<row, payout, feePayout, events, claimed, faults>>
  BY DEF Expire, Run, Goto
<1>3. r \in Row /\ r.status = "EXPIRED" /\ r.tl = row.tl
  BY <1>1, StatusType DEF Statuses
<1> HIDE DEF r
<1>4. RowSound(r, Counted)
  BY <1>1, <1>3 DEF RowSound
<1> QED
  BY <1>1, <1>2, <1>3, <1>4, UpdateStep DEF TypeOK, Counted

\* cancelOfframp keeps the invariant.
LEMMA CancelStep ==
    ASSUME IInv, NEW p \in Handlers, Cancel(p)
    PROVE  IInv'
<1> DEFINE r == [row EXCEPT !.status = "CANCELLED", !.refund = TRUE]
<1>1. TypeOK /\ RowSound(row, Counted) /\ row \in Row
  BY InvariantIsSound DEF TypeOK
<1>2. Goto(p, Update(r, {"tl", "refund"}, "idle"))
  BY DEF Cancel, Run, Goto
<1>3. r \in Row /\ RowSound(r, Counted)
  BY <1>1 DEF Row, RowSound, Statuses
<1>4. UNCHANGED <<row, payout, feePayout, events, claimed, faults>>
  BY DEF Cancel
<1> QED
  BY <1>1, <1>2, <1>3, <1>4, UpdateStep DEF TypeOK, Counted, Columns

\* Requests that start a handler without an update.
LEMMA StartStep ==
    ASSUME IInv, NEW p \in Handlers, NEW h \in Handler, Goto(p, h),
           Sound(h, Counted, payout),
           UNCHANGED <<row, payout, feePayout, events, claimed, faults>>
    PROVE  IInv'
<1>1. Counted' = Counted
  BY DEF Counted
<1>2. Grows /\ SoundMoves
  BY <1>1, SameCredits, GotoSound DEF IInv
<1> QED
  BY <1>2, ReadStep DEF IInv, TypeOK

\* retryOfframpFiatPayout keeps the invariant: it only goes on to advance.
LEMMA RetryPayoutStep ==
    ASSUME IInv, NEW p \in Handlers, RetryPayout(p)
    PROVE  IInv'
<1> DEFINE h == [Idle EXCEPT !.pc = "advance"]
<1>1. h \in Handler /\ Sound(h, Counted, payout)
  BY IdleSound, TotalType
<1>2. Goto(p, h) /\ UNCHANGED <<row, payout, feePayout, events, claimed, faults>>
  BY DEF RetryPayout, Run, Goto
<1> QED
  BY <1>1, <1>2, StartStep

\* The operator's retry of an existing payout keeps the invariant: it remembers
\* a payout that has a successor left.
LEMMA AdminRetryStep ==
    ASSUME IInv, NEW p \in Handlers, AdminRetry(p)
    PROVE  IInv'
<1> DEFINE wd == AttachedWithdrawal(row)
           h == [Idle EXCEPT !.pc = "lp_state", !.wd = wd]
<1>1. wd \in 1..(MaxPayout - 1)
  BY DEF AdminRetry
<1>2. wd \in PayoutId
  BY <1>1, BoundsAssumption
<1> HIDE DEF wd
<1>3. h \in Handler /\ h.pc = "lp_state" /\ h.wd = wd /\ h.new = NewRow
  BY <1>2, NewColumns DEF Idle, Handler
<1>4. RowSound(NewRow, Counted)
  BY NewColumns, TotalType DEF RowSound
<1>5. Sound(h, Counted, payout)
  BY <1>1, <1>3, <1>4 DEF Sound
<1>6. Goto(p, h) /\ UNCHANGED <<row, payout, feePayout, events, claimed, faults>>
  BY DEF AdminRetry, Run, Goto, wd
<1> QED
  BY <1>3, <1>5, <1>6, StartStep

\* The operator's mark is an update of the row with more of its providerRefs.
LEMMA MarkStep ==
    ASSUME IInv, NEW p \in Handlers, NEW r \in Row, NEW cols \in SUBSET Columns,
           NEW force \in BOOLEAN, NEW then \in {"idle", "fee"},
           RowSound(r, Counted), Mark(p, r, cols, force, then),
           UNCHANGED <<row, payout, feePayout, events, claimed, faults>>
    PROVE  IInv'
<1> DEFINE u == Update(r, cols, then)
           orch == [u.new.orch EXCEPT !.held = r.orch.held]
           new == [u.new EXCEPT !.orch = orch]
           h == [u EXCEPT !.new = new, !.force = force]
<1>1. u \in Handler /\ Sound(u, Counted, payout) /\ u.pc = "update"
  BY TotalType, UpdateSound, UpdateType
<1>2. Goto(p, h)
  BY DEF Mark, Run, Goto
<1> HIDE DEF u
<1>3. u.new \in Row
  BY <1>1 DEF Handler
<1>4. orch \in Orchestrator
  BY <1>3 DEF Row, Orchestrator
<1> HIDE DEF orch
<1>5. new \in Row /\ new.tl = u.new.tl /\ new.status = u.new.status
  BY <1>3, <1>4 DEF Row
<1> HIDE DEF new
<1>6. h \in Handler /\ h.pc = "update" /\ h.new = new
  BY <1>1, <1>5 DEF Handler
<1> HIDE DEF h
<1>7. Sound(h, Counted, payout)
  BY <1>1, <1>5, <1>6 DEF Sound, RowSound
<1> QED
  BY <1>2, <1>6, <1>7, StartStep

\* The operator's mark as successful keeps the invariant.
LEMMA MarkSuccessStep ==
    ASSUME IInv, NEW p \in Handlers, MarkSuccess(p)
    PROVE  IInv'
<1> DEFINE tl == [row.tl EXCEPT !.paid = TRUE]
           orch == [row.orch EXCEPT !.wstatus = "successful", !.manual = TRUE]
           r == [row EXCEPT !.status = "COMPLETED", !.tl = tl, !.orch = orch]
<1>1. TypeOK /\ RowSound(row, Counted) /\ row \in Row
  BY InvariantIsSound DEF TypeOK
<1>2. Mark(p, r, {"tl", "orch"}, FALSE, "fee") /\ UNCHANGED <<row, payout, feePayout, events, claimed, faults>>
  BY DEF MarkSuccess
<1>3. tl \in Timeline /\ tl.received = row.tl.received
  BY <1>1 DEF Row, Timeline
<1>4. orch \in Orchestrator
  BY <1>1 DEF Row, Orchestrator
<1> HIDE DEF tl, orch
<1>5. r \in Row /\ r.tl = tl /\ r.status = "COMPLETED"
  BY <1>1, <1>3, <1>4 DEF Row, Statuses
<1> HIDE DEF r
<1>6. RowSound(r, Counted)
  BY <1>1, <1>3, <1>5 DEF RowSound
<1> QED
  BY <1>2, <1>5, <1>6, MarkStep DEF Columns

\* The operator's mark as failed keeps the invariant.
LEMMA MarkFailedStep ==
    ASSUME IInv, NEW p \in Handlers, MarkFailed(p)
    PROVE  IInv'
<1> DEFINE orch == [row.orch EXCEPT !.wstatus = "failed", !.manual = TRUE]
           r == [row EXCEPT !.status = "FAILED", !.orch = orch]
<1>1. TypeOK /\ RowSound(row, Counted) /\ row \in Row
  BY InvariantIsSound DEF TypeOK
<1>2. Mark(p, r, {"orch"}, TRUE, "idle") /\ UNCHANGED <<row, payout, feePayout, events, claimed, faults>>
  BY DEF MarkFailed
<1>3. orch \in Orchestrator
  BY <1>1 DEF Row, Orchestrator
<1> HIDE DEF orch
<1>4. r \in Row /\ r.tl = row.tl /\ r.status = "FAILED"
  BY <1>1, <1>3 DEF Row, Statuses
<1> HIDE DEF r
<1>5. RowSound(r, Counted)
  BY <1>1, <1>4 DEF RowSound
<1> QED
  BY <1>2, <1>4, <1>5, MarkStep DEF Columns

-----------------------------------------------------------------------------
(* updateOfframpStatus. *)

\* Merging providerRefs changes neither the status nor the timeline to store.
LEMMA MergedType ==
    ASSUME NEW h \in Handler, NEW r \in Row
    PROVE  /\ Merged(h, r) \in Handler
           /\ Merged(h, r).pc = h.pc
           /\ Merged(h, r).new.status = h.new.status
           /\ Merged(h, r).new.tl = h.new.tl
<1> DEFINE orch == IF "orch" \in h.sets
                   THEN [h.new.orch EXCEPT !.held = @ \/ r.orch.held]
                   ELSE r.orch
           new == [h.new EXCEPT !.orch = orch]
<1>1. h.new \in Row
  BY DEF Handler
<1>2. orch \in Orchestrator
  BY <1>1 DEF Row, Orchestrator
<1>3. Merged(h, r) = [h EXCEPT !.new = new]
  BY DEF Merged
<1> HIDE DEF orch
<1>4. new \in Row /\ new.status = h.new.status /\ new.tl = h.new.tl
  BY <1>1, <1>2 DEF Row
<1> HIDE DEF new
<1> QED
  BY <1>3, <1>4 DEF Handler

\* Holding back a failure keeps the row's status and the timeline to store.
LEMMA HeldType ==
    ASSUME NEW h \in Handler, NEW r \in Row
    PROVE  /\ Held(h, r) \in Handler
           /\ Held(h, r).pc = h.pc
           /\ Held(h, r).new.status = r.status
           /\ Held(h, r).new.tl = h.new.tl
<1> DEFINE m == Merged(h, r)
           orch == [m.new.orch EXCEPT !.held = TRUE]
           new == [m.new EXCEPT !.status = r.status, !.orch = orch]
<1>1. m \in Handler /\ m.pc = h.pc /\ m.new.tl = h.new.tl
  BY MergedType
<1>2. Held(h, r) = [m EXCEPT !.new = new, !.sets = @ \union {"orch"}]
  BY DEF Held
<1> HIDE DEF m
<1>3. m.new \in Row /\ m.sets \union {"orch"} \in SUBSET Columns
  BY <1>1 DEF Handler, Columns
<1>4. orch \in Orchestrator
  BY <1>3 DEF Row, Orchestrator
<1> HIDE DEF orch
<1>5. new \in Row /\ new.status = r.status /\ new.tl = h.new.tl
  BY <1>1, <1>3, <1>4 DEF Row
<1> HIDE DEF new
<1> QED
  BY <1>1, <1>2, <1>3, <1>5 DEF Handler

\* The read of updateOfframpStatus keeps the invariant: the status it leaves in
\* the handler is the caller's or the row's, both sound.
LEMMA UpdateReadStep ==
    ASSUME IInv, NEW p \in Handlers, UpdateRead(p)
    PROVE  IInv'
<1> DEFINE h == handler[p]
           x == Decided(h, row)
           w == [x EXCEPT !.pc = "write"]
<1>1. h \in Handler /\ row \in Row /\ h.new \in Row
  BY DEF IInv, TypeOK, Handler
<1>2. RowSound(row, Counted) /\ RowSound(h.new, Counted)
  BY InvariantIsSound DEF Sound
<1>3. Goto(p, w) /\ UNCHANGED <<row, payout, feePayout, events, claimed, faults>>
  BY DEF UpdateRead
<1>4. /\ x \in Handler
      /\ x.new.tl = h.new.tl
      /\ x.new.status \in {h.new.status, row.status}
  BY <1>1, MergedType, HeldType DEF Decided
<1> HIDE DEF h, x
<1>5. w \in Handler /\ w.pc = "write" /\ w.new = x.new
  BY <1>4 DEF Handler
<1> HIDE DEF w
<1>6. RowSound(x.new, Counted)
  BY <1>2, <1>4 DEF RowSound
<1>7. Sound(w, Counted, payout)
  BY <1>5, <1>6 DEF Sound
<1> QED
  BY <1>3, <1>5, <1>7, StartStep

\* What an update stores has the caller's status, and a timeline of the caller
\* or of the row.
LEMMA StoredType ==
    ASSUME NEW r \in Row, NEW h \in Handler
    PROVE  /\ Stored(r, h) \in Row
           /\ Stored(r, h).status = h.new.status
           /\ Stored(r, h).tl \in {r.tl, h.new.tl}
<1>1. h.new \in Row
  BY DEF Handler
<1>2. /\ h.new.status \in Statuses /\ h.new.refund \in BOOLEAN /\ r.refund \in BOOLEAN
      /\ {h.new.tl, r.tl} \subseteq Timeline
      /\ {h.new.orch, r.orch} \subseteq Orchestrator
      /\ {h.new.fee, r.fee} \subseteq FeeStatuses
  BY <1>1 DEF Row
<1> QED
  BY <1>2 DEF Stored, Row

\* The write of updateOfframpStatus keeps the invariant, although the row may
\* have changed since the read.
LEMMA UpdateWriteStep ==
    ASSUME IInv, NEW p \in Handlers, UpdateWrite(p)
    PROVE  IInv'
<1> DEFINE h == handler[p]
           i == [Idle EXCEPT !.pc = h.then]
<1>1. h \in Handler /\ row \in Row /\ TypeOK
  BY DEF IInv, TypeOK
<1>2. RowSound(row, Counted) /\ RowSound(h.new, Counted)
  BY InvariantIsSound DEF Sound
<1>3. /\ row' = Stored(row, h) /\ Goto(p, i)
      /\ UNCHANGED <<payout, feePayout, events, claimed, faults>>
  BY DEF UpdateWrite
<1>4. Counted' = Counted
  BY <1>3 DEF Counted
<1>5. Grows
  BY <1>3, <1>4, SameCredits
<1>6. h.then \in {"idle", "advance", "fee"}
  BY <1>1 DEF Handler
<1> HIDE DEF h
<1>7. i \in Handler /\ Sound(i, Counted', payout')
  BY <1>4, <1>6, IdleSound, TotalType
<1> HIDE DEF i
<1>8. SoundMoves
  BY <1>1, <1>3, <1>7, GotoSound
<1>9. row' \in Row /\ RowSound(row', Counted')
  <2>1. row'.tl \in {row.tl, h.new.tl} /\ row'.status = h.new.status /\ row' \in Row
    BY <1>1, <1>3, StoredType
  <2> QED
    BY <1>2, <1>4, <2>1 DEF RowSound
<1>10. OneLivePayout' /\ PayoutIsFunded'
  BY <1>3, <1>5, SamePayouts
<1> QED
  BY <1>1, <1>3, <1>5, <1>8, <1>9, <1>10, SoundStep DEF TypeOK

-----------------------------------------------------------------------------
(* Handing the payout to the LP. *)

\* advanceOfframpIfDepositReady keeps the invariant: it goes on to ask for the
\* payout only with a row that is CRYPTO_CONFIRMED.
LEMMA AdvanceReadStep ==
    ASSUME IInv, NEW p \in Handlers, AdvanceRead(p)
    PROVE  IInv'
<1> DEFINE h == [Idle EXCEPT !.pc = "payout", !.new = row]
<1>1. row \in Row /\ RowSound(row, Counted)
  BY InvariantIsSound DEF TypeOK
<1>2. UNCHANGED <<row, payout, feePayout, events, claimed, faults>>
  BY DEF AdvanceRead
<1>3. CASE row.status = "CRYPTO_CONFIRMED" /\ Goto(p, h)
  <2>1. h \in Handler /\ h.pc = "payout" /\ h.new = row
    BY <1>1 DEF Idle, Handler
  <2> HIDE DEF h
  <2>2. Sound(h, Counted, payout)
    BY <1>1, <1>3, <2>1 DEF Sound
  <2> QED
    BY <1>2, <1>3, <2>1, <2>2, StartStep
<1>4. CASE Goto(p, Idle)
  BY <1>2, <1>4, IdleType, IdleSound, TotalType, StartStep
<1> QED
  BY <1>3, <1>4 DEF AdvanceRead

\* The LP is asked for payout n: it mints it, or answers with the one it has.
Mints(n) == payout' = [payout EXCEPT ![n] = IF @ = "none" THEN "pending" ELSE @]

\* Asking the LP for a payout n whose turn it is, for a second time or the
\* first, leaves the customer with one live payout.
LEMMA MintStep ==
    ASSUME IInv, NEW n \in Payouts, Mints(n), Counted' = Counted,
           Contract!Funded(Counted),
           \A m \in Payouts : m < n => payout[m] = "failed"
    PROVE  /\ payout' \in [Payouts -> PayoutState]
           /\ Grows
           /\ OneLivePayout' /\ PayoutIsFunded'
<1>1. payout \in [Payouts -> PayoutState] /\ n \in Nat /\ Payouts \subseteq Nat
  BY BoundsAssumption DEF IInv, TypeOK
<1>2. payout' \in [Payouts -> PayoutState]
  BY <1>1 DEF Mints, PayoutState
<1>3. \A m \in Payouts :
         /\ payout[m] # "none" => payout'[m] = payout[m]
         /\ m # n => payout'[m] = payout[m]
  BY <1>1 DEF Mints
<1>4. Grows
  BY <1>3, SameCredits
<1>5. OneLivePayout'
  <2> SUFFICES ASSUME NEW k \in Payouts, NEW m \in Payouts, k < m, payout'[m] # "none"
               PROVE  payout'[k] = "failed"
    BY DEF OneLivePayout, Contract!OneLivePayout, Contract!Payouts
  <2>1. CASE m = n
    BY <1>3, <2>1
  <2>2. CASE m # n
    BY <1>3, <2>2 DEF IInv, OneLivePayout, Contract!OneLivePayout, Contract!Payouts
  <2> QED
    BY <2>1, <2>2
<1>6. PayoutIsFunded'
  BY DEF PayoutIsFunded, Contract!PayoutIsFunded
<1> QED
  BY <1>2, <1>4, <1>5, <1>6

\* A step that asks the LP for payout n and then prepares an update of a row
\* which confirms nothing new.
LEMMA AskStep ==
    ASSUME IInv, NEW p \in Handlers, NEW n \in Payouts, Mints(n),
           Contract!Funded(Counted),
           \A m \in Payouts : m < n => payout[m] = "failed",
           NEW r \in Row, RowSound(r, Counted),
           Goto(p, Update(r, {"tl", "orch"}, "idle")),
           UNCHANGED <<row, feePayout, events, claimed>>, faults' \in 0..MaxFaults
    PROVE  IInv'
<1>1. TypeOK /\ row \in Row /\ RowSound(row, Counted)
  BY InvariantIsSound DEF TypeOK
<1>2. Counted' = Counted /\ Counted' \in SUBSET Deposits
  BY DEF Counted
<1>3. /\ payout' \in [Payouts -> PayoutState]
      /\ Grows
      /\ OneLivePayout' /\ PayoutIsFunded'
  BY <1>2, MintStep
<1>4. SoundMoves
  BY <1>1, <1>2, UpdateSound, GotoSound DEF Columns
<1> QED
  BY <1>1, <1>2, <1>3, <1>4, SoundStep DEF TypeOK

\* A handler about to ask for the first payout holds a row that says that the
\* deposit is complete.
LEMMA ConfirmedHandler ==
    ASSUME IInv, NEW p \in Handlers, handler[p].pc = "payout"
    PROVE  /\ handler[p].new \in Row
           /\ RowSound(handler[p].new, Counted)
           /\ Contract!Funded(Counted)
           /\ 1 \in Payouts
           /\ \A m \in Payouts : m < 1 => payout[m] = "failed"
  BY InvariantIsSound, BoundsAssumption DEF TypeOK, Handler, Sound, RowSound

\* An accepted handoff keeps the invariant: the first payout has no earlier one,
\* and the deposit is complete.
LEMMA PayoutAcceptedStep ==
    ASSUME IInv, NEW p \in Handlers, PayoutAccepted(p)
    PROVE  IInv'
<1> DEFINE old == handler[p].new
           tl == [old.tl EXCEPT !.wd = 1]
           orch == [old.orch EXCEPT !.wd = 1, !.wstatus = "pending"]
           r == [old EXCEPT !.status = "FIAT_PENDING", !.tl = tl, !.orch = orch]
<1>1. /\ old \in Row /\ RowSound(old, Counted) /\ Contract!Funded(Counted)
      /\ 1 \in Payouts
      /\ \A m \in Payouts : m < 1 => payout[m] = "failed"
  BY ConfirmedHandler DEF PayoutAccepted
<1>2. /\ Goto(p, Update(r, {"tl", "orch"}, "idle")) /\ Mints(1)
      /\ UNCHANGED <<row, feePayout, events, claimed, faults>>
  BY DEF PayoutAccepted, Mints
<1>3. faults' \in 0..MaxFaults
  BY <1>2 DEF IInv, TypeOK
<1> HIDE DEF old
<1>4. tl \in Timeline /\ tl.received = old.tl.received
  BY <1>1 DEF Row, Timeline
<1>5. orch \in Orchestrator
  BY <1>1 DEF Row, Orchestrator
<1> HIDE DEF tl, orch
<1>6. r \in Row /\ r.tl = tl /\ r.status = "FIAT_PENDING"
  BY <1>1, <1>4, <1>5 DEF Row, Statuses
<1> HIDE DEF r
<1>7. RowSound(r, Counted)
  BY <1>1, <1>4, <1>6 DEF RowSound
<1> QED
  BY <1>1, <1>2, <1>3, <1>6, <1>7, AskStep

\* A handoff whose answer is lost keeps the invariant: the payout may exist, but
\* the row, which does not learn of it, stays as it was read.
LEMMA PayoutAnswerLostStep ==
    ASSUME IInv, NEW p \in Handlers, PayoutAnswerLost(p)
    PROVE  IInv'
<1> DEFINE r == handler[p].new
<1>1. /\ r \in Row /\ RowSound(r, Counted) /\ Contract!Funded(Counted)
      /\ 1 \in Payouts
      /\ \A m \in Payouts : m < 1 => payout[m] = "failed"
  BY ConfirmedHandler DEF PayoutAnswerLost
<1>2. /\ Goto(p, Update(r, {"tl", "orch"}, "idle")) /\ Mints(1)
      /\ UNCHANGED <<row, feePayout, events, claimed>>
  BY DEF PayoutAnswerLost, Mints
<1>3. faults' \in 0..MaxFaults
  BY BoundsAssumption DEF PayoutAnswerLost, IInv, TypeOK
<1> HIDE DEF r
<1> QED
  BY <1>1, <1>2, <1>3, AskStep

\* A refused handoff keeps the invariant.
LEMMA PayoutRefusedStep ==
    ASSUME IInv, NEW p \in Handlers, PayoutRefused(p)
    PROVE  IInv'
<1>1. handler[p].new \in Row /\ RowSound(handler[p].new, Counted)
  BY ConfirmedHandler DEF PayoutRefused
<1>2. Counted' = Counted /\ claimed' \subseteq events'
  BY DEF PayoutRefused, Counted, IInv, TypeOK
<1>3. /\ Goto(p, Update(handler[p].new, {"tl", "orch"}, "idle"))
      /\ UNCHANGED <<row, payout, feePayout, events, faults>>
  BY DEF PayoutRefused
<1> QED
  BY <1>1, <1>2, <1>3, UpdateStep DEF Columns

\* A handler that gives up.
LEMMA GiveUpStep ==
    ASSUME IInv, NEW p \in Handlers, Goto(p, Idle),
           UNCHANGED <<row, payout, feePayout, events, claimed>>, faults' \in 0..MaxFaults
    PROVE  IInv'
<1>1. Counted' = Counted /\ Counted' \in SUBSET Deposits
  BY DEF Counted
<1>2. Grows
  BY <1>1, SameCredits
<1>3. SoundMoves
  BY <1>1, IdleType, IdleSound, GotoSound DEF IInv
<1> QED
  BY <1>2, <1>3, ReadStep DEF IInv, TypeOK

\* A handoff that cannot be built keeps the invariant.
LEMMA PayoutNotBuiltStep ==
    ASSUME IInv, NEW p \in Handlers, PayoutNotBuilt(p)
    PROVE  IInv'
  BY GiveUpStep DEF PayoutNotBuilt, IInv, TypeOK

\* A request that dies keeps the invariant, wherever it dies.
LEMMA AbortStep ==
    ASSUME IInv, NEW p \in Handlers, Abort(p)
    PROVE  IInv'
<1>1. faults' \in 0..MaxFaults
  BY BoundsAssumption DEF Abort, IInv, TypeOK
<1> QED
  BY <1>1, GiveUpStep DEF Abort

-----------------------------------------------------------------------------
(* Reissue. *)

\* The operator's lookup keeps the invariant: it goes on only when the LP says
\* that the payout failed, and a failed payout stays failed.
LEMMA ReadLPStateStep ==
    ASSUME IInv, NEW p \in Handlers, ReadLPState(p)
    PROVE  IInv'
<1> DEFINE h == [handler[p] EXCEPT !.pc = "reissue_read"]
<1>1. /\ handler[p] \in Handler /\ Sound(handler[p], Counted, payout)
      /\ handler[p].pc = "lp_state"
  BY InvariantIsSound DEF TypeOK, ReadLPState
<1>2. UNCHANGED <<row, payout, feePayout, events, claimed, faults>>
  BY DEF ReadLPState
<1>3. CASE payout[handler[p].wd] = "failed" /\ Goto(p, h)
  <2>1. /\ h \in Handler /\ h.pc = "reissue_read"
        /\ h.new = handler[p].new /\ h.wd = handler[p].wd
    BY <1>1 DEF Handler
  <2> HIDE DEF h
  <2>2. Sound(h, Counted, payout)
    BY <1>1, <1>3, <2>1 DEF Sound
  <2> QED
    BY <1>2, <1>3, <2>1, <2>2, StartStep
<1>4. CASE Goto(p, Idle)
  BY <1>2, <1>4, IdleType, IdleSound, TotalType, StartStep
<1> QED
  BY <1>3, <1>4 DEF ReadLPState, Reissueable

\* The second read before a reissue keeps the invariant.
LEMMA ReissueReadStep ==
    ASSUME IInv, NEW p \in Handlers, ReissueRead(p)
    PROVE  IInv'
<1> DEFINE h == [handler[p] EXCEPT !.pc = "reissue", !.new = row]
<1>1. /\ handler[p] \in Handler /\ Sound(handler[p], Counted, payout)
      /\ handler[p].pc = "reissue_read"
      /\ row \in Row /\ RowSound(row, Counted)
  BY InvariantIsSound DEF TypeOK, ReissueRead
<1>2. UNCHANGED <<row, payout, feePayout, events, claimed, faults>>
  BY DEF ReissueRead
<1>3. CASE Goto(p, h)
  <2>1. h \in Handler /\ h.pc = "reissue" /\ h.new = row /\ h.wd = handler[p].wd
    BY <1>1 DEF Handler
  <2> HIDE DEF h
  <2>2. Sound(h, Counted, payout)
    BY <1>1, <2>1 DEF Sound
  <2> QED
    BY <1>2, <1>3, <2>1, <2>2, StartStep
<1>4. CASE Goto(p, Idle)
  BY <1>2, <1>4, IdleType, IdleSound, TotalType, StartStep
<1> QED
  BY <1>3, <1>4 DEF ReissueRead

\* A handler about to replace a payout: that payout has failed, and so have
\* all before it.
LEMMA ReissuingHandler ==
    ASSUME IInv, NEW p \in Handlers, handler[p].pc = "reissue"
    PROVE  /\ handler[p].new \in Row
           /\ RowSound(handler[p].new, Counted)
           /\ Contract!Funded(Counted)
           /\ handler[p].wd \in Payouts /\ handler[p].wd + 1 \in Payouts
           /\ payout[handler[p].wd] = "failed"
           /\ \A m \in Payouts : m < handler[p].wd + 1 => payout[m] = "failed"
<1> DEFINE n == handler[p].wd
<1>1. /\ handler[p].new \in Row
      /\ RowSound(handler[p].new, Counted)
      /\ n \in 1..(MaxPayout - 1)
      /\ payout[n] = "failed"
  BY InvariantIsSound DEF TypeOK, Handler, Sound
<1> HIDE DEF n
<1>2. n \in Payouts /\ n + 1 \in Payouts /\ Payouts \subseteq Nat
  BY <1>1, BoundsAssumption
<1>3. Contract!Funded(Counted)
  BY <1>1, <1>2 DEF IInv, PayoutIsFunded, Contract!PayoutIsFunded, Contract!Payouts
<1>4. ASSUME NEW m \in Payouts, m < n + 1
      PROVE  payout[m] = "failed"
  <2>1. m = n \/ m < n
    BY <1>2, <1>4
  <2>2. CASE m < n
    BY <1>1, <1>2, <2>2 DEF IInv, OneLivePayout, Contract!OneLivePayout, Contract!Payouts
  <2> QED
    BY <1>1, <2>1, <2>2
<1> QED
  BY <1>1, <1>2, <1>3, <1>4 DEF n

\* A reissue keeps the invariant: the payout it replaces, and all before it, have
\* failed, so the new one is the only one alive.
LEMMA ReissueAcceptedStep ==
    ASSUME IInv, NEW p \in Handlers, ReissueAccepted(p)
    PROVE  IInv'
<1> DEFINE old == handler[p].new
           next == handler[p].wd + 1
           tl == [old.tl EXCEPT !.wd = next, !.paid = FALSE]
           orch == [old.orch EXCEPT !.wd = next, !.wstatus = "pending", !.manual = FALSE]
           r == [old EXCEPT !.status = "FIAT_PENDING", !.tl = tl, !.orch = orch]
<1>1. /\ old \in Row /\ RowSound(old, Counted) /\ Contract!Funded(Counted)
      /\ next \in Payouts
      /\ \A m \in Payouts : m < next => payout[m] = "failed"
  BY ReissuingHandler DEF ReissueAccepted
<1>2. /\ Goto(p, Update(r, {"tl", "orch"}, "idle")) /\ Mints(next)
      /\ UNCHANGED <<row, feePayout, events, claimed, faults>>
  BY DEF ReissueAccepted, Mints
<1>3. faults' \in 0..MaxFaults
  BY <1>2 DEF IInv, TypeOK
<1> HIDE DEF old, next
<1>4. tl \in Timeline /\ tl.received = old.tl.received
  BY <1>1 DEF Row, Timeline
<1>5. orch \in Orchestrator
  BY <1>1 DEF Row, Orchestrator
<1> HIDE DEF tl, orch
<1>6. r \in Row /\ r.tl = tl /\ r.status = "FIAT_PENDING"
  BY <1>1, <1>4, <1>5 DEF Row, Statuses
<1> HIDE DEF r
<1>7. RowSound(r, Counted)
  BY <1>1, <1>4, <1>6 DEF RowSound
<1> QED
  BY <1>1, <1>2, <1>3, <1>6, <1>7, AskStep

\* A refused reissue keeps the invariant.
LEMMA ReissueRefusedStep ==
    ASSUME IInv, NEW p \in Handlers, ReissueRefused(p)
    PROVE  IInv'
  BY GiveUpStep DEF ReissueRefused, IInv, TypeOK

-----------------------------------------------------------------------------
(* The platform fee. *)

\* A row with another settlement of its fee is as sound as it was.
LEMMA FeeType ==
    ASSUME NEW r \in Row, NEW s \in FeeStatuses, RowSound(r, Counted)
    PROVE  /\ [r EXCEPT !.fee = s] \in Row
           /\ [r EXCEPT !.fee = s].fee = s
           /\ RowSound([r EXCEPT !.fee = s], Counted)
  BY DEF Row, RowSound

\* Queueing the fee keeps the invariant.
LEMMA FeeQueueStep ==
    ASSUME IInv, NEW p \in Handlers, FeeQueue(p)
    PROVE  IInv'
<1>1. TypeOK /\ RowSound(row, Counted) /\ row \in Row
  BY InvariantIsSound DEF TypeOK
<1>2. Counted' = Counted /\ claimed' \subseteq events'
  BY <1>1 DEF FeeQueue, Counted, TypeOK
<1>3. ASSUME NEW s \in FeeChecks, Goto(p, Update([row EXCEPT !.fee = s], {"fee"}, "idle"))
      PROVE  IInv'
  <2>1. s \in FeeStatuses
    BY FeeAssumption DEF FeeStatuses
  <2>2. [row EXCEPT !.fee = s] \in Row /\ RowSound([row EXCEPT !.fee = s], Counted)
    BY <1>1, <2>1, FeeType
  <2> QED
    BY <1>2, <1>3, <2>2, UpdateStep DEF FeeQueue, Columns
<1>4. CASE Goto(p, Idle)
  BY <1>1, <1>4, GiveUpStep DEF FeeQueue, TypeOK
<1> QED
  BY <1>3, <1>4 DEF FeeQueue

\* Approving the fee keeps the invariant.
LEMMA ApproveFeeStep ==
    ASSUME IInv, NEW p \in Handlers, ApproveFee(p)
    PROVE  IInv'
<1> DEFINE h == [Idle EXCEPT !.pc = "fee_pay", !.new = row]
<1>1. row \in Row /\ RowSound(row, Counted)
  BY InvariantIsSound DEF TypeOK
<1>2. h \in Handler /\ h.pc = "fee_pay" /\ h.new = row
  BY <1>1 DEF Idle, Handler
<1>3. Goto(p, h) /\ UNCHANGED <<row, payout, feePayout, events, claimed, faults>>
  BY DEF ApproveFee, Run, Goto
<1> HIDE DEF h
<1>4. Sound(h, Counted, payout)
  BY <1>1, <1>2 DEF Sound
<1> QED
  BY <1>2, <1>3, <1>4, StartStep

\* Storing the outcome a handler has for the fee keeps the invariant.
LEMMA FeeStoredStep ==
    ASSUME IInv, NEW p \in Handlers, NEW s \in FeeStatuses,
           Goto(p, Update([handler[p].new EXCEPT !.fee = s], {"fee"}, "idle")),
           UNCHANGED <<row, payout, feePayout, events, claimed, faults>>
    PROVE  IInv'
<1>1. handler[p].new \in Row /\ RowSound(handler[p].new, Counted)
  BY InvariantIsSound DEF TypeOK, Handler, Sound
<1>2. Counted' = Counted /\ claimed' \subseteq events'
  BY DEF Counted, IInv, TypeOK
<1> DEFINE r == [handler[p].new EXCEPT !.fee = s]
<1>3. r \in Row /\ RowSound(r, Counted)
  BY <1>1, FeeType
<1>4. Goto(p, Update(r, {"fee"}, "idle"))
  OBVIOUS
<1> HIDE DEF r
<1> QED
  BY <1>2, <1>3, <1>4, UpdateStep DEF Columns

\* Skipping the fee, and storing what its lookup found, keep the invariant.
LEMMA FeeSettledStep ==
    ASSUME IInv, NEW p \in Handlers, FeeSkipped(p) \/ FeeLookup(p)
    PROVE  IInv'
<1>1. CASE FeeSkipped(p)
  BY <1>1, FeeStoredStep DEF FeeSkipped, FeeStatuses
<1>2. CASE FeeLookup(p)
  <2>1. PICK s \in {handler[p].new.fee} \union {FeeStatus(x) : x \in {feePayout} \ {"none"}} :
          Goto(p, Update([handler[p].new EXCEPT !.fee = s], {"fee"}, "idle"))
    BY <1>2 DEF FeeLookup
  <2>2. handler[p].new.fee \in FeeStatuses
    BY DEF IInv, TypeOK, Handler, Row
  <2>3. s \in FeeStatuses
    BY <2>2 DEF FeeStatus, FeeStatuses
  <2> QED
    BY <1>2, <2>1, <2>3, FeeStoredStep DEF FeeLookup
<1> QED
  BY <1>1, <1>2

\* Asking the LP for the fee's withdrawal keeps the invariant, whether or not
\* the answer arrives.
LEMMA FeeCreateStep ==
    ASSUME IInv, NEW p \in Handlers, FeeCreate(p) \/ FeeAnswerLost(p)
    PROVE  IInv'
<1> DEFINE s == IF FeeCreate(p) THEN FeeStatus(feePayout') ELSE "failed"
           new == [handler[p].new EXCEPT !.fee = s]
           h == [handler[p] EXCEPT !.pc = "fee_lookup", !.new = new]
<1>1. /\ TypeOK /\ handler[p] \in Handler
      /\ handler[p].new \in Row /\ RowSound(handler[p].new, Counted)
  BY InvariantIsSound DEF TypeOK, Handler, Sound
<1>2. s \in FeeStatuses
  BY DEF FeeStatus, FeeStatuses
<1>3. Goto(p, h)
  BY DEF FeeCreate, FeeAnswerLost
<1> HIDE DEF s
<1>4. new \in Row /\ RowSound(new, Counted)
  BY <1>1, <1>2, FeeType
<1> HIDE DEF new
<1>5. h \in Handler /\ h.pc = "fee_lookup" /\ h.new = new
  BY <1>1, <1>4 DEF Handler
<1> HIDE DEF h
<1>6. Sound(h, Counted, payout)
  BY <1>4, <1>5 DEF Sound
<1>7. /\ UNCHANGED <<row, payout, events, claimed>>
      /\ feePayout' \in FeePayoutState
      /\ faults' \in 0..MaxFaults
  BY <1>1, BoundsAssumption DEF FeeCreate, FeeAnswerLost, FeePayoutState, TypeOK
<1>8. Counted' = Counted
  BY <1>7 DEF Counted
<1>9. Grows /\ SoundMoves
  BY <1>1, <1>3, <1>5, <1>6, <1>7, <1>8, SameCredits, GotoSound
<1> QED
  BY <1>1, <1>7, <1>9, ReadStep DEF TypeOK

\* The LP's report on the fee keeps the invariant, although it completes the row.
LEMMA FeeReportedStep ==
    ASSUME IInv, NEW p \in Handlers, NEW kind \in {"fee.successful", "fee.failed"},
           FeeReported(p, kind)
    PROVE  IInv'
<1> DEFINE s == IF kind = "fee.successful" THEN "completed" ELSE "failed"
           r == [row EXCEPT !.status = "COMPLETED", !.fee = s]
<1>1. TypeOK /\ RowSound(row, Counted) /\ row \in Row
  BY InvariantIsSound DEF TypeOK
<1>2. Claim(p, <<kind, None>>) /\ UNCHANGED <<row, payout, feePayout, events, faults>>
  BY DEF FeeReported
<1>3. Counted' = Counted /\ claimed' \subseteq events'
  BY <1>1, <1>2, ClaimOther, ClaimKeeps
<1>4. CASE Goto(p, Update(r, {"fee"}, "idle"))
  <2>1. s \in FeeStatuses
    BY DEF FeeStatuses
  <2> HIDE DEF s
  <2>2. r \in Row /\ RowSound(r, Counted)
    BY <1>1, <2>1 DEF Row, RowSound, Statuses
  <2> HIDE DEF r
  <2> QED
    BY <1>2, <1>3, <1>4, <2>2, UpdateStep DEF Columns
<1>5. CASE UNCHANGED handler
  BY <1>2, <1>3, <1>5, RestStep
<1> QED
  BY <1>4, <1>5 DEF FeeReported, Run, Goto

-----------------------------------------------------------------------------
(* The liquidity provider. *)

\* The LP emits an event and may settle a payout, which it never does with one
\* that has failed.
LEMMA LPStep ==
    ASSUME IInv, NEW e \in Event, Emit(e), UNCHANGED <<row, handler, feePayout, claimed, faults>>,
           \/ UNCHANGED payout
           \/ \E n \in Payouts, s \in {"funded", "successful", "failed"} :
                 /\ payout[n] \in {"pending", "funded"}
                 /\ payout' = [payout EXCEPT ![n] = s]
    PROVE  IInv'
<1>1. TypeOK /\ row \in Row /\ RowSound(row, Counted)
  BY InvariantIsSound DEF TypeOK
<1>2. Counted' = Counted
  BY DEF Counted
<1>3. events' \subseteq Event /\ claimed' \subseteq events'
  BY <1>1 DEF TypeOK, Emit
<1>4. CASE UNCHANGED payout
  BY <1>1, <1>2, <1>3, <1>4, RestSound, SameCredits, ReadStep DEF TypeOK
<1>5. ASSUME NEW n \in Payouts, NEW s \in {"funded", "successful", "failed"},
             payout[n] \in {"pending", "funded"},
             payout' = [payout EXCEPT ![n] = s]
      PROVE  IInv'
  <2>1. payout \in [Payouts -> PayoutState] /\ Payouts \subseteq Nat
    BY <1>1, BoundsAssumption DEF TypeOK
  <2>2. payout' \in [Payouts -> PayoutState]
    BY <1>5, <2>1 DEF PayoutState
  <2>3. \A m \in Payouts :
           /\ payout[m] = "failed" => payout'[m] = "failed"
           /\ payout'[m] # "none" => payout[m] # "none"
    BY <1>5, <2>1
  <2>4. Grows
    BY <1>2, <2>3, SameCredits
  <2>5. OneLivePayout' /\ PayoutIsFunded'
    BY <1>2, <2>3 DEF IInv, OneLivePayout, PayoutIsFunded, Contract!OneLivePayout,
       Contract!PayoutIsFunded, Contract!Payouts
  <2> QED
    BY <1>1, <1>2, <1>3, <2>2, <2>4, <2>5, RestSound, SoundStep DEF TypeOK
<1> QED
  BY <1>4, <1>5

\* Every step of the LP keeps the invariant.
LEMMA LPSteps ==
    ASSUME IInv, LP
    PROVE  IInv'
<1>1. ASSUME NEW d \in Deposits, LPCredits(d)
      PROVE  IInv'
  BY <1>1, LPStep DEF LPCredits, Event, EventKinds
<1>2. ASSUME NEW kind \in ProvisionEvents, LPProvisions(kind)
      PROVE  IInv'
  BY <1>2, LPStep DEF LPProvisions, Event, EventKinds, ProvisionEvents
<1>3. ASSUME NEW n \in Payouts, LPFunds(n) \/ LPPays(n) \/ LPFails(n)
      PROVE  IInv'
  <2>1. /\ <<"withdrawal.funded", n>> \in Event
        /\ <<"withdrawal.successful", n>> \in Event
        /\ <<"withdrawal.failed", n>> \in Event
    BY DEF Event, EventKinds
  <2>2. CASE LPFunds(n)
    BY <2>1, <2>2, LPStep DEF LPFunds
  <2>3. CASE LPPays(n)
    BY <2>1, <2>3, LPStep DEF LPPays
  <2>4. CASE LPFails(n)
    BY <2>1, <2>4, LPStep DEF LPFails
  <2> QED
    BY <1>3, <2>2, <2>3, <2>4
<1>4. ASSUME NEW state \in {"successful", "failed"},
             NEW kind \in {"fee.successful", "fee.failed"}, LPSettlesFee(state, kind)
      PROVE  IInv'
  <2>1. /\ UNCHANGED <<row, handler, payout, claimed, faults>>
        /\ Emit(<<kind, None>>)
        /\ feePayout' \in FeePayoutState
    BY <1>4 DEF LPSettlesFee, FeePayoutState
  <2>2. <<kind, None>> \in Event
    BY DEF Event, EventKinds
  <2>3. Counted' = Counted /\ events' \subseteq Event /\ claimed' \subseteq events'
    BY <2>1, <2>2 DEF Counted, Emit, IInv, TypeOK
  <2> QED
    BY <2>1, <2>3, RestSound, SameCredits, ReadStep DEF IInv, TypeOK
<1> QED
  BY <1>1, <1>2, <1>3, <1>4 DEF LP

-----------------------------------------------------------------------------
(* The invariant. *)

\* Nothing has been taken from the LP when the offramp has just been stored.
LEMMA InitCounted ==
    ASSUME Init
    PROVE  Counted = {} /\ Total[Counted] = 0
  BY DepositsAssumption DEF Init, Counted

\* The invariant holds of an offramp that has just been stored.
LEMMA InitSound ==
    ASSUME Init
    PROVE  IInv
<1>1. TypeOK
  BY NewColumns, IdleType, BoundsAssumption DEF Init, TypeOK, PayoutState, FeePayoutState
<1>2. RowSound(row, Counted)
  BY InitCounted, NewColumns DEF Init, RowSound
<1>3. \A p \in Handlers : Sound(handler[p], Counted, payout)
  BY IdleSound, TotalType DEF Init
<1>4. OneLivePayout /\ PayoutIsFunded
  BY DEF Init, OneLivePayout, PayoutIsFunded, Contract!OneLivePayout,
     Contract!PayoutIsFunded, Contract!Payouts
<1> QED
  BY <1>1, <1>2, <1>3, <1>4, InvariantIsSound

\* Every step of the code keeps the invariant.
LEMMA Inductive ==
    ASSUME IInv, [Next]_vars
    PROVE  IInv'
<1>1. ASSUME NEW p \in Handlers, Webhook(p)
      PROVE  IInv'
  <2>1. CASE \E d \in Deposits : DepositCredited(p, d)
    BY <2>1, DepositCreditedStep
  <2>2. CASE \/ \E kind \in ProvisionEvents : AccountProvisioned(p, kind)
             \/ \E kind \in {"fee.successful", "fee.failed"} : FeeReported(p, kind)
    BY <2>2, AccountProvisionedStep, FeeReportedStep
  <2>3. ASSUME NEW n \in Payouts,
               WithdrawalFunded(p, n) \/ WithdrawalSuccessful(p, n) \/ WithdrawalFailed(p, n)
        PROVE  IInv'
    BY <2>3, CompleteFromWithdrawalStep, WithdrawalFailedStep
       DEF WithdrawalFunded, WithdrawalSuccessful
  <2> QED
    BY <1>1, <2>1, <2>2, <2>3 DEF Webhook
<1>2. ASSUME NEW p \in Handlers, Request(p)
      PROVE  IInv'
  BY <1>2, ExpireStep, CancelStep, RetryPayoutStep, AdminRetryStep, MarkSuccessStep,
     MarkFailedStep, ApproveFeeStep DEF Request
<1>3. ASSUME NEW p \in Handlers, Progress(p)
      PROVE  IInv'
  BY <1>3, UpdateReadStep, UpdateWriteStep, AdvanceReadStep, PayoutAcceptedStep,
     PayoutRefusedStep, PayoutNotBuiltStep, ReadLPStateStep, ReissueReadStep,
     ReissueAcceptedStep, ReissueRefusedStep, FeeQueueStep, FeeSettledStep,
     FeeCreateStep DEF Progress
<1>4. ASSUME NEW p \in Handlers, Fault(p)
      PROVE  IInv'
  BY <1>4, AbortStep, PayoutAnswerLostStep, FeeCreateStep DEF Fault
<1>5. CASE UNCHANGED vars
  <2>1. Counted' = Counted /\ claimed' \subseteq events'
    BY <1>5 DEF vars, Counted, IInv, TypeOK
  <2> QED
    BY <1>5, <2>1, RestStep DEF vars
<1> QED
  BY <1>1, <1>2, <1>3, <1>4, <1>5, LPSteps DEF Next

\* The invariant holds throughout.
LEMMA Invariance == Spec => []IInv
<1>1. Init => IInv
  BY InitSound
<1>2. IInv /\ [Next]_vars => IInv'
  BY Inductive
<1> QED
  BY <1>1, <1>2, PTL DEF Spec

\* The row, the handlers, the payouts and the ledger keep their types; in
\* particular, only events the LP has emitted are ever claimed.
THEOREM TypeCorrect == Spec => []TypeOK
<1>1. IInv => TypeOK
  BY DEF IInv
<1> QED
  BY <1>1, Invariance, PTL

\* The customer is never paid twice, whichever of retry, reissue and webhook
\* ask for a payout, in whatever order, and whichever of them die on the way.
THEOREM NeverPaidTwice == Spec => []OneLivePayout
<1>1. IInv => OneLivePayout
  BY DEF IInv
<1> QED
  BY <1>1, Invariance, PTL

\* Fiat is handed to the LP only after deposits that cover the quote, each
\* counted once however often the LP delivers its event.
THEOREM NeverPaidUnfunded == Spec => []PayoutIsFunded
<1>1. IInv => PayoutIsFunded
  BY DEF IInv
<1> QED
  BY <1>1, Invariance, PTL

-----------------------------------------------------------------------------
(* The offramp implements PayoutContract. *)

\* A step that neither counts a deposit nor touches a payout is no step of the
\* contract.
LEMMA Stutters ==
    ASSUME Counted' = Counted, UNCHANGED payout
    PROVE  [Contract!Next]_(Contract!vars)
  BY DEF Contract!vars

\* Asking for a payout whose turn it is mints it, or finds it minted.
LEMMA MintsByContract ==
    ASSUME IInv, NEW n \in Payouts, Mints(n), Counted' = Counted,
           Contract!Funded(Counted),
           n # 1 => n - 1 \in Payouts /\ payout[n - 1] = "failed"
    PROVE  [Contract!Next]_(Contract!vars)
<1>1. payout \in [Payouts -> PayoutState] /\ n \in Nat
  BY BoundsAssumption DEF IInv, TypeOK
<1>2. CASE payout[n] # "none"
  <2>1. payout' = payout
    BY <1>1, <1>2 DEF Mints
  <2> QED
    BY <2>1, Stutters
<1>3. CASE payout[n] = "none"
  <2>1. payout' = [payout EXCEPT ![n] = "pending"]
    BY <1>3 DEF Mints
  <2>2. CASE n = 1
    BY <1>3, <2>1, <2>2 DEF Contract!Next, Contract!Pay, Contract!Payouts
  <2>3. CASE n - 1 \in Payouts /\ payout[n - 1] = "failed"
    <3>1. (n - 1) + 1 = n
      BY <1>1
    <3>2. Contract!Reissue(n - 1)
      BY <1>3, <2>1, <2>3, <3>1 DEF Contract!Reissue, Contract!Payouts
    <3> QED
      BY <2>3, <3>2 DEF Contract!Next, Contract!Payouts
  <2> QED
    BY <2>2, <2>3
<1> QED
  BY <1>2, <1>3

\* A webhook counts a deposit, or nothing.
LEMMA WebhookByContract ==
    ASSUME NEW p \in Handlers, Webhook(p)
    PROVE  [Contract!Next]_(Contract!vars)
<1>1. ASSUME NEW d \in Deposits, DepositCredited(p, d)
      PROVE  [Contract!Next]_(Contract!vars)
  <2>1. Claim(p, <<"deposit.credited", d>>) /\ UNCHANGED payout
    BY <1>1 DEF DepositCredited
  <2>2. Contract!Credit(d)
    BY <2>1, ClaimDeposit DEF Contract!Credit
  <2> QED
    BY <2>2 DEF Contract!Next
<1>2. ASSUME NEW kind,
             \/ kind \in ProvisionEvents /\ AccountProvisioned(p, kind)
             \/ kind \in {"fee.successful", "fee.failed"} /\ FeeReported(p, kind)
      PROVE  [Contract!Next]_(Contract!vars)
  BY <1>2, ClaimOther, Stutters DEF AccountProvisioned, FeeReported, ProvisionEvents
<1>3. ASSUME NEW n \in Payouts,
             WithdrawalFunded(p, n) \/ WithdrawalSuccessful(p, n) \/ WithdrawalFailed(p, n)
      PROVE  [Contract!Next]_(Contract!vars)
  BY <1>3, ClaimOther, Stutters
     DEF WithdrawalFunded, WithdrawalSuccessful, CompleteFromWithdrawal, WithdrawalFailed
<1> QED
  BY <1>1, <1>2, <1>3 DEF Webhook

\* The LP settles a payout, or emits an event that nobody has taken yet.
LEMMA LPByContract ==
    ASSUME LP
    PROVE  [Contract!Next]_(Contract!vars)
<1>1. Counted' = Counted
  BY DEF LP, LPCredits, LPProvisions, LPFunds, LPPays, LPFails, LPSettlesFee, Counted
<1>2. ASSUME NEW n \in Payouts, LPFunds(n) \/ LPPays(n) \/ LPFails(n)
      PROVE  [Contract!Next]_(Contract!vars)
  <2>1. Contract!Settle(n)
    BY <1>1, <1>2 DEF LPFunds, LPPays, LPFails, Contract!Settle
  <2> QED
    BY <2>1 DEF Contract!Next, Contract!Payouts
<1>3. CASE UNCHANGED payout
  BY <1>1, <1>3, Stutters
<1> QED
  BY <1>2, <1>3 DEF LP, LPCredits, LPProvisions, LPSettlesFee

\* The two places that ask the LP for a payout are Pay and Reissue.
LEMMA ProgressByContract ==
    ASSUME IInv, NEW p \in Handlers, Progress(p) \/ Fault(p)
    PROVE  [Contract!Next]_(Contract!vars)
<1>1. Counted' = Counted
  BY DEF Progress, Fault, UpdateRead, UpdateWrite, AdvanceRead, PayoutAccepted,
     PayoutRefused, PayoutNotBuilt, ReadLPState, ReissueRead, ReissueAccepted,
     ReissueRefused, FeeQueue, FeeSkipped, FeeCreate, FeeLookup, Abort,
     PayoutAnswerLost, FeeAnswerLost, Counted
<1>2. CASE PayoutAccepted(p) \/ PayoutAnswerLost(p)
  <2>1. Mints(1) /\ handler[p].pc = "payout"
    BY <1>2 DEF PayoutAccepted, PayoutAnswerLost, Mints
  <2>2. Contract!Funded(Counted) /\ 1 \in Payouts
    BY <2>1, ConfirmedHandler
  <2> QED
    BY <1>1, <2>1, <2>2, MintsByContract
<1>3. CASE ReissueAccepted(p)
  <2>1. Mints(handler[p].wd + 1) /\ handler[p].pc = "reissue"
    BY <1>3 DEF ReissueAccepted, Mints
  <2>2. handler[p].wd + 1 - 1 = handler[p].wd
    BY <2>1, ReissuingHandler, BoundsAssumption
  <2> QED
    BY <1>1, <2>1, <2>2, ReissuingHandler, MintsByContract
<1>4. CASE UNCHANGED payout
  BY <1>1, <1>4, Stutters
<1> QED
  BY <1>2, <1>3, <1>4
     DEF Progress, Fault, UpdateRead, UpdateWrite, AdvanceRead, PayoutRefused,
         PayoutNotBuilt, ReadLPState, ReissueRead, ReissueRefused, Abort,
         FeeQueue, FeeSkipped, FeeCreate, FeeLookup, FeeAnswerLost

\* The detailed specification implements the contract: its initial states are
\* the contract's, and each of its steps credits a deposit, mints, replaces or
\* settles one payout as the contract allows, or leaves both alone.
THEOREM Implementation == Spec => ImplementsContract
<1>1. Init => Contract!Init
  BY InitCounted DEF Init, Contract!Init, Contract!Payouts
<1>2. ASSUME IInv, [Next]_vars
      PROVE  [Contract!Next]_(Contract!vars)
  <2>1. ASSUME NEW p \in Handlers, Webhook(p) \/ Request(p) \/ Progress(p) \/ Fault(p)
        PROVE  [Contract!Next]_(Contract!vars)
    <3>1. CASE Request(p)
      <4>1. Counted' = Counted /\ UNCHANGED payout
        BY <3>1 DEF Request, Expire, Cancel, RetryPayout, AdminRetry, MarkSuccess,
           MarkFailed, ApproveFee, Counted
      <4> QED
        BY <4>1, Stutters
    <3> QED
      BY <1>2, <2>1, <3>1, WebhookByContract, ProgressByContract
  <2>2. CASE UNCHANGED vars
    BY <2>2, Stutters DEF vars, Counted
  <2> QED
    BY <1>2, <2>1, <2>2, LPByContract DEF Next
<1> QED
  BY <1>1, <1>2, Invariance, PTL DEF Spec, ImplementsContract, Contract!Spec

-----------------------------------------------------------------------------
(* One request at a time.  With one handler p, nobody writes the row between *)
(* the moment p reads it and the moment p stores its update, so each request *)
(* takes the row from one content to another: row to Coming(p).              *)

\* An automatic failure of a funded row is held back: of the row to store, b's
\* status remains, and the failure is on record.
Blocked(r, b) == [r EXCEPT !.status = b.status, !.orch.held = TRUE]

Guarded(r, b) == IF BlocksTransition(b, r.status) THEN Blocked(r, b) ELSE r

\* h is an update that would make r of the row b.
Makes(h, r, b) ==
    /\ h.pc = "update"
    /\ h.new.status = r.status
    /\ IF "tl" \in h.sets THEN h.new.tl = r.tl ELSE b.tl = r.tl
    /\ IF "orch" \in h.sets THEN h.new.orch \in {r.orch, [r.orch EXCEPT !.held = FALSE]}
                            ELSE b.orch = r.orch
    /\ IF "refund" \in h.sets THEN h.new.refund = r.refund ELSE b.refund = r.refund
    /\ IF "fee" \in h.sets THEN h.new.fee = r.fee ELSE b.fee = r.fee
    /\ r.orch.held = b.orch.held

\* A row is what its columns are.
LEMMA RowIsColumns ==
    ASSUME NEW r \in Row
    PROVE  /\ r = [status |-> r.status, tl |-> r.tl, orch |-> r.orch, refund |-> r.refund,
                   fee |-> r.fee]
           /\ r.orch \in Orchestrator /\ r.tl \in Timeline /\ r.refund \in BOOLEAN
           /\ r.fee \in FeeStatuses /\ r.status \in Statuses
  BY DEF Row, FeeStatuses

\* Setting the held failure of a column twice is setting it once.
LEMMA HeldTwice ==
    ASSUME NEW o \in Orchestrator
    PROVE  /\ [o EXCEPT !.held = o.held] = o
           /\ o.held \in BOOLEAN
           /\ [o EXCEPT !.held = TRUE] \in Orchestrator
           /\ [o EXCEPT !.held = FALSE] \in Orchestrator
           /\ [o EXCEPT !.held = TRUE].held = TRUE
           /\ [o EXCEPT !.held = FALSE].held = FALSE
  BY DEF Orchestrator

\* providerRefs once merged over those of the row just read.
MergedOrch(h, b) ==
    IF "orch" \in h.sets THEN [h.new.orch EXCEPT !.held = @ \/ b.orch.held] ELSE b.orch

\* What is merged over the row just read, of an update and of one held back.
LEMMA MergedColumns ==
    ASSUME NEW h \in Handler, NEW b \in Row
    PROVE  /\ Merged(h, b).new = [h.new EXCEPT !.orch = MergedOrch(h, b)]
           /\ Merged(h, b).sets = h.sets
           /\ Held(h, b).new = [h.new EXCEPT !.orch = [MergedOrch(h, b) EXCEPT !.held = TRUE],
                                             !.status = b.status]
           /\ Held(h, b).sets = h.sets \union {"orch"}
<1> DEFINE o == MergedOrch(h, b)
           m == Merged(h, b)
<1>1. h.new \in Row /\ h.new.orch \in Orchestrator /\ b.orch \in Orchestrator
  BY DEF Handler, Row
<1>2. o \in Orchestrator
  BY <1>1 DEF Orchestrator, MergedOrch
<1>3. m = [h EXCEPT !.new = [h.new EXCEPT !.orch = o]]
  BY DEF Merged, Handler, MergedOrch
<1> HIDE DEF o
<1>4. m.new = [h.new EXCEPT !.orch = o] /\ m.sets = h.sets /\ m \in Handler
  BY <1>1, <1>2, <1>3 DEF Handler, Row
<1>5. Held(h, b) = [m EXCEPT !.new = [m.new EXCEPT !.status = b.status,
                                                   !.orch = [m.new.orch EXCEPT !.held = TRUE]],
                             !.sets = @ \union {"orch"}]
  BY DEF Held
<1>6. m.new.orch = o
  BY <1>1, <1>2, <1>4 DEF Row
<1> HIDE DEF m
<1>7. /\ Held(h, b).new = [m.new EXCEPT !.status = b.status,
                                        !.orch = [o EXCEPT !.held = TRUE]]
      /\ Held(h, b).sets = h.sets \union {"orch"}
  BY <1>4, <1>5, <1>6 DEF Handler
<1>8. [m.new EXCEPT !.status = b.status, !.orch = [o EXCEPT !.held = TRUE]]
        = [h.new EXCEPT !.orch = [o EXCEPT !.held = TRUE], !.status = b.status]
  BY <1>1, <1>4 DEF Row
<1> QED
  BY <1>4, <1>7, <1>8 DEF o, m

\* An update that makes r of b merges to r's providerRefs.
LEMMA MergedMakes ==
    ASSUME NEW b \in Row, NEW r \in Row, NEW h \in Handler, Makes(h, r, b)
    PROVE  MergedOrch(h, b) = r.orch
<1>1. /\ h.new.orch \in Orchestrator
      /\ b.orch \in Orchestrator /\ r.orch \in Orchestrator
      /\ r.orch.held \in BOOLEAN /\ b.orch.held \in BOOLEAN /\ h.new.orch.held \in BOOLEAN
  BY DEF Handler, Row, Orchestrator
<1>2. CASE "orch" \notin h.sets
  BY <1>2 DEF Makes, MergedOrch
<1>3. CASE "orch" \in h.sets
  <2> DEFINE n == h.new.orch
  <2>1. n = r.orch \/ n = [r.orch EXCEPT !.held = FALSE]
    BY <1>3 DEF Makes
  <2>2. r.orch.held = b.orch.held
    BY <1>3 DEF Makes
  <2>3. MergedOrch(h, b) = [n EXCEPT !.held = n.held \/ b.orch.held]
    BY <1>1, <1>3 DEF MergedOrch
  <2>4. CASE n = r.orch
    <3>1. (n.held \/ b.orch.held) = n.held
      BY <1>1, <2>2, <2>4
    <3>2. MergedOrch(h, b) = [r.orch EXCEPT !.held = r.orch.held]
      BY <2>3, <2>4, <3>1
    <3> QED
      BY <1>1, <3>2, HeldTwice
  <2>5. CASE n = [r.orch EXCEPT !.held = FALSE]
    <3>1. n.held = FALSE
      BY <1>1, <2>5, HeldTwice
    <3>2. (n.held \/ b.orch.held) = b.orch.held
      BY <1>1, <3>1
    <3>3. MergedOrch(h, b) = [n EXCEPT !.held = r.orch.held]
      BY <2>2, <2>3, <3>2
    <3>4. [n EXCEPT !.held = r.orch.held] = r.orch
      BY <1>1, <2>5 DEF Orchestrator
    <3> QED
      BY <3>3, <3>4
  <2> QED
    BY <2>1, <2>4, <2>5
<1> QED
  BY <1>2, <1>3

\* updateOfframpStatus stores what the update makes, unless it is held back.
LEMMA StoresGuarded ==
    ASSUME NEW b \in Row, NEW r \in Row, NEW h \in Handler, Makes(h, r, b)
    PROVE  Stored(b, Decided(h, b)) = IF h.force THEN r ELSE Guarded(r, b)
<1> DEFINE d == Decided(h, b)
           orch == [r.orch EXCEPT !.held = TRUE]
<1>1. /\ h.new \in Row /\ h.new.orch \in Orchestrator /\ h.force \in BOOLEAN
      /\ r.orch \in Orchestrator /\ orch \in Orchestrator /\ r.refund \in BOOLEAN
  BY HeldTwice DEF Handler, Row
<1>2. /\ Merged(h, b).new = [h.new EXCEPT !.orch = r.orch]
      /\ Merged(h, b).sets = h.sets
      /\ Held(h, b).new = [h.new EXCEPT !.orch = orch, !.status = b.status]
      /\ Held(h, b).sets = h.sets \union {"orch"}
  <2>1. MergedOrch(h, b) = r.orch
    BY MergedMakes
  <2>2. [MergedOrch(h, b) EXCEPT !.held = TRUE] = orch
    BY <2>1
  <2>3. /\ Merged(h, b).new = [h.new EXCEPT !.orch = MergedOrch(h, b)]
        /\ Merged(h, b).sets = h.sets
        /\ Held(h, b).new = [h.new EXCEPT !.orch = [MergedOrch(h, b) EXCEPT !.held = TRUE],
                                          !.status = b.status]
        /\ Held(h, b).sets = h.sets \union {"orch"}
    BY MergedColumns
  <2> HIDE DEF orch
  <2> QED
    BY <2>1, <2>2, <2>3
<1>3. r = [status |-> r.status, tl |-> r.tl, orch |-> r.orch, refund |-> r.refund,
           fee |-> r.fee]
  BY RowIsColumns
<1>4. CASE ~h.force /\ BlocksTransition(b, h.new.status)
  <2>1. d = Held(h, b)
    BY <1>1, <1>4 DEF Decided
  <2>2. Blocked(r, b) = [status |-> b.status, tl |-> r.tl, orch |-> orch,
                         refund |-> r.refund, fee |-> r.fee]
    <3>1. Blocked(r, b) = [r EXCEPT !.status = b.status, !.orch = orch]
      BY DEF Blocked
    <3> HIDE DEF orch
    <3> QED
      BY <1>1, <3>1 DEF Row
  <2> HIDE DEF orch, d
  <2>3. /\ d.new.status = b.status /\ d.new.tl = h.new.tl /\ d.new.orch = orch
        /\ d.new.refund = h.new.refund /\ d.new.fee = h.new.fee
        /\ d.sets = h.sets \union {"orch"}
    BY <1>1, <1>2, <2>1 DEF Row
  <2>4. Stored(b, d) = [status |-> b.status, tl |-> r.tl, orch |-> orch,
                        refund |-> r.refund, fee |-> r.fee]
    BY <2>3 DEF Stored, Makes
  <2> QED
    BY <1>4, <2>2, <2>4 DEF Guarded, Makes, d
<1>5. CASE ~(~h.force /\ BlocksTransition(b, h.new.status))
  <2>1. d = IF "orch" \in h.sets THEN Merged(h, b) ELSE h
    BY <1>1, <1>5 DEF Decided
  <2> HIDE DEF d
  <2>2. /\ d.new.status = h.new.status /\ d.new.tl = h.new.tl
        /\ "orch" \in h.sets => d.new.orch = r.orch
        /\ d.new.refund = h.new.refund /\ d.new.fee = h.new.fee
        /\ d.sets = h.sets
    BY <1>1, <1>2, <2>1 DEF Row
  <2>3. Stored(b, d) = [status |-> r.status, tl |-> r.tl, orch |-> r.orch,
                        refund |-> r.refund, fee |-> r.fee]
    BY <2>2 DEF Stored, Makes
  <2> QED
    BY <1>3, <1>5, <2>3 DEF Guarded, Makes, d
<1> QED
  BY <1>4, <1>5

\* updateOfframpStatus is called for the row r with the columns cols.
LEMMA UpdateMakes ==
    ASSUME NEW r \in Row, NEW b \in Row, NEW cols \in SUBSET Columns,
           NEW then \in {"idle", "advance", "fee"},
           "tl" \notin cols => r.tl = b.tl,
           "orch" \notin cols => r.orch = b.orch,
           "refund" \notin cols => r.refund = b.refund,
           "fee" \notin cols => r.fee = b.fee,
           r.orch.held = b.orch.held
    PROVE  /\ Makes(Update(r, cols, then), r, b)
           /\ ~Update(r, cols, then).force
           /\ Update(r, cols, then) \in Handler
<1>1. r.refund \in BOOLEAN
  BY DEF Row
<1> QED
  BY <1>1, UpdateType DEF Makes, Update

\* A request has read the row and goes on to make g of it.
Takes(p, g) ==
    /\ row' = row
    /\ handler'[p].pc = "update"
    /\ Coming(p) = row
    /\ Coming(p)' = g

LEMMA UpdateTakes ==
    ASSUME TypeOK, NEW p \in Handlers, NEW r \in Row, NEW cols \in SUBSET Columns,
           NEW then \in {"idle", "advance", "fee"}, Goto(p, Update(r, cols, then)),
           UNCHANGED row, handler[p].pc \notin {"update", "write"},
           "tl" \notin cols => r.tl = row.tl,
           "orch" \notin cols => r.orch = row.orch,
           "refund" \notin cols => r.refund = row.refund,
           "fee" \notin cols => r.fee = row.fee,
           r.orch.held = row.orch.held
    PROVE  Takes(p, Guarded(r, row))
<1> DEFINE h == Update(r, cols, then)
<1>1. row \in Row
  BY DEF TypeOK
<1>2. Makes(h, r, row) /\ ~h.force /\ h \in Handler
  BY <1>1, UpdateMakes
<1>3. handler'[p] = h
  BY DEF Goto, TypeOK
<1> HIDE DEF h
<1>4. Stored(row, Decided(h, row)) = Guarded(r, row)
  BY <1>1, <1>2, StoresGuarded DEF Guarded
<1>5. h.pc = "update"
  BY <1>2 DEF Makes
<1> QED
  BY <1>3, <1>4, <1>5 DEF Takes, Coming

\* What an update leaves, blocked or not: the columns asked for, with at most
\* a failure held back.
LEMMA GuardedRow ==
    ASSUME NEW r \in Row, NEW b \in Row, NEW g, g = Guarded(r, b)
    PROVE  /\ g \in Row
           /\ g.tl = r.tl /\ g.refund = r.refund /\ g.fee = r.fee
           /\ g.orch.wd = r.orch.wd /\ g.orch.manual = r.orch.manual
           /\ g.orch.wstatus = r.orch.wstatus
           /\ r.orch.held => g.orch.held
           /\ \/ g = r
              \/ /\ r.status \in AutoFailStatuses
                 /\ FundsReceived(b)
                 /\ g.status = b.status /\ g.orch.held
           /\ r.status \in AutoFailStatuses /\ FundsReceived(b)
                => g.status = b.status /\ g.orch.held
<1>1. CASE BlocksTransition(b, r.status)
  <2> DEFINE orch == [r.orch EXCEPT !.held = TRUE]
  <2>1. r.orch \in Orchestrator /\ b.status \in Statuses
    BY DEF Row
  <2>2. /\ orch \in Orchestrator /\ orch.wd = r.orch.wd /\ orch.manual = r.orch.manual
        /\ orch.wstatus = r.orch.wstatus /\ orch.held = TRUE
    BY <2>1 DEF Orchestrator
  <2>3. g = [r EXCEPT !.status = b.status, !.orch = orch]
    BY <1>1 DEF Guarded, Blocked
  <2> HIDE DEF orch
  <2>4. /\ g \in Row /\ g.tl = r.tl /\ g.refund = r.refund /\ g.fee = r.fee
        /\ g.orch = orch /\ g.status = b.status
    BY <2>1, <2>2, <2>3 DEF Row
  <2>5. r.status \in AutoFailStatuses /\ FundsReceived(b)
    BY <1>1 DEF BlocksTransition
  <2> QED
    BY <2>2, <2>4, <2>5
<1>2. CASE ~BlocksTransition(b, r.status)
  BY <1>2 DEF Guarded, BlocksTransition
<1> QED
  BY <1>1, <1>2

\* Of the row b, a request for the row r leaves the payout and the fee alone.
Keeps(r, b) ==
    r.tl.wd = b.tl.wd /\ r.orch.wd = b.orch.wd /\ r.fee = b.fee

\* The row from which a request goes on.
LEMMA StartRow ==
    ASSUME TypeOK, NEW p \in Handlers, RowInv(p), handler[p].pc \notin {"update", "write"}
    PROVE  row \in Row /\ Coming(p) = row /\ PointersInv(row)
<1>1. Coming(p) = row
  BY DEF Coming
<1> QED
  BY <1>1 DEF TypeOK, RowInv

\* A request that prepares to store g.
LEMMA TakesStep ==
    ASSUME TypeOK, NEW p \in Handlers, NEW g \in Row, Takes(p, g),
           PointersInv(row), PointersInv(g), FeeInv(p)'
    PROVE  RowInv(p)'
<1>1. row' = row /\ Coming(p)' = g /\ handler'[p].pc = "update"
  BY DEF Takes
<1>2. FreshCopy(p)'
  BY <1>1 DEF FreshCopy
<1>3. PointersInv(row)' /\ PointersInv(g)'
  BY <1>1 DEF PointersInv
<1> QED
  BY <1>1, <1>2, <1>3 DEF RowInv

\* One that leaves the fee alone.
LEMMA KeepsStep ==
    ASSUME TypeOK, NEW p \in Handlers, RowInv(p), NEW g \in Row, Takes(p, g),
           PointersInv(g), g.fee = row.fee,
           handler[p].pc \notin {"update", "write", "fee_lookup"}, UNCHANGED feePayout,
           faults' = 0 => faults = 0,
           <<"fee.successful", None>> \in claimed' => <<"fee.successful", None>> \in claimed
    PROVE  RowInv(p)'
<1>1. PointersInv(row)
  BY StartRow
<1>2. FeeInv(p)'
  BY DEF RowInv, FeeInv, Takes
<1> QED
  BY <1>1, <1>2, TakesStep

\* A webhook event that is taken and leads to nothing.
LEMMA IgnoredStep ==
    ASSUME TypeOK, NEW p \in Handlers, RowInv(p), handler[p].pc = "idle",
           UNCHANGED <<row, handler, feePayout, faults>>,
           <<"fee.successful", None>> \in claimed'
              => <<"fee.successful", None>> \in claimed \/ (faults = 0 => row.fee = "completed")
    PROVE  RowInv(p)'
<1>1. Coming(p) = row /\ Coming(p)' = row
  BY DEF Coming
<1>2. PointersInv(row) /\ FeeInv(p)
  BY <1>1 DEF RowInv
<1>3. FreshCopy(p)' /\ PointersInv(row)'
  BY <1>2 DEF FreshCopy, PointersInv
<1>4. FeeInv(p)'
  BY <1>1, <1>2 DEF FeeInv
<1> QED
  BY <1>1, <1>3, <1>4 DEF RowInv

-----------------------------------------------------------------------------
(* Webhooks and requests that leave the payout and the fee alone. *)

\* A credit changes the amount and the status of a row.
LEMMA CreditedRow ==
    ASSUME NEW b \in Row, NEW d \in Deposits
    PROVE  LET r == Credited(b, d)
           IN  /\ r \in Row /\ Keeps(r, b) /\ r.orch = b.orch /\ r.refund = b.refund
               /\ r.status \in {"CRYPTO_CONFIRMED", "CRYPTO_RECEIVED"}
<1> DEFINE total == b.tl.received + Amount[d]
           status == IF DepositComplete(total) THEN "CRYPTO_CONFIRMED" ELSE "CRYPTO_RECEIVED"
           tl == [b.tl EXCEPT !.received = total, !.credited = TRUE]
<1>1. b.tl \in Timeline /\ total \in Nat
  BY DepositsAssumption DEF Row, Timeline
<1> HIDE DEF total
<1>2. tl \in Timeline /\ tl.wd = b.tl.wd
  BY <1>1 DEF Timeline
<1>3. status \in {"CRYPTO_CONFIRMED", "CRYPTO_RECEIVED"}
  OBVIOUS
<1>4. Credited(b, d) = [b EXCEPT !.status = status, !.tl = tl]
  BY DEF Credited, total
<1> HIDE DEF tl, status
<1> QED
  BY <1>2, <1>3, <1>4 DEF Row, Statuses, Keeps

\* deposit.credited.
LEMMA DepositCreditedRow ==
    ASSUME IInv, NEW p \in Handlers, RowInv(p), NEW d \in Deposits, DepositCredited(p, d)
    PROVE  RowInv(p)'
<1>1. /\ TypeOK /\ handler[p].pc = "idle" /\ Claim(p, <<"deposit.credited", d>>)
      /\ UNCHANGED <<row, payout, feePayout, events, faults>>
  BY DEF DepositCredited, IInv, Claim
<1>2. row \in Row /\ PointersInv(row)
  BY <1>1, StartRow
<1>3. <<"fee.successful", None>> \in claimed' <=> <<"fee.successful", None>> \in claimed
  BY <1>1 DEF Claim
<1>4. CASE row.status \in CreditableStatuses
  <2> PICK r : r = Credited(row, d)
    OBVIOUS
  <2> DEFINE then == IF r.status = "CRYPTO_CONFIRMED" THEN "advance" ELSE "idle"
  <2>1. Goto(p, Update(r, {"tl", "orch"}, then))
    BY <1>4 DEF DepositCredited, Run, Goto
  <2>2. /\ r \in Row /\ Keeps(r, row) /\ r.orch = row.orch /\ r.refund = row.refund
        /\ r.status \in {"CRYPTO_CONFIRMED", "CRYPTO_RECEIVED"}
    BY <1>2, CreditedRow
  <2>3. Takes(p, Guarded(r, row))
    BY <1>1, <2>1, <2>2, UpdateTakes DEF Columns, Keeps
  <2>4. Guarded(r, row) = r
    BY <2>2 DEF Guarded, BlocksTransition, AutoFailStatuses
  <2>5. PointersInv(r)
    BY <1>2, <2>2 DEF PointersInv, Keeps
  <2> QED
    BY <1>1, <1>3, <2>2, <2>3, <2>4, <2>5, KeepsStep DEF Keeps
<1>5. CASE row.status \notin CreditableStatuses
  <2>1. UNCHANGED handler
    BY <1>5 DEF DepositCredited
  <2> QED
    BY <1>1, <1>3, <2>1, IgnoredStep
<1> QED
  BY <1>4, <1>5

\* A reported payout completes the row and sets the payout's status on it.
LEMMA ReportedRow ==
    ASSUME NEW b \in Row, NEW stage \in {"funded", "paid"},
           NEW r, r = PayoutReported(b, stage)
    PROVE  /\ r \in Row /\ Keeps(r, b) /\ r.status = "COMPLETED"
           /\ r.orch.held = b.orch.held /\ r.refund = b.refund
<1> DEFINE tl == [b.tl EXCEPT !.paid = @ \/ stage = "paid"]
           orch == [b.orch EXCEPT !.wstatus = IF stage = "paid" THEN "successful"
                                                                ELSE "funded"]
<1>1. tl \in Timeline /\ tl.wd = b.tl.wd
  BY DEF Row, Timeline
<1>2. orch \in Orchestrator /\ orch.wd = b.orch.wd /\ orch.held = b.orch.held
  BY DEF Row, Orchestrator
<1>3. r = [b EXCEPT !.status = "COMPLETED", !.tl = tl, !.orch = orch]
  BY DEF PayoutReported
<1> HIDE DEF tl, orch
<1> QED
  BY <1>1, <1>2, <1>3 DEF Row, Statuses, Keeps

\* A failure put on record.
LEMMA AfterFundingRow ==
    ASSUME NEW b \in Row, NEW r, r = [b EXCEPT !.orch.wstatus = "failed_after_funding"]
    PROVE  r \in Row /\ Keeps(r, b) /\ r.orch.held = b.orch.held /\ r.refund = b.refund
<1> DEFINE orch == [b.orch EXCEPT !.wstatus = "failed_after_funding"]
<1>1. orch \in Orchestrator /\ orch.wd = b.orch.wd /\ orch.held = b.orch.held
  BY DEF Row, Orchestrator
<1> HIDE DEF orch
<1> QED
  BY <1>1 DEF Row, Keeps, orch

\* A row failed with its payout.
LEMMA FailedRow ==
    ASSUME NEW b \in Row, NEW r, r = [b EXCEPT !.status = "FAILED", !.orch.wstatus = "failed"]
    PROVE  /\ r \in Row /\ Keeps(r, b) /\ r.tl = b.tl
           /\ r.orch.held = b.orch.held /\ r.refund = b.refund
<1> DEFINE orch == [b.orch EXCEPT !.wstatus = "failed"]
<1>1. orch \in Orchestrator /\ orch.wd = b.orch.wd /\ orch.held = b.orch.held
  BY DEF Row, Orchestrator
<1> HIDE DEF orch
<1> QED
  BY <1>1 DEF Row, Statuses, Keeps, orch

\* A row with another status.
LEMMA StatusRow ==
    ASSUME NEW b \in Row, NEW s \in Statuses, NEW r, r = [b EXCEPT !.status = s]
    PROVE  /\ r \in Row /\ Keeps(r, b) /\ r.status = s /\ r.tl = b.tl /\ r.orch = b.orch
           /\ r.refund = b.refund
  BY DEF Row, Keeps

\* A request about a row that keeps its payout and its fee, held back or not.
LEMMA GuardedStep ==
    ASSUME TypeOK, NEW p \in Handlers, RowInv(p), NEW r \in Row, Keeps(r, row),
           NEW cols \in SUBSET Columns, NEW then \in {"idle", "advance", "fee"},
           Goto(p, Update(r, cols, then)),
           "tl" \notin cols => r.tl = row.tl, "orch" \notin cols => r.orch = row.orch,
           "refund" \notin cols => r.refund = row.refund,
           r.orch.held = row.orch.held,
           handler[p].pc = "idle", UNCHANGED <<row, feePayout, faults>>,
           <<"fee.successful", None>> \in claimed' => <<"fee.successful", None>> \in claimed
    PROVE  RowInv(p)'
<1>1. row \in Row /\ PointersInv(row)
  BY StartRow
<1>2. PICK g : g = Guarded(r, row)
  OBVIOUS
<1>3. Takes(p, g)
  BY <1>2, UpdateTakes DEF Keeps
<1>4. g \in Row /\ Keeps(g, row)
  BY <1>1, <1>2, GuardedRow DEF Keeps
<1> QED
  BY <1>1, <1>3, <1>4, KeepsStep DEF PointersInv, Keeps

\* completeFiatOfframpFromWithdrawal.
LEMMA CompleteFromWithdrawalRow ==
    ASSUME IInv, NEW p \in Handlers, RowInv(p), NEW n \in Payouts,
           NEW kind \in {"withdrawal.funded", "withdrawal.successful"},
           NEW stage \in {"funded", "paid"}, CompleteFromWithdrawal(p, kind, n, stage)
    PROVE  RowInv(p)'
<1>1. /\ TypeOK /\ handler[p].pc = "idle" /\ Claim(p, <<kind, n>>)
      /\ UNCHANGED <<row, payout, feePayout, events, faults>>
  BY DEF CompleteFromWithdrawal, IInv, Claim
<1>2. row \in Row
  BY <1>1, StartRow
<1>3. <<"fee.successful", None>> \in claimed' <=> <<"fee.successful", None>> \in claimed
  BY <1>1 DEF Claim
<1>4. CASE Matches(row, n) /\ AcceptsCompletion(row, stage)
  <2> PICK r : r = PayoutReported(row, stage)
    OBVIOUS
  <2> PICK then : then = IF row.status = "COMPLETED" THEN "idle" ELSE "fee"
    OBVIOUS
  <2>1. Goto(p, Update(r, {"tl", "orch"}, then))
    BY <1>4 DEF CompleteFromWithdrawal, Run, Goto
  <2>2. r \in Row /\ Keeps(r, row) /\ r.orch.held = row.orch.held /\ r.refund = row.refund
    BY <1>2, ReportedRow
  <2> QED
    BY <1>1, <1>3, <2>1, <2>2, GuardedStep DEF Columns
<1>5. CASE ~(Matches(row, n) /\ AcceptsCompletion(row, stage))
  <2>1. UNCHANGED handler
    BY <1>5 DEF CompleteFromWithdrawal
  <2> QED
    BY <1>1, <1>3, <2>1, IgnoredStep
<1> QED
  BY <1>4, <1>5

\* withdrawal.failed, of a row that is completed or is to fail.
LEMMA WithdrawalFailedRow ==
    ASSUME IInv, NEW p \in Handlers, RowInv(p), NEW n \in Payouts, WithdrawalFailed(p, n)
    PROVE  RowInv(p)'
<1>1. /\ TypeOK /\ handler[p].pc = "idle" /\ Claim(p, <<"withdrawal.failed", n>>)
      /\ UNCHANGED <<row, payout, feePayout, events, faults>>
  BY DEF WithdrawalFailed, IInv, Claim
<1>2. row \in Row
  BY <1>1, StartRow
<1>3. <<"fee.successful", None>> \in claimed' <=> <<"fee.successful", None>> \in claimed
  BY <1>1 DEF Claim
<1>4. CASE Matches(row, n) /\ row.status = "COMPLETED" /\ row.orch.wstatus = "funded"
  <2> PICK r : r = [row EXCEPT !.orch.wstatus = "failed_after_funding"]
    OBVIOUS
  <2>1. Goto(p, Update(r, {"tl", "orch"}, "idle"))
    BY <1>4 DEF WithdrawalFailed, FailedAfterFunding, CompletableStatuses, Run, Goto
  <2>2. r \in Row /\ Keeps(r, row) /\ r.orch.held = row.orch.held /\ r.refund = row.refund
    BY <1>2, AfterFundingRow
  <2> QED
    BY <1>1, <1>3, <2>1, <2>2, GuardedStep DEF Columns
<1>5. CASE Matches(row, n) /\ row.status \in CompletableStatuses
  <2> PICK r : r = [row EXCEPT !.status = "FAILED", !.orch.wstatus = "failed"]
    OBVIOUS
  <2>1. Goto(p, Update(r, {"orch"}, "idle"))
    BY <1>5 DEF WithdrawalFailed, FailedPayout, CompletableStatuses, Run, Goto
  <2>2. /\ r \in Row /\ Keeps(r, row) /\ r.tl = row.tl
        /\ r.orch.held = row.orch.held /\ r.refund = row.refund
    BY <1>2, FailedRow
  <2> QED
    BY <1>1, <1>3, <2>1, <2>2, GuardedStep DEF Columns
<1>6. CASE /\ ~(Matches(row, n) /\ row.status = "COMPLETED" /\ row.orch.wstatus = "funded")
           /\ ~(Matches(row, n) /\ row.status \in CompletableStatuses)
  <2>1. UNCHANGED handler
    BY <1>6 DEF WithdrawalFailed
  <2> QED
    BY <1>1, <1>3, <2>1, IgnoredStep
<1> QED
  BY <1>4, <1>5, <1>6

\* provisioned_account.* sets the status only.
LEMMA AccountProvisionedRow ==
    ASSUME IInv, NEW p \in Handlers, RowInv(p), NEW kind \in ProvisionEvents,
           AccountProvisioned(p, kind)
    PROVE  RowInv(p)'
<1>1. /\ TypeOK /\ handler[p].pc = "idle" /\ Claim(p, <<kind, None>>)
      /\ UNCHANGED <<row, payout, feePayout, events, faults>>
  BY DEF AccountProvisioned, IInv, Claim
<1>2. row \in Row
  BY <1>1, StartRow
<1>3. <<"fee.successful", None>> \in claimed' <=> <<"fee.successful", None>> \in claimed
  BY <1>1 DEF Claim, ProvisionEvents
<1>4. CASE row.status \in ProvisionableStatuses
  <2>s. PICK s : s = ProvisionedStatus(kind, row.status)
    OBVIOUS
  <2>r. PICK r : r = [row EXCEPT !.status = s]
    OBVIOUS
  <2>1. Goto(p, Update(r, {"orch"}, "idle"))
    BY <1>4, <2>s, <2>r DEF AccountProvisioned, Run, Goto
  <2>2. s \in Statuses
    BY <1>4, <2>s DEF ProvisionedStatus, ProvisionEvents, ProvisionableStatuses, Statuses
  <2>3. /\ r \in Row /\ Keeps(r, row) /\ r.tl = row.tl /\ r.orch = row.orch
        /\ r.refund = row.refund
    BY <1>2, <2>2, <2>r, StatusRow
  <2> QED
    BY <1>1, <1>3, <2>1, <2>3, GuardedStep DEF Columns
<1>5. CASE row.status \notin ProvisionableStatuses
  <2>1. UNCHANGED handler
    BY <1>5 DEF AccountProvisioned
  <2> QED
    BY <1>1, <1>3, <2>1, IgnoredStep
<1> QED
  BY <1>4, <1>5

\* The lazy expiry sets the status only.
LEMMA ExpireRow ==
    ASSUME IInv, NEW p \in Handlers, RowInv(p), Expire(p)
    PROVE  RowInv(p)'
<1>1. /\ TypeOK /\ handler[p].pc = "idle"
      /\ UNCHANGED <<row, payout, feePayout, events, claimed, faults>>
  BY DEF Expire, IInv, Run
<1>2. row \in Row
  BY <1>1, StartRow
<1> PICK r : r = [row EXCEPT !.status = "EXPIRED"]
  OBVIOUS
<1>3. Goto(p, Update(r, {}, "idle"))
  BY DEF Expire, Run, Goto
<1>4. /\ r \in Row /\ Keeps(r, row) /\ r.tl = row.tl /\ r.orch = row.orch
      /\ r.refund = row.refund
  BY <1>2, StatusRow DEF Statuses
<1> QED
  BY <1>1, <1>3, <1>4, GuardedStep DEF Columns

\* cancelOfframp sets the status and the refund.
LEMMA CancelRow ==
    ASSUME IInv, NEW p \in Handlers, RowInv(p), Cancel(p)
    PROVE  RowInv(p)'
<1>1. /\ TypeOK /\ handler[p].pc = "idle"
      /\ UNCHANGED <<row, payout, feePayout, events, claimed, faults>>
  BY DEF Cancel, IInv, Run
<1>2. row \in Row
  BY <1>1, StartRow
<1> PICK r : r = [row EXCEPT !.status = "CANCELLED", !.refund = TRUE]
  OBVIOUS
<1>3. Goto(p, Update(r, {"tl", "refund"}, "idle"))
  BY DEF Cancel, Run, Goto
<1>4. r \in Row /\ Keeps(r, row) /\ r.orch = row.orch
  BY <1>2 DEF Row, Statuses, Keeps
<1> QED
  BY <1>1, <1>3, <1>4, GuardedStep DEF Columns

\* An operator's mark stores what it asks for, and passes all of providerRefs.
LEMMA MarkTakes ==
    ASSUME TypeOK, NEW p \in Handlers, NEW r \in Row, NEW cols \in SUBSET Columns,
           NEW force \in BOOLEAN, NEW then \in {"idle", "fee"},
           Mark(p, r, cols, force, then), UNCHANGED row, "orch" \in cols,
           "tl" \notin cols => r.tl = row.tl,
           "refund" \notin cols => r.refund = row.refund,
           "fee" \notin cols => r.fee = row.fee,
           r.orch.held = row.orch.held
    PROVE  /\ force => Takes(p, r)
           /\ ~force => Takes(p, Guarded(r, row))
<1> DEFINE u == Update(r, cols, then)
           new == [u.new EXCEPT !.orch = [u.new.orch EXCEPT !.held = r.orch.held]]
           h == [u EXCEPT !.new = new, !.force = force]
<1>1. handler'[p] = h /\ handler[p].pc = "idle" /\ row \in Row
  BY DEF Mark, Run, TypeOK
<1>2. u \in Handler /\ u.new \in Row /\ u.pc = "update" /\ u.sets = cols
  <2>1. u \in Handler /\ u.pc = "update" /\ u.sets = cols
    BY UpdateType DEF Update
  <2> QED
    BY <2>1 DEF Handler
<1>3. u.new.orch = [r.orch EXCEPT !.held = FALSE] /\ r.orch \in Orchestrator
  BY DEF Update, Row
<1>4. [u.new.orch EXCEPT !.held = r.orch.held] = r.orch
  BY <1>3 DEF Orchestrator
<1>5. /\ u.new.status = r.status
      /\ "tl" \in cols => u.new.tl = r.tl
      /\ "refund" \in cols => u.new.refund = r.refund
      /\ "fee" \in cols => u.new.fee = r.fee
  <2>1. "refund" \in cols => u.new.refund = r.refund
    BY DEF Update, Row
  <2> QED
    BY <2>1 DEF Update
<1> HIDE DEF u
<1>6. new = [u.new EXCEPT !.orch = r.orch]
  BY <1>4
<1> HIDE DEF new
<1>7. /\ new \in Row /\ new.status = u.new.status /\ new.tl = u.new.tl
      /\ new.orch = r.orch /\ new.refund = u.new.refund /\ new.fee = u.new.fee
  BY <1>2, <1>3, <1>6 DEF Row
<1>8. h \in Handler /\ h.new = new /\ h.pc = "update" /\ h.sets = cols /\ h.force = force
  BY <1>2, <1>7 DEF Handler
<1> HIDE DEF h
<1>9. Makes(h, r, row)
  BY <1>5, <1>7, <1>8 DEF Makes
<1>10. Stored(row, Decided(h, row)) = IF h.force THEN r ELSE Guarded(r, row)
  BY <1>1, <1>8, <1>9, StoresGuarded
<1>11. Coming(p) = row /\ Coming(p)' = IF h.force THEN r ELSE Guarded(r, row)
  BY <1>1, <1>8, <1>10 DEF Coming
<1> QED
  BY <1>1, <1>8, <1>11 DEF Takes

\* An operator's mark leaves the payout and the fee alone.
LEMMA MarkRow ==
    ASSUME IInv, NEW p \in Handlers, RowInv(p), NEW g \in Row, Takes(p, g), Keeps(g, row),
           handler[p].pc = "idle", UNCHANGED <<payout, feePayout, events, claimed, faults>>
    PROVE  RowInv(p)'
<1>1. TypeOK /\ PointersInv(row)
  BY StartRow DEF IInv
<1> QED
  BY <1>1, KeepsStep DEF Keeps, PointersInv

\* The operator's mark as successful.
LEMMA MarkSuccessRow ==
    ASSUME IInv, NEW p \in Handlers, RowInv(p), MarkSuccess(p)
    PROVE  RowInv(p)'
<1>1. /\ TypeOK /\ handler[p].pc = "idle" /\ row \in Row
      /\ UNCHANGED <<row, payout, feePayout, events, claimed, faults>>
  BY DEF MarkSuccess, IInv, Mark, Run, TypeOK
<1> DEFINE tl == [row.tl EXCEPT !.paid = TRUE]
           orch == [row.orch EXCEPT !.wstatus = "successful", !.manual = TRUE]
<1>r. PICK g : g = [row EXCEPT !.status = "COMPLETED", !.tl = tl, !.orch = orch]
  OBVIOUS
<1>2. Mark(p, g, {"tl", "orch"}, FALSE, "fee")
  BY <1>r DEF MarkSuccess
<1>3. tl \in Timeline /\ tl.wd = row.tl.wd
  BY <1>1 DEF Row, Timeline
<1>4. orch \in Orchestrator /\ orch.wd = row.orch.wd /\ orch.held = row.orch.held
  BY <1>1 DEF Row, Orchestrator
<1> HIDE DEF tl, orch
<1>5. /\ g \in Row /\ Keeps(g, row) /\ g.status = "COMPLETED"
      /\ g.orch.held = row.orch.held /\ g.refund = row.refund
  BY <1>1, <1>3, <1>4, <1>r DEF Row, Statuses, Keeps
<1>6. Guarded(g, row) = g
  BY <1>5 DEF Guarded, BlocksTransition, AutoFailStatuses
<1>7. Takes(p, Guarded(g, row))
  <2> DEFINE cols == {"tl", "orch"}
  <2>1. /\ cols \in SUBSET Columns /\ "tl" \in cols /\ "orch" \in cols
        /\ g.refund = row.refund /\ g.fee = row.fee
    BY <1>5 DEF Columns, Keeps
  <2>2. Mark(p, g, cols, FALSE, "fee")
    BY <1>2
  <2> HIDE DEF cols
  <2> QED
    BY <1>1, <1>5, <2>1, <2>2, MarkTakes
<1> QED
  BY <1>1, <1>5, <1>6, <1>7, MarkRow

\* The operator's mark as failed, which nothing holds back.
LEMMA MarkFailedRow ==
    ASSUME IInv, NEW p \in Handlers, RowInv(p), MarkFailed(p)
    PROVE  RowInv(p)'
<1>1. /\ TypeOK /\ handler[p].pc = "idle" /\ row \in Row
      /\ UNCHANGED <<row, payout, feePayout, events, claimed, faults>>
  BY DEF MarkFailed, IInv, Mark, Run, TypeOK
<1> DEFINE orch == [row.orch EXCEPT !.wstatus = "failed", !.manual = TRUE]
<1>r. PICK g : g = [row EXCEPT !.status = "FAILED", !.orch = orch]
  OBVIOUS
<1>2. Mark(p, g, {"orch"}, TRUE, "idle")
  BY <1>r DEF MarkFailed
<1>3. orch \in Orchestrator /\ orch.wd = row.orch.wd /\ orch.held = row.orch.held
  BY <1>1 DEF Row, Orchestrator
<1> HIDE DEF orch
<1>4. /\ g \in Row /\ Keeps(g, row) /\ g.status = "FAILED" /\ g.tl = row.tl
      /\ g.orch.held = row.orch.held /\ g.refund = row.refund
  BY <1>1, <1>3, <1>r DEF Row, Statuses, Keeps
<1>5. Takes(p, g)
  BY <1>1, <1>2, <1>4, MarkTakes DEF Columns, Keeps
<1> QED
  BY <1>1, <1>4, <1>5, MarkRow

-----------------------------------------------------------------------------
(* The steps that ask the LP for a payout. *)

\* An accepted handoff attaches a row, CRYPTO_CONFIRMED until then, to payout 1.
LEMMA PayoutAcceptedRow ==
    ASSUME IInv, NEW p \in Handlers, RowInv(p), PayoutAccepted(p)
    PROVE  RowInv(p)'
<1>1. /\ TypeOK /\ handler[p].pc = "payout" /\ Mints(1)
      /\ handler[p].new = row /\ row.status = "CRYPTO_CONFIRMED" /\ row.tl.wd = None
      /\ UNCHANGED <<row, feePayout, events, claimed, faults>>
  BY DEF PayoutAccepted, IInv, RowInv, FreshCopy, Mints
<1>2. row \in Row
  BY <1>1, StartRow
<1> DEFINE tl == [row.tl EXCEPT !.wd = 1]
           orch == [row.orch EXCEPT !.wd = 1, !.wstatus = "pending"]
<1>r. PICK g : g = [row EXCEPT !.status = "FIAT_PENDING", !.tl = tl, !.orch = orch]
  OBVIOUS
<1>3. Goto(p, Update(g, {"tl", "orch"}, "idle"))
  BY <1>1, <1>r DEF PayoutAccepted
<1>0. 1 \in PayoutId /\ row.tl \in Timeline /\ row.orch \in Orchestrator
  BY <1>2, BoundsAssumption DEF Row
<1>4. tl \in Timeline /\ tl.wd = 1
  BY <1>0 DEF Timeline
<1>5. orch \in Orchestrator /\ orch.wd = 1 /\ orch.held = row.orch.held
  BY <1>0 DEF Orchestrator
<1> HIDE DEF tl, orch
<1>6. /\ g \in Row /\ g.status = "FIAT_PENDING" /\ g.tl.wd = 1 /\ g.orch.wd = 1
      /\ g.refund = row.refund /\ g.fee = row.fee
      /\ g.orch.held = row.orch.held
  BY <1>2, <1>4, <1>5, <1>r DEF Row, Statuses
<1>7. Takes(p, g)
  <2>1. Takes(p, Guarded(g, row))
    BY <1>1, <1>3, <1>6, UpdateTakes DEF Columns
  <2> QED
    BY <1>6, <2>1 DEF Guarded, BlocksTransition, AutoFailStatuses
<1> QED
  BY <1>1, <1>6, <1>7, KeepsStep DEF PointersInv

\* A handoff refused, or whose answer is lost, leaves the row as it was read.
LEMMA PayoutRefusedRow ==
    ASSUME IInv, NEW p \in Handlers, RowInv(p),
           PayoutRefused(p) \/ PayoutAnswerLost(p)
    PROVE  RowInv(p)'
<1>1. /\ TypeOK /\ handler[p].pc = "payout"
      /\ handler[p].new = row /\ row.status = "CRYPTO_CONFIRMED" /\ row.tl.wd = None
      /\ UNCHANGED <<row, feePayout, events, claimed>>
      /\ UNCHANGED <<payout, faults>> \/ faults' = faults + 1
      /\ Goto(p, Update(row, {"tl", "orch"}, "idle"))
  BY DEF PayoutRefused, PayoutAnswerLost, IInv, RowInv, FreshCopy
<1>2. row \in Row /\ PointersInv(row)
  BY <1>1, StartRow
<1>r. PICK g : g = row
  OBVIOUS
<1>3. Takes(p, g)
  <2>1. Takes(p, Guarded(row, row))
    BY <1>1, <1>2, UpdateTakes DEF Columns
  <2> QED
    BY <1>1, <1>r, <2>1 DEF Guarded, BlocksTransition, AutoFailStatuses
<1>4. faults' = 0 => faults = 0
  BY <1>1, BoundsAssumption DEF TypeOK
<1> QED
  BY <1>1, <1>2, <1>3, <1>4, <1>r, KeepsStep

\* A reissue attaches the row to the payout that follows the failed one.
LEMMA ReissueAcceptedRow ==
    ASSUME IInv, NEW p \in Handlers, RowInv(p), ReissueAccepted(p)
    PROVE  RowInv(p)'
<1> DEFINE n == handler[p].wd + 1
<1>1. /\ TypeOK /\ handler[p].pc = "reissue" /\ Mints(n)
      /\ handler[p].new = row /\ AttachedWithdrawal(row) = handler[p].wd
      /\ UNCHANGED <<row, feePayout, events, claimed, faults>>
  BY DEF ReissueAccepted, IInv, RowInv, FreshCopy, Mints
<1>2. row \in Row
  BY <1>1, StartRow
<1>3. n \in Payouts
  BY <1>1, ReissuingHandler
<1> DEFINE tl == [row.tl EXCEPT !.wd = n, !.paid = FALSE]
           orch == [row.orch EXCEPT !.wd = n, !.wstatus = "pending", !.manual = FALSE]
<1>r. PICK g : g = [row EXCEPT !.status = "FIAT_PENDING", !.tl = tl, !.orch = orch]
  OBVIOUS
<1>6. Goto(p, Update(g, {"tl", "orch"}, "idle"))
  BY <1>1, <1>r DEF ReissueAccepted
<1> HIDE DEF n
<1>7. tl \in Timeline /\ tl.wd = n
  BY <1>2, <1>3 DEF Row, Timeline
<1>8. orch \in Orchestrator /\ orch.wd = n /\ orch.held = row.orch.held
  BY <1>2, <1>3 DEF Row, Orchestrator
<1> HIDE DEF tl, orch
<1>9. /\ g \in Row /\ g.status = "FIAT_PENDING" /\ g.tl.wd = n /\ g.orch.wd = n
      /\ g.refund = row.refund /\ g.fee = row.fee
      /\ g.orch.held = row.orch.held
  BY <1>2, <1>7, <1>8, <1>r DEF Row, Statuses
<1>10. Takes(p, g)
  <2>1. Takes(p, Guarded(g, row))
    BY <1>1, <1>6, <1>9, UpdateTakes DEF Columns
  <2> QED
    BY <1>9, <2>1 DEF Guarded, BlocksTransition, AutoFailStatuses
<1> QED
  BY <1>1, <1>9, <1>10, KeepsStep DEF PointersInv

-----------------------------------------------------------------------------
(* The platform fee. *)

\* Only the fee of a row changes, and its status.
LEMMA FeeStoredRow ==
    ASSUME IInv, NEW p \in Handlers, RowInv(p), NEW g \in Row, Takes(p, g),
           g.tl = row.tl, g.orch = row.orch, FeeInv(p)',
           handler[p].pc \notin {"update", "write"}
    PROVE  RowInv(p)'
<1>1. TypeOK /\ PointersInv(row)
  BY StartRow DEF IInv
<1> QED
  BY <1>1, TakesStep DEF PointersInv

\* A row with another settlement of its fee.
LEMMA FeeRow ==
    ASSUME NEW b \in Row, NEW s \in FeeStatuses, NEW g, g = [b EXCEPT !.fee = s]
    PROVE  /\ g \in Row /\ g.fee = s /\ g.status = b.status
           /\ g.tl = b.tl /\ g.orch = b.orch /\ g.refund = b.refund
  BY DEF Row

\* A fee s is stored for a completed row.
LEMMA FeeTakes ==
    ASSUME TypeOK, NEW p \in Handlers, NEW s \in FeeStatuses, row.status = "COMPLETED",
           Goto(p, Update([row EXCEPT !.fee = s], {"fee"}, "idle")), UNCHANGED row,
           handler[p].pc \notin {"update", "write"},
           NEW g, g = [row EXCEPT !.fee = s]
    PROVE  Takes(p, g)
<1>1. row \in Row
  BY DEF TypeOK
<1>2. /\ g \in Row /\ g.fee = s /\ g.status = row.status
      /\ g.tl = row.tl /\ g.orch = row.orch /\ g.refund = row.refund
  BY <1>1, FeeRow
<1>3. Takes(p, Guarded(g, row))
  BY <1>2, UpdateTakes DEF Columns
<1> QED
  BY <1>2, <1>3 DEF Guarded, BlocksTransition, AutoFailStatuses

\* A completed row without a fee has no withdrawal of it under way.
LEMMA FeeQueueRow ==
    ASSUME IInv, NEW p \in Handlers, RowInv(p), FeeQueue(p), NEW s \in FeeChecks,
           row.status = "COMPLETED", row.fee = "none",
           Goto(p, Update([row EXCEPT !.fee = s], {"fee"}, "idle"))
    PROVE  RowInv(p)'
<1>1. /\ TypeOK /\ row \in Row /\ handler[p].pc = "fee" /\ Coming(p) = row
      /\ UNCHANGED <<row, payout, feePayout, events, claimed, faults>>
  BY DEF FeeQueue, IInv, TypeOK, Coming
<1>2. s \in FeeStatuses
  BY FeeAssumption DEF FeeStatuses
<1>r. PICK g : g = [row EXCEPT !.fee = s]
  OBVIOUS
<1>3. /\ g \in Row /\ g.fee = s /\ g.status = row.status
      /\ g.tl = row.tl /\ g.orch = row.orch /\ g.refund = row.refund
  BY <1>1, <1>2, <1>r, FeeRow
<1>4. Takes(p, g)
  BY <1>1, <1>2, <1>r, FeeTakes
<1>5. FeeInv(p)'
  BY <1>1, <1>4 DEF RowInv, FeeInv, Takes
<1> QED
  BY <1>1, <1>3, <1>4, <1>5, FeeStoredRow

\* A fee that is skipped has no withdrawal, or was reported failed.
LEMMA FeeSkippedRow ==
    ASSUME IInv, NEW p \in Handlers, RowInv(p), FeeSkipped(p)
    PROVE  RowInv(p)'
<1>1. /\ TypeOK /\ row \in Row /\ handler[p].pc = "fee_pay" /\ Coming(p) = row
      /\ handler[p].new = row /\ row.status = "COMPLETED" /\ row.fee \in {"pending", "failed"}
      /\ UNCHANGED <<row, payout, feePayout, events, claimed, faults>>
      /\ Goto(p, Update([row EXCEPT !.fee = "skipped"], {"fee"}, "idle"))
  BY DEF FeeSkipped, IInv, TypeOK, Coming, RowInv, FreshCopy
<1>2. "skipped" \in FeeStatuses
  BY DEF FeeStatuses
<1>r. PICK g : g = [row EXCEPT !.fee = "skipped"]
  OBVIOUS
<1>3. /\ g \in Row /\ g.fee = "skipped" /\ g.status = row.status
      /\ g.tl = row.tl /\ g.orch = row.orch /\ g.refund = row.refund
  BY <1>1, <1>2, <1>r, FeeRow
<1>4. Takes(p, g)
  BY <1>1, <1>2, <1>r, FeeTakes
<1>5. FeeInv(p)'
  BY <1>1, <1>4 DEF RowInv, FeeInv, Takes
<1> QED
  BY <1>1, <1>3, <1>4, <1>5, FeeStoredRow

\* The lookup finds the withdrawal that is under way.
LEMMA FeeLookupRow ==
    ASSUME IInv, NEW p \in Handlers, RowInv(p), FeeLookup(p)
    PROVE  RowInv(p)'
<1>1. /\ TypeOK /\ row \in Row /\ handler[p].pc = "fee_lookup" /\ Coming(p) = row
      /\ handler[p].new = [row EXCEPT !.fee = handler[p].new.fee]
      /\ row.status = "COMPLETED" /\ row.fee \in {"pending", "failed"}
      /\ handler[p].new.fee \in FeeStatuses
      /\ UNCHANGED <<row, payout, feePayout, events, claimed, faults>>
  BY DEF FeeLookup, IInv, TypeOK, Coming, RowInv, FreshCopy, Handler, Row
<1>2. PICK s \in {handler[p].new.fee} \union {FeeStatus(x) : x \in {feePayout} \ {"none"}} :
         Goto(p, Update([handler[p].new EXCEPT !.fee = s], {"fee"}, "idle"))
  BY DEF FeeLookup
<1>3. s \in FeeStatuses
  BY <1>1 DEF FeeStatus, FeeStatuses
<1>4. [handler[p].new EXCEPT !.fee = s] = [row EXCEPT !.fee = s]
  <2> DEFINE f == handler[p].new.fee
  <2>1. handler[p].new = [row EXCEPT !.fee = f]
    BY <1>1
  <2> HIDE DEF f
  <2>2. [[row EXCEPT !.fee = f] EXCEPT !.fee = s] = [row EXCEPT !.fee = s]
    BY <1>1 DEF Row
  <2> QED
    BY <2>1, <2>2
<1>r. PICK g : g = [row EXCEPT !.fee = s]
  OBVIOUS
<1>5. /\ g \in Row /\ g.fee = s /\ g.status = row.status
      /\ g.tl = row.tl /\ g.orch = row.orch /\ g.refund = row.refund
  BY <1>1, <1>3, <1>r, FeeRow
<1>6. Takes(p, g)
  BY <1>1, <1>2, <1>3, <1>4, <1>r, FeeTakes
<1>7. FeeInv(p)'
  <2>1. /\ faults = 0 /\ feePayout \in {"pending", "successful"}
              => handler[p].new.fee \in {"processing", "completed"}
        /\ faults = 0 => <<"fee.successful", None>> \notin claimed
    BY <1>1 DEF RowInv, FeeInv
  <2>2. faults = 0 /\ feePayout \in {"pending", "successful"}
           => s \in {"processing", "completed"}
    BY <1>2, <2>1 DEF FeeStatus
  <2> QED
    BY <1>1, <1>5, <1>6, <2>1, <2>2 DEF FeeInv, Takes
<1> QED
  BY <1>1, <1>5, <1>6, <1>7, FeeStoredRow

\* The report on the fee finds it on record as under way.
LEMMA FeeReportedRow ==
    ASSUME IInv, ReportsAreTrue, NEW p \in Handlers, RowInv(p),
           NEW kind \in {"fee.successful", "fee.failed"}, FeeReported(p, kind)
    PROVE  RowInv(p)'
<1>1. /\ TypeOK /\ handler[p].pc = "idle" /\ Claim(p, <<kind, None>>)
      /\ UNCHANGED <<row, payout, feePayout, events, faults>>
  BY DEF FeeReported, IInv, Claim
<1>2. row \in Row /\ Coming(p) = row
  BY <1>1, StartRow
<1>3. /\ faults = 0 /\ feePayout \in {"pending", "successful"}
            => row.fee \in {"processing", "completed"}
      /\ faults = 0 /\ <<"fee.successful", None>> \in claimed => row.fee = "completed"
      /\ kind = "fee.successful" => feePayout = "successful"
      /\ kind = "fee.failed" => feePayout = "failed"
      /\ <<"fee.successful", None>> \in claimed => feePayout = "successful"
  BY <1>1, <1>2 DEF RowInv, FeeInv, ReportsAreTrue, Claim, TypeOK
<1>4. <<"fee.successful", None>> \in claimed'
        => <<"fee.successful", None>> \in claimed \/ kind = "fee.successful"
  BY <1>1 DEF Claim
<1>5. CASE row.fee \in {"processing", "failed"}
  <2>s. PICK s : s = IF kind = "fee.successful" THEN "completed" ELSE "failed"
    OBVIOUS
  <2>r. PICK g : g = [row EXCEPT !.status = "COMPLETED", !.fee = s]
    OBVIOUS
  <2>1. Goto(p, Update(g, {"fee"}, "idle"))
    BY <1>5, <2>s, <2>r DEF FeeReported, Run, Goto
  <2>2. s \in FeeStatuses
    BY <2>s DEF FeeStatuses
  <2>3. /\ g \in Row /\ g.fee = s /\ g.status = "COMPLETED"
        /\ g.tl = row.tl /\ g.orch = row.orch /\ g.refund = row.refund
    BY <1>2, <2>2, <2>r DEF Row, Statuses
  <2>4. Takes(p, g)
    <3>1. Takes(p, Guarded(g, row))
      BY <1>1, <2>1, <2>3, UpdateTakes DEF Columns
    <3> QED
      BY <2>3, <3>1 DEF Guarded, BlocksTransition, AutoFailStatuses
  <2>5. FeeInv(p)'
    BY <1>1, <1>3, <1>4, <2>3, <2>4, <2>s DEF FeeInv, Takes
  <2> QED
    BY <1>1, <1>4, <2>3, <2>4, <2>5, FeeStoredRow
<1>6. CASE row.fee \notin {"processing", "failed"}
  <2>1. UNCHANGED handler
    BY <1>6 DEF FeeReported
  <2>2. <<"fee.successful", None>> \in claimed' => (faults = 0 => row.fee = "completed")
    BY <1>1, <1>3, <1>4, <1>6
  <2> QED
    BY <1>1, <2>1, <2>2, IgnoredStep
<1> QED
  BY <1>5, <1>6

-----------------------------------------------------------------------------
(* The steps that decide nothing about the row. *)

\* A step that neither changes the row nor prepares to.
LEMMA RowRests ==
    ASSUME TypeOK, NEW p \in Handlers, RowInv(p), UNCHANGED <<row, feePayout, claimed>>,
           handler[p].pc \notin {"update", "write", "fee_lookup"},
           handler'[p].pc \notin {"update", "write", "fee_lookup"},
           faults' = 0 => faults = 0, FreshCopy(p)'
    PROVE  RowInv(p)'
<1>1. Coming(p) = row /\ Coming(p)' = row
  BY DEF Coming
<1>2. FeeInv(p)'
  BY <1>1 DEF RowInv, FeeInv
<1>3. PointersInv(row)'
  BY <1>1 DEF RowInv, PointersInv
<1> QED
  BY <1>1, <1>2, <1>3 DEF RowInv

\* Requests that only start, or end, or go on to the next read.
LEMMA ReadingRow ==
    ASSUME IInv, NEW p \in Handlers, RowInv(p),
           \/ RetryPayout(p) \/ AdminRetry(p) \/ ApproveFee(p) \/ AdvanceRead(p)
           \/ PayoutNotBuilt(p) \/ ReadLPState(p) \/ ReissueRead(p) \/ ReissueRefused(p)
           \/ FeeQueue(p) /\ Goto(p, Idle)
    PROVE  RowInv(p)'
<1>1. /\ TypeOK /\ UNCHANGED <<row, payout, feePayout, claimed, faults>>
      /\ handler \in [Handlers -> Handler] /\ handler[p] \in Handler
  BY DEF IInv, TypeOK, RetryPayout, AdminRetry, ApproveFee, AdvanceRead, PayoutNotBuilt,
         ReadLPState, ReissueRead, ReissueRefused, FeeQueue
<1>2. handler[p].pc \in {"idle", "advance", "payout", "lp_state", "reissue_read", "reissue", "fee"}
  BY DEF RetryPayout, AdminRetry, ApproveFee, AdvanceRead, PayoutNotBuilt,
         ReadLPState, ReissueRead, ReissueRefused, FeeQueue, Run
<1>3. CASE RetryPayout(p) \/ AdminRetry(p) \/ ReadLPState(p) \/ PayoutNotBuilt(p)
           \/ ReissueRefused(p) \/ (FeeQueue(p) /\ Goto(p, Idle))
  <2>1. handler'[p].pc \in {"idle", "advance", "lp_state", "reissue_read"}
    <3>1. CASE RetryPayout(p)
      BY <1>1, <3>1 DEF RetryPayout, Run, Idle
    <3>2. CASE AdminRetry(p)
      BY <1>1, <3>2 DEF AdminRetry, Run, Idle
    <3>3. CASE ReadLPState(p)
      <4>1. PICK h : h = [handler[p] EXCEPT !.pc = "reissue_read"]
        OBVIOUS
      <4>2. h.pc = "reissue_read"
        BY <1>1, <4>1 DEF Handler
      <4>3. handler' = [handler EXCEPT ![p] = h] \/ handler' = [handler EXCEPT ![p] = Idle]
        BY <3>3, <4>1 DEF ReadLPState, Goto
      <4> QED
        BY <1>1, <4>2, <4>3 DEF Idle
    <3>4. CASE PayoutNotBuilt(p) \/ ReissueRefused(p) \/ (FeeQueue(p) /\ Goto(p, Idle))
      BY <1>1, <3>4 DEF PayoutNotBuilt, ReissueRefused, Goto, Idle
    <3> QED
      BY <1>3, <3>1, <3>2, <3>3, <3>4
  <2>2. FreshCopy(p)'
    BY <2>1 DEF FreshCopy
  <2> QED
    BY <1>1, <1>2, <2>1, <2>2, RowRests
<1>4. CASE ApproveFee(p)
  <2>1. /\ handler'[p].pc = "fee_pay" /\ handler'[p].new = row
        /\ row.status = "COMPLETED" /\ row.fee \in {"pending", "failed"}
    BY <1>1, <1>4 DEF ApproveFee, Run, Idle
  <2>2. FreshCopy(p)'
    BY <1>1, <2>1 DEF FreshCopy
  <2> QED
    BY <1>1, <1>2, <2>1, <2>2, RowRests
<1>5. CASE AdvanceRead(p)
  <2>1. \/ handler'[p].pc = "idle"
        \/ /\ handler'[p].pc = "payout" /\ handler'[p].new = row
           /\ row.status = "CRYPTO_CONFIRMED" /\ row.tl.wd = None
    <3> DEFINE h == [Idle EXCEPT !.pc = "payout", !.new = row]
    <3>1. h.pc = "payout" /\ h.new = row
      BY DEF Idle
    <3> HIDE DEF h
    <3>2. CASE row.status = "CRYPTO_CONFIRMED" /\ ~row.tl.paid /\ row.tl.wd = None
      BY <1>1, <1>5, <3>1, <3>2 DEF AdvanceRead, Goto, h
    <3>3. CASE ~(row.status = "CRYPTO_CONFIRMED" /\ ~row.tl.paid /\ row.tl.wd = None)
      BY <1>1, <1>5, <3>3 DEF AdvanceRead, Goto, Idle
    <3> QED
      BY <3>2, <3>3
  <2>2. FreshCopy(p)'
    BY <1>1, <2>1 DEF FreshCopy
  <2> QED
    BY <1>1, <1>2, <2>1, <2>2, RowRests
<1>6. CASE ReissueRead(p)
  <2>1. \/ handler'[p].pc = "idle"
        \/ /\ handler'[p].pc = "reissue" /\ handler'[p].new = row
           /\ AttachedWithdrawal(row) = handler'[p].wd
    <3> DEFINE h == [handler[p] EXCEPT !.pc = "reissue", !.new = row]
    <3>1. h.pc = "reissue" /\ h.new = row /\ h.wd = handler[p].wd
      BY <1>1 DEF Handler
    <3> HIDE DEF h
    <3>2. CASE AttachedWithdrawal(row) = handler[p].wd
      BY <1>1, <1>6, <3>1, <3>2 DEF ReissueRead, Goto, h
    <3>3. CASE AttachedWithdrawal(row) # handler[p].wd
      BY <1>1, <1>6, <3>3 DEF ReissueRead, Goto, Idle
    <3> QED
      BY <3>2, <3>3
  <2>2. FreshCopy(p)'
    BY <1>1, <2>1 DEF FreshCopy, AttachedWithdrawal
  <2> QED
    BY <1>1, <1>2, <2>1, <2>2, RowRests
<1> QED
  BY <1>3, <1>4, <1>5, <1>6

\* Asking the LP for the fee's withdrawal: the answer says that it is under way.
LEMMA FeeCreateRow ==
    ASSUME IInv, NEW p \in Handlers, RowInv(p), FeeCreate(p) \/ FeeAnswerLost(p)
    PROVE  RowInv(p)'
<1>s. PICK s : s = IF FeeCreate(p) THEN FeeStatus(feePayout') ELSE "failed"
  OBVIOUS
<1>1. /\ TypeOK /\ row \in Row /\ handler[p] \in Handler /\ handler[p].pc = "fee_pay"
      /\ handler[p].new = row /\ row.status = "COMPLETED" /\ row.fee \in {"pending", "failed"}
      /\ UNCHANGED <<row, payout, events, claimed>>
      /\ Goto(p, [handler[p] EXCEPT !.pc = "fee_lookup", !.new.fee = s])
      /\ Coming(p) = row /\ faults \in Nat /\ feePayout \in FeePayoutState
  <2>1. /\ TypeOK /\ row \in Row /\ handler[p] \in Handler /\ handler[p].pc = "fee_pay"
        /\ faults \in Nat /\ feePayout \in FeePayoutState
    BY BoundsAssumption DEF FeeCreate, FeeAnswerLost, IInv, TypeOK
  <2>2. /\ handler[p].new = row /\ row.status = "COMPLETED" /\ row.fee \in {"pending", "failed"}
        /\ Coming(p) = row
    BY <2>1 DEF RowInv, FreshCopy, Coming
  <2>3. CASE FeeCreate(p)
    BY <1>s, <2>1, <2>2, <2>3 DEF FeeCreate
  <2>4. CASE ~FeeCreate(p) /\ FeeAnswerLost(p)
    BY <1>s, <2>1, <2>2, <2>4 DEF FeeAnswerLost
  <2> QED
    BY <2>3, <2>4
<1>2. faults' = 0 => FeeCreate(p) /\ faults = 0
  BY <1>1 DEF FeeAnswerLost, FeeCreate
<1>3. s \in FeeStatuses
  BY <1>s DEF FeeStatus, FeeStatuses
<1>4. /\ handler'[p].pc = "fee_lookup" /\ handler'[p].new.fee = s
      /\ handler'[p].new = [row EXCEPT !.fee = s]
  <2>1. handler'[p] = [handler[p] EXCEPT !.pc = "fee_lookup", !.new = [row EXCEPT !.fee = s]]
    BY <1>1 DEF Goto, TypeOK
  <2>2. [row EXCEPT !.fee = s].fee = s
    BY <1>1, <1>3 DEF Row
  <2> DEFINE new == [row EXCEPT !.fee = s]
  <2> HIDE DEF new
  <2>3. handler'[p].pc = "fee_lookup" /\ handler'[p].new = new
    BY <1>1, <2>1 DEF Handler, new
  <2> QED
    BY <2>2, <2>3 DEF new
<1>5. FreshCopy(p)' /\ Coming(p)' = row
  BY <1>1, <1>4 DEF FreshCopy, Coming
<1>6. FeeInv(p)'
  <2> SUFFICES ASSUME faults' = 0
               PROVE  /\ feePayout' \in {"pending", "successful"}
                           => handler'[p].new.fee \in {"processing", "completed"}
                      /\ <<"fee.successful", None>> \notin claimed'
    BY <1>4 DEF FeeInv
  <2>1. <<"fee.successful", None>> \notin claimed'
    BY <1>1, <1>2 DEF RowInv, FeeInv
  <2> QED
    BY <1>2, <1>4, <1>s, <2>1 DEF FeeStatus
<1> QED
  BY <1>1, <1>5, <1>6 DEF RowInv, PointersInv

\* The read of updateOfframpStatus settles what its write will store.
LEMMA UpdateReadRow ==
    ASSUME IInv, NEW p \in Handlers, RowInv(p), UpdateRead(p)
    PROVE  RowInv(p)'
<1> DEFINE x == Decided(handler[p], row)
<1>1. /\ TypeOK /\ row \in Row /\ handler[p] \in Handler /\ handler[p].pc = "update"
      /\ UNCHANGED <<row, payout, feePayout, events, claimed, faults>>
      /\ handler'[p] = [x EXCEPT !.pc = "write"]
  BY DEF UpdateRead, IInv, TypeOK, Goto
<1>2. x \in Handler
  BY <1>1, HeldType, MergedType DEF Decided
<1> HIDE DEF x
<1>3. /\ handler'[p].pc = "write" /\ handler'[p].new = x.new /\ handler'[p].sets = x.sets
  BY <1>1, <1>2 DEF Handler
<1>c. PICK g : g = Coming(p)
  OBVIOUS
<1>4. Coming(p)' = g
  BY <1>1, <1>3, <1>c DEF Coming, Stored, x
<1>5. FreshCopy(p)'
  BY <1>3 DEF FreshCopy
<1>6. PointersInv(row)' /\ PointersInv(g)'
  BY <1>1, <1>c DEF RowInv, PointersInv
<1>7. FeeInv(p)'
  BY <1>1, <1>3, <1>4, <1>c DEF RowInv, FeeInv
<1> QED
  BY <1>4, <1>5, <1>6, <1>7, <1>c DEF RowInv

\* The write of updateOfframpStatus stores it: nobody else has written the row.
LEMMA UpdateWriteRow ==
    ASSUME IInv, NEW p \in Handlers, RowInv(p), UpdateWrite(p)
    PROVE  RowInv(p)'
<1>1. /\ TypeOK /\ row \in Row /\ handler[p] \in Handler /\ handler[p].pc = "write"
      /\ UNCHANGED <<payout, feePayout, events, claimed, faults>>
      /\ row' = Stored(row, handler[p])
      /\ handler'[p] = [Idle EXCEPT !.pc = handler[p].then]
  BY DEF UpdateWrite, IInv, TypeOK, Goto
<1>2. handler'[p].pc \in {"idle", "advance", "fee"}
  BY <1>1 DEF Handler, Idle
<1>c. PICK g : g = Coming(p)
  OBVIOUS
<1>3. row' = g /\ Coming(p)' = g
  BY <1>1, <1>2, <1>c DEF Coming
<1>4. FreshCopy(p)'
  BY <1>2 DEF FreshCopy
<1>5. PointersInv(g)'
  BY <1>1, <1>c DEF RowInv, PointersInv
<1>6. FeeInv(p)'
  BY <1>1, <1>2, <1>3, <1>c DEF RowInv, FeeInv
<1> QED
  BY <1>3, <1>4, <1>5, <1>6, <1>c DEF RowInv

\* A request that dies leaves the row as it is.
LEMMA AbortRow ==
    ASSUME IInv, NEW p \in Handlers, RowInv(p), Abort(p)
    PROVE  RowInv(p)'
<1>1. /\ TypeOK /\ UNCHANGED <<row, payout, feePayout, events, claimed>>
      /\ faults' = faults + 1 /\ faults \in Nat /\ handler'[p] = Idle
  BY BoundsAssumption DEF Abort, IInv, TypeOK, Goto
<1>2. Coming(p)' = row /\ faults' # 0
  BY <1>1 DEF Coming, Idle
<1>3. FreshCopy(p)'
  BY <1>1 DEF FreshCopy, Idle
<1>4. PointersInv(row)'
  BY <1>1 DEF RowInv, PointersInv
<1> QED
  BY <1>1, <1>2, <1>3, <1>4 DEF RowInv, FeeInv

\* The LP settles what has been minted, and takes nothing.
LEMMA LPRow ==
    ASSUME IInv, NEW p \in Handlers, RowInv(p), LP
    PROVE  RowInv(p)'
<1>1. UNCHANGED <<row, handler, claimed, faults>>
  BY DEF LP, LPCredits, LPProvisions, LPFunds, LPPays, LPFails, LPSettlesFee
<1>2. feePayout' \in {"pending", "successful"} => feePayout \in {"pending", "successful"}
  BY DEF LP, LPCredits, LPProvisions, LPFunds, LPPays, LPFails, LPSettlesFee
<1>c. PICK g : g = Coming(p)
  OBVIOUS
<1>3. Coming(p)' = g
  BY <1>1, <1>c DEF Coming
<1>4. FreshCopy(p)'
  BY <1>1 DEF RowInv, FreshCopy
<1>5. PointersInv(row)' /\ PointersInv(g)'
  BY <1>1, <1>c DEF RowInv, PointersInv
<1>6. FeeInv(p)'
  BY <1>1, <1>2, <1>3, <1>c DEF RowInv, FeeInv
<1> QED
  BY <1>3, <1>4, <1>5, <1>6, <1>c DEF RowInv

-----------------------------------------------------------------------------
(* The invariants of a request at a time. *)

\* The LP reports what became of each withdrawal, and a settled one stays so.
LEMMA ReportsStep ==
    ASSUME IInv, ReportsAreTrue, [Next]_vars
    PROVE  ReportsAreTrue'
<1>1. /\ payout \in [Payouts -> PayoutState] /\ events \subseteq Event
  BY DEF IInv, TypeOK
<1>2. CASE LP
  <2>1. ASSUME NEW d \in Deposits, LPCredits(d)
        PROVE  ReportsAreTrue'
    BY <2>1 DEF LPCredits, Emit, ReportsAreTrue
  <2>2. ASSUME NEW kind \in ProvisionEvents, LPProvisions(kind)
        PROVE  ReportsAreTrue'
    BY <2>2 DEF LPProvisions, Emit, ReportsAreTrue, ProvisionEvents
  <2>3. ASSUME NEW n \in Payouts, LPFunds(n)
        PROVE  ReportsAreTrue'
    BY <1>1, <2>3 DEF LPFunds, Emit, ReportsAreTrue
  <2>4. ASSUME NEW n \in Payouts, LPPays(n)
        PROVE  ReportsAreTrue'
    BY <1>1, <2>4 DEF LPPays, Emit, ReportsAreTrue
  <2>5. ASSUME NEW n \in Payouts, LPFails(n)
        PROVE  ReportsAreTrue'
    BY <1>1, <2>5 DEF LPFails, Emit, ReportsAreTrue
  <2>6. CASE LPSettlesFee("successful", "fee.successful")
    BY <2>6 DEF LPSettlesFee, Emit, ReportsAreTrue
  <2>7. CASE LPSettlesFee("failed", "fee.failed")
    BY <2>7 DEF LPSettlesFee, Emit, ReportsAreTrue
  <2> QED
    BY <1>2, <2>1, <2>2, <2>3, <2>4, <2>5, <2>6, <2>7 DEF LP
<1>3. ASSUME UNCHANGED events,
             \A n \in Payouts : payout[n] # "none" => payout'[n] = payout[n],
             feePayout # "none" => feePayout' = feePayout
      PROVE  ReportsAreTrue'
  BY <1>3 DEF ReportsAreTrue
<1>4. ASSUME NEW p \in Handlers, Webhook(p) \/ Request(p) \/ Progress(p) \/ Fault(p)
      PROVE  ReportsAreTrue'
  <2>1. CASE UNCHANGED <<payout, feePayout, events>>
    BY <2>1, <1>3
  <2>2. CASE PayoutAccepted(p) \/ PayoutAnswerLost(p)
    BY <1>1, <1>3, <2>2 DEF PayoutAccepted, PayoutAnswerLost
  <2>3. CASE ReissueAccepted(p)
    BY <1>1, <1>3, <2>3 DEF ReissueAccepted
  <2>4. CASE FeeCreate(p) \/ FeeAnswerLost(p)
    BY <1>3, <2>4 DEF FeeCreate, FeeAnswerLost
  <2>5. CASE Webhook(p)
    BY <2>1, <2>5 DEF Webhook, DepositCredited, FeeReported, AccountProvisioned,
       WithdrawalFunded, WithdrawalSuccessful, CompleteFromWithdrawal, WithdrawalFailed
  <2>6. CASE Request(p)
    BY <2>1, <2>6 DEF Request, Expire, Cancel, RetryPayout, AdminRetry, MarkSuccess,
       MarkFailed, ApproveFee
  <2>7. CASE Progress(p)
    BY <2>1, <2>2, <2>3, <2>4, <2>7 DEF Progress, UpdateRead, UpdateWrite, AdvanceRead,
       PayoutRefused, PayoutNotBuilt, ReadLPState, ReissueRead, ReissueRefused, FeeQueue,
       FeeSkipped, FeeLookup
  <2>8. CASE Fault(p)
    BY <2>1, <2>2, <2>4, <2>8 DEF Fault, Abort
  <2> QED
    BY <1>4, <2>5, <2>6, <2>7, <2>8
<1>5. CASE UNCHANGED vars
  BY <1>3, <1>5 DEF vars
<1> QED
  BY <1>2, <1>4, <1>5 DEF Next

\* Each step of the request p keeps the invariant of the row.
LEMMA RequestRow ==
    ASSUME IInv, ReportsAreTrue, NEW p \in Handlers, RowInv(p),
           Webhook(p) \/ Request(p) \/ Progress(p) \/ Fault(p)
    PROVE  RowInv(p)'
<1>1. CASE Webhook(p)
  <2>1. ASSUME NEW n \in Payouts, WithdrawalFunded(p, n) \/ WithdrawalSuccessful(p, n)
        PROVE  RowInv(p)'
    <3>1. CASE WithdrawalFunded(p, n)
      BY <3>1, CompleteFromWithdrawalRow DEF WithdrawalFunded
    <3>2. CASE WithdrawalSuccessful(p, n)
      BY <3>2, CompleteFromWithdrawalRow DEF WithdrawalSuccessful
    <3> QED
      BY <2>1, <3>1, <3>2
  <2> QED
    BY <1>1, <2>1, DepositCreditedRow, FeeReportedRow, AccountProvisionedRow, WithdrawalFailedRow
       DEF Webhook
<1>2. CASE Request(p)
  BY <1>2, ExpireRow, CancelRow, ReadingRow, MarkSuccessRow, MarkFailedRow DEF Request
<1>3. CASE FeeQueue(p)
  <2>1. \/ Goto(p, Idle)
        \/ /\ row.status = "COMPLETED" /\ row.fee = "none"
           /\ \E s \in FeeChecks : Goto(p, Update([row EXCEPT !.fee = s], {"fee"}, "idle"))
    BY <1>3 DEF FeeQueue
  <2> QED
    BY <1>3, <2>1, ReadingRow, FeeQueueRow
<1>4. CASE Progress(p) /\ ~FeeQueue(p)
  BY <1>4, UpdateReadRow, UpdateWriteRow, ReadingRow, PayoutAcceptedRow, PayoutRefusedRow,
     ReissueAcceptedRow, FeeSkippedRow, FeeCreateRow, FeeLookupRow DEF Progress
<1>5. CASE Fault(p)
  BY <1>5, AbortRow, PayoutRefusedRow, FeeCreateRow DEF Fault
<1> QED
  BY <1>1, <1>2, <1>3, <1>4, <1>5

LEMMA InitRow ==
    ASSUME Init, NEW p \in Handlers
    PROVE  ReportsAreTrue /\ RowInv(p)
<1>1. /\ row = NewRow /\ handler[p] = Idle /\ payout = [n \in Payouts |-> "none"]
      /\ feePayout = "none" /\ events = {} /\ claimed = {} /\ faults = 0
  BY DEF Init
<1>2. Coming(p) = row /\ handler[p].pc = "idle"
  BY <1>1 DEF Coming, Idle
<1>3. PointersInv(row)
  BY <1>1 DEF NewRow, NewTimeline, NewOrchestrator, PointersInv
<1>4. ReportsAreTrue /\ FreshCopy(p) /\ FeeInv(p)
  BY <1>1, <1>2 DEF ReportsAreTrue, FreshCopy, FeeInv
<1> QED
  BY <1>2, <1>3, <1>4 DEF RowInv

LEMMA ReportsInvariance == Spec => []ReportsAreTrue
<1>1. Init => ReportsAreTrue
  BY DEF Init, ReportsAreTrue
<1>2. IInv /\ ReportsAreTrue /\ [Next]_vars => ReportsAreTrue'
  BY ReportsStep
<1> QED
  BY <1>1, <1>2, Invariance, PTL DEF Spec

LEMMA RowInvariance ==
    ASSUME NEW p, Handlers = {p}
    PROVE  Spec => []RowInv(p)
<1>1. Init => RowInv(p)
  BY InitRow
<1>2. IInv /\ ReportsAreTrue /\ RowInv(p) /\ [Next]_vars => RowInv(p)'
  <2>1. SUFFICES ASSUME IInv, ReportsAreTrue, RowInv(p), [Next]_vars
                 PROVE  RowInv(p)'
    OBVIOUS
  <2>2. CASE UNCHANGED vars
    BY <2>1, <2>2 DEF vars, RowInv, FreshCopy, PointersInv, FeeInv, Coming
  <2> QED
    BY <2>1, <2>2, RequestRow, LPRow DEF Next
<1> QED
  BY <1>1, <1>2, Invariance, ReportsInvariance, PTL DEF Spec

\* Where no request is in flight, the row is what is coming.
LEMMA IdleRow ==
    ASSUME NEW p \in Handlers, AllIdle
    PROVE  Coming(p) = row /\ handler[p].pc = "idle"
  BY DEF AllIdle, Coming, Idle

\* While requests do not overlap, the timeline and providerRefs name the same
\* payout, so that webhooks and retries are about the same one.
THEOREM PointersNeverDiffer ==
    ASSUME NEW p, Handlers = {p}
    PROVE  Spec => []PointersAgree
<1>1. RowInv(p) => PointersAgree
  BY DEF RowInv, PointersInv, PointersAgree
<1> QED
  BY <1>1, RowInvariance, PTL

\* While requests do not overlap and none is lost, a platform fee that the LP has
\* reported as paid is on the row as completed.
THEOREM PaidFeeIsRecorded ==
    ASSUME NEW p, Handlers = {p}
    PROVE  Spec => []FeeIsRecorded
<1>1. RowInv(p) => FeeIsRecorded
  <2>1. SUFFICES ASSUME RowInv(p), AllIdle
                 PROVE  FeeIsRecorded
    BY DEF FeeIsRecorded
  <2> QED
    BY <2>1, IdleRow DEF RowInv, FeeInv, FeeIsRecorded
<1> QED
  BY <1>1, RowInvariance, PTL

=============================================================================
