---------------------------- MODULE OnrampProofs ----------------------------
(***************************************************************************)
(* Proofs about Onramp for every set of handlers, every choice of events    *)
(* and entry points, and every bound: its variables keep their types, its   *)
(* crypto leaves only against fiat that is in or after onramp.failed, and   *)
(* it is COMPLETED only for crypto that has been sent or settled.           *)
(***************************************************************************)
EXTENDS Onramp, TLAPS

-----------------------------------------------------------------------------
(* Typing. *)

Pcs == {"idle", "update", "write", "advance", "settle", "claim", "send", "pay_pair"}
Thens == {"idle", "advance", "send", "pay_pair"}
WithdrawalStatuses == {"none", "pending", "successful", "failed", "settled_internally"}

\* A fresh onramp, and a handler that has nothing to do, have their types.
LEMMA IdleType ==
    /\ NewRow \in Row /\ NewRow.status = "AWAITING_FUNDS"
    /\ Idle \in Handler
    /\ Idle.new = NewRow /\ Idle.copy = NewRow /\ Idle.pc = "idle" /\ Idle.then = "idle"
<1>1. NewRow \in Row /\ NewRow.status = "AWAITING_FUNDS"
  BY DEF NewRow, Row, Statuses
<1> QED
  BY <1>1 DEF Idle, Handler

\* updateOnrampStatus is called with a row's status and columns of it.
LEMMA UpdateType ==
    ASSUME NEW r \in Row, NEW cols \in SUBSET Columns, NEW then \in Thens
    PROVE  /\ Update(r, cols, then) \in Handler
           /\ Update(r, cols, then).pc = "update"
           /\ Update(r, cols, then).then = then
           /\ Update(r, cols, then).copy = NewRow
           /\ Update(r, cols, then).new.status = r.status
<1> DEFINE new == Update(r, cols, then).new
<1>1. new = [status |-> r.status,
             wid |-> "receipt" \in cols /\ r.wid,
             wstatus |-> IF "refs" \in cols THEN r.wstatus ELSE "none",
             held |-> FALSE]
  BY DEF Update, Idle
<1>2. ("receipt" \in cols /\ r.wid) \in BOOLEAN
  OBVIOUS
<1>3. (IF "refs" \in cols THEN r.wstatus ELSE "none") \in WithdrawalStatuses
  BY DEF Row, WithdrawalStatuses
<1>4. new \in Row /\ new.status = r.status
  BY <1>1, <1>2, <1>3 DEF Row, WithdrawalStatuses
<1>5. Update(r, cols, then) =
        [Idle EXCEPT !.pc = "update", !.new = new, !.sets = cols, !.then = then]
  BY <1>1 DEF Update
<1> HIDE DEF new
<1>6. /\ Update(r, cols, then) \in Handler
      /\ Update(r, cols, then).pc = "update"
      /\ Update(r, cols, then).then = then
      /\ Update(r, cols, then).copy = Idle.copy
      /\ Update(r, cols, then).new = new
  BY <1>4, <1>5, IdleType DEF Handler, Thens
<1> QED
  BY <1>4, <1>6, IdleType

-----------------------------------------------------------------------------
(* Soundness. *)

\* Nothing known is forgotten, and all but the row and the handlers keep their
\* part of the invariant.
Grows ==
    /\ Known \subseteq Known'
    /\ events' \subseteq EventKinds /\ claimed' \subseteq events'
    /\ audit' \subseteq Decisions /\ faults' \in 0..MaxFaults
    /\ sent' \in SentState /\ pair' \in PairState
    /\ sent' # "none" \/ Settled' => FiatReported'
    /\ "withdrawal.successful" \in events' => sent' = "successful"

\* Each handler has stood still or moved on to something sound.
SoundMoves ==
    /\ handler' \in [Handlers -> Handler]
    /\ \A p \in Handlers : handler'[p] = handler[p] \/ Sound(handler'[p], Known')

\* What is sound stays sound when more is known.
LEMMA SoundStays ==
    ASSUME NEW K, NEW L, K \subseteq L
    PROVE  /\ \A r : RowSound(r, K) => RowSound(r, L)
           /\ \A h : Sound(h, K) => Sound(h, L)
  BY DEF RowSound, Sound

\* What is known, one fact at a time, before a step and after it.
LEMMA KnownFacts ==
    /\ "fiat" \in Known <=> FiatReported
    /\ "completed" \in Known <=> CompletedBy
    /\ "settled" \in Known <=> Settled
    /\ "fiat" \in Known' <=> FiatReported'
    /\ "completed" \in Known' <=> CompletedBy'
    /\ "settled" \in Known' <=> Settled'
  BY DEF Known

\* The invariant is kept by a step that keeps the row and the handlers sound.
LEMMA SoundStep ==
    ASSUME IInv, Grows, SoundMoves, row' \in Row, RowSound(row', Known')
    PROVE  IInv'
<1>1. TypeOK'
  BY DEF TypeOK, Grows, SoundMoves
<1>2. \A p \in Handlers : Sound(handler[p], Known')
  BY SoundStays DEF IInv, Grows
<1>3. \A p \in Handlers : Sound(handler'[p], Known')
  BY <1>2 DEF SoundMoves
<1> QED
  BY <1>1, <1>3 DEF IInv, Grows

\* The kinds of step on what surrounds the row: none, a decision or an event
\* claimed, which only adds to what is known.
LEMMA Learns ==
    ASSUME IInv, UNCHANGED <<pair, sent, events, faults>>,
           \/ UNCHANGED <<claimed, audit>>
           \/ UNCHANGED claimed /\ \E d \in Decisions : audit' = audit \union {d}
           \/ UNCHANGED audit /\ \E e \in events : claimed' = claimed \union {e}
    PROVE  Grows
<1>1. claimed \subseteq claimed' /\ audit \subseteq audit' /\ Settled' = Settled
  BY DEF Settled
<1>2. FiatIsIn => FiatIsIn'
  BY <1>1 DEF FiatIsIn
<1>3. FiatReported => FiatReported'
  BY <1>1, <1>2 DEF FiatReported
<1>4. CompletedBy => CompletedBy'
  BY <1>1 DEF CompletedBy
<1>5. Known \subseteq Known'
  BY <1>1, <1>3, <1>4 DEF Known
<1>6. claimed' \subseteq events' /\ audit' \subseteq Decisions
  BY DEF IInv, TypeOK
<1> QED
  BY <1>1, <1>3, <1>5, <1>6 DEF IInv, TypeOK, Grows

\* A handler goes to something sound.
LEMMA GotoSound ==
    ASSUME TypeOK, NEW p \in Handlers, NEW h \in Handler, Goto(p, h), Sound(h, Known')
    PROVE  SoundMoves
  BY DEF TypeOK, Goto, SoundMoves

\* Handlers that all stand still are sound.
LEMMA RestSound ==
    ASSUME TypeOK, UNCHANGED handler
    PROVE  SoundMoves
  BY DEF TypeOK, SoundMoves

\* A step that leaves the row alone keeps it sound.
LEMMA ReadStep ==
    ASSUME IInv, Grows, SoundMoves, UNCHANGED row
    PROVE  IInv'
<1>1. row' \in Row /\ RowSound(row', Known')
  BY SoundStays DEF IInv, TypeOK, Grows
<1> QED
  BY <1>1, SoundStep

\* A handler that carries nothing is sound, whatever is known.
LEMMA IdleSound ==
    ASSUME NEW pc \in {"idle", "advance"}, NEW K
    PROVE  /\ [Idle EXCEPT !.pc = pc] \in Handler
           /\ Sound([Idle EXCEPT !.pc = pc], K)
           /\ Sound(Idle, K)
           /\ RowSound(NewRow, K)
<1>1. RowSound(NewRow, K)
  BY IdleType DEF RowSound, FiatStatuses, FundedStatuses
<1>2. [Idle EXCEPT !.pc = pc] \in Handler
  BY IdleType DEF Handler
<1>3. /\ [Idle EXCEPT !.pc = pc].new = NewRow /\ [Idle EXCEPT !.pc = pc].copy = NewRow
      /\ [Idle EXCEPT !.pc = pc].pc = pc /\ [Idle EXCEPT !.pc = pc].then = "idle"
  BY IdleType DEF Handler
<1> QED
  BY <1>1, <1>2, <1>3, IdleType DEF Sound

\* An update of a sound row is sound, if what follows it is allowed.
LEMMA UpdateSound ==
    ASSUME NEW r \in Row, NEW cols \in SUBSET Columns, NEW then \in Thens,
           NEW K, RowSound(r, K),
           then = "send" => "fiat" \in K, then = "pay_pair" => "settled" \in K
    PROVE  /\ Update(r, cols, then) \in Handler
           /\ Sound(Update(r, cols, then), K)
<1>1. RowSound(Update(r, cols, then).new, K)
  BY UpdateType DEF RowSound
<1> QED
  BY <1>1, UpdateType, IdleSound DEF Sound

\* A step of a handler that has read the row and prepared an update of it.
LEMMA UpdateStep ==
    ASSUME IInv, NEW p \in Handlers, NEW r \in Row, NEW cols \in SUBSET Columns,
           NEW then \in {"idle", "advance"},
           Goto(p, Update(r, cols, then)), RowSound(r, Known'), Grows, UNCHANGED row
    PROVE  IInv'
<1>1. SoundMoves
  BY UpdateSound, GotoSound DEF IInv, Thens
<1> QED
  BY <1>1, ReadStep

-----------------------------------------------------------------------------
(* Webhook handlers. *)

\* A webhook handler claims an event the LP has emitted and otherwise only
\* prepares an update.
LEMMA ClaimLearns ==
    ASSUME IInv, NEW p, NEW e, Claim(p, e),
           UNCHANGED <<pair, sent, events, audit, faults>>
    PROVE  Grows /\ e \in claimed'
<1>1. e \in events /\ claimed' = claimed \union {e}
  BY DEF Claim
<1> QED
  BY <1>1, Learns

\* Two of the events that are not onramp.* ones.
LEMMA OtherEvents ==
    \A e \in {"withdrawal.successful", "deposit.credited"} : e \in EventKinds
  BY DEF EventKinds

\* A step of a webhook handler that skips its event.
LEMMA SkipStep ==
    ASSUME IInv, Grows, UNCHANGED <<row, handler>>
    PROVE  IInv'
  BY RestSound, ReadStep DEF IInv

\* deposit.credited: the fiat is in.
LEMMA DepositCreditedStep ==
    ASSUME IInv, NEW p \in Handlers, DepositCredited(p)
    PROVE  IInv'
<1> DEFINE r == [row EXCEPT !.status = "FIAT_PROCESSED", !.wid = FALSE]
<1>1. Grows /\ "deposit.credited" \in claimed' /\ UNCHANGED row
  BY ClaimLearns DEF DepositCredited
<1>2. "fiat" \in Known'
  BY <1>1, KnownFacts DEF FiatReported, FiatIsIn
<1>3. r \in Row /\ r.status = "FIAT_PROCESSED"
  BY DEF IInv, TypeOK, Row, Statuses
<1>4. RowSound(r, Known')
  BY <1>2, <1>3 DEF RowSound
<1>5. CASE Goto(p, Update(r, {"receipt", "refs"}, "advance"))
  <2> HIDE DEF r
  <2> QED
    BY <1>1, <1>3, <1>4, <1>5, UpdateStep DEF Columns
<1>6. CASE UNCHANGED handler
  BY <1>1, <1>6, SkipStep
<1> QED
  BY <1>5, <1>6 DEF DepositCredited, Run, Goto

\* withdrawal.successful: the crypto has been sent, and stays sent.
LEMMA WithdrawalSuccessfulStep ==
    ASSUME IInv, NEW p \in Handlers, WithdrawalSuccessful(p)
    PROVE  IInv'
<1> DEFINE r == [row EXCEPT !.status = "COMPLETED", !.wid = TRUE, !.wstatus = "successful"]
<1>1. Grows /\ UNCHANGED <<row, sent>>
  BY ClaimLearns DEF WithdrawalSuccessful
<1>2. sent = "successful"
  BY DEF WithdrawalSuccessful, Claim, IInv
<1>3. "completed" \in Known'
  BY <1>1, <1>2, KnownFacts DEF CompletedBy
<1>4. r \in Row /\ r.status = "COMPLETED"
  BY DEF IInv, TypeOK, Row, Statuses
<1>5. RowSound(r, Known')
  BY <1>3, <1>4 DEF RowSound, FiatStatuses, FundedStatuses
<1>6. CASE Goto(p, Update(r, {"receipt", "refs"}, "idle"))
  <2> HIDE DEF r
  <2> QED
    BY <1>1, <1>4, <1>5, <1>6, UpdateStep DEF Columns
<1>7. CASE UNCHANGED handler
  BY <1>1, <1>7, SkipStep
<1> QED
  BY <1>6, <1>7 DEF WithdrawalSuccessful, Run, Goto

\* withdrawal.failed: the payout had been started, so the fiat was in.
LEMMA WithdrawalFailedStep ==
    ASSUME IInv, NEW p \in Handlers, WithdrawalFailed(p)
    PROVE  IInv'
<1> DEFINE r == [row EXCEPT !.status = "CRYPTO_FAILED", !.wid = FALSE, !.wstatus = "failed"]
<1>1. Grows /\ UNCHANGED row
  BY ClaimLearns DEF WithdrawalFailed
<1>2. r \in Row /\ r.status = "CRYPTO_FAILED"
  BY DEF IInv, TypeOK, Row, Statuses
<1>3. CASE row.status = "CRYPTO_PENDING" /\ Goto(p, Update(r, {"receipt", "refs"}, "idle"))
  <2>1. "fiat" \in Known'
    BY <1>1, <1>3 DEF IInv, RowSound, FiatStatuses, FundedStatuses, Grows
  <2>2. RowSound(r, Known')
    BY <1>2, <2>1 DEF RowSound
  <2> HIDE DEF r
  <2> QED
    BY <1>1, <1>2, <1>3, <2>2, UpdateStep DEF Columns
<1>4. CASE UNCHANGED handler
  BY <1>1, <1>4, SkipStep
<1> QED
  BY <1>3, <1>4 DEF WithdrawalFailed, Run, Goto

\* provisioned_account.*: the status awaits fiat, fails, or is the one read.
LEMMA AccountProvisionedStep ==
    ASSUME IInv, NEW p \in Handlers, NEW kind \in ProvisionEvents,
           AccountProvisioned(p, kind)
    PROVE  IInv'
<1> DEFINE s == ProvisionedStatus(kind, row.status)
           r == [row EXCEPT !.status = ProvisionedStatus(kind, @)]
<1>1. Grows /\ UNCHANGED row
  BY ClaimLearns DEF AccountProvisioned
<1>2. row \in Row /\ RowSound(row, Known')
  BY <1>1, SoundStays DEF IInv, TypeOK, Grows
<1>3. s \in {"AWAITING_FUNDS", "FIAT_FAILED", row.status}
  BY DEF ProvisionedStatus, ProvisionEvents
<1>4. s \in Statuses
  BY <1>2, <1>3 DEF Row, Statuses
<1>5. r = [row EXCEPT !.status = s]
  OBVIOUS
<1> HIDE DEF s
<1>6. r \in Row /\ r.status = s
  BY <1>2, <1>4, <1>5 DEF Row
<1> HIDE DEF r
<1>7. RowSound(r, Known')
  BY <1>2, <1>3, <1>6 DEF RowSound, FiatStatuses, FundedStatuses
<1>8. CASE Goto(p, Update(r, {"refs"}, "idle"))
  BY <1>1, <1>6, <1>7, <1>8, UpdateStep DEF Columns
<1>9. CASE UNCHANGED handler
  BY <1>1, <1>9, SkipStep
<1> QED
  BY <1>8, <1>9 DEF AccountProvisioned, Run, Goto, r

\* onramp.*: the status is stored on the word of the LP.
LEMMA ReportedStep ==
    ASSUME IInv, NEW p \in Handlers, NEW kind \in Reports, Reported(p, kind)
    PROVE  IInv'
<1> DEFINE s == ReportedStatus(kind)
           r == [row EXCEPT !.status = s, !.wid = FALSE]
           cols == IF kind = "onramp.completed" THEN {"receipt"} ELSE {}
<1>1. Grows /\ kind \in claimed' /\ UNCHANGED row
  BY ClaimLearns DEF Reported
<1>2. kind \in ReportKinds
  BY InstanceAssumption
<1>3. /\ s \in Statuses
      /\ s = "COMPLETED" => kind = "onramp.completed"
      /\ s \in FiatStatuses => kind \in {"onramp.fiat_received", "onramp.fiat_processed",
                                        "onramp.crypto_initiated", "onramp.failed"}
  BY <1>2 DEF ReportedStatus, ReportKinds, Statuses, FiatStatuses, FundedStatuses
<1> HIDE DEF s
<1>4. r \in Row /\ r.status = s
  BY <1>3 DEF IInv, TypeOK, Row
<1>5. s \in FiatStatuses => FiatReported'
  BY <1>1, <1>3 DEF FiatReported, FiatIsIn
<1>6. s = "COMPLETED" => CompletedBy'
  BY <1>1, <1>3 DEF CompletedBy
<1>7. Goto(p, Update(r, cols, "idle"))
  BY DEF Reported, Run, Goto, s
<1> HIDE DEF r
<1>8. RowSound(r, Known')
  BY <1>4, <1>5, <1>6, KnownFacts DEF RowSound
<1> QED
  BY <1>1, <1>4, <1>7, <1>8, UpdateStep DEF Columns

-----------------------------------------------------------------------------
(* API and operator requests. *)

\* Expiry prepares an update that nothing has to be known for.
LEMMA ExpireStep ==
    ASSUME IInv, NEW p \in Handlers, Expire(p)
    PROVE  IInv'
<1> DEFINE r == [row EXCEPT !.status = "EXPIRED"]
<1>1. Grows /\ UNCHANGED row
  BY Learns DEF Expire
<1>2. r \in Row /\ r.status = "EXPIRED"
  BY DEF IInv, TypeOK, Row, Statuses
<1>3. RowSound(r, Known')
  BY <1>2 DEF RowSound, FiatStatuses, FundedStatuses
<1>4. Goto(p, Update(r, {}, "idle"))
  BY DEF Expire, Run, Goto
<1> HIDE DEF r
<1> QED
  BY <1>1, <1>2, <1>3, <1>4, UpdateStep DEF Columns

\* A GET starts the payout's own look at the row.
LEMMA GetStep ==
    ASSUME IInv, NEW p \in Handlers, Get(p)
    PROVE  IInv'
<1>1. Grows /\ UNCHANGED row
  BY Learns DEF Get
<1>2. Goto(p, [Idle EXCEPT !.pc = "advance"])
  BY DEF Get, Run, Goto
<1>3. SoundMoves
  BY <1>2, IdleSound, GotoSound DEF IInv
<1> QED
  BY <1>1, <1>3, ReadStep

\* An operator's decision prepares a sound update of the row.
LEMMA DecideStep ==
    ASSUME IInv, NEW p \in Handlers, NEW decision \in Decisions, NEW r \in Row,
           NEW cols \in SUBSET Columns, NEW force \in BOOLEAN,
           NEW then \in {"idle", "advance"},
           Decide(p, decision, r, cols, force, then),
           UNCHANGED <<row, pair, sent, events, claimed, faults>>,
           RowSound(r, Known')
    PROVE  IInv'
<1> DEFINE u == Update(r, cols, then)
           h == [u EXCEPT !.new.held = r.held, !.force = force]
<1>1. Grows
  BY Learns DEF Decide
<1>2. u \in Handler /\ Sound(u, Known')
  BY UpdateSound DEF Thens
<1>3. Goto(p, h)
  BY DEF Decide, Run, Goto
<1> HIDE DEF u
<1>4. u.new \in Row /\ r.held \in BOOLEAN
  BY <1>2 DEF Handler, Row
<1>5. /\ [u.new EXCEPT !.held = r.held] \in Row
      /\ [u.new EXCEPT !.held = r.held].status = u.new.status
  BY <1>4 DEF Row
<1> DEFINE new == [u.new EXCEPT !.held = r.held]
<1>6. h = [u EXCEPT !.new = new, !.force = force]
  BY <1>2 DEF Handler
<1> HIDE DEF new, h
<1>7. /\ h \in Handler /\ h.new = new /\ h.copy = u.copy
      /\ h.pc = u.pc /\ h.then = u.then
  BY <1>2, <1>5, <1>6 DEF Handler, new
<1>8. Sound(h, Known')
  BY <1>2, <1>5, <1>7 DEF Sound, RowSound, new
<1> QED
  BY <1>1, <1>3, <1>7, <1>8, GotoSound, ReadStep DEF IInv, Decide

\* An operator who confirms the fiat or the outcome makes it known.
LEMMA MarkStep ==
    ASSUME IInv, NEW p \in Handlers,
           MarkFiatReceived(p) \/ MarkSuccess(p) \/ MarkFailed(p)
    PROVE  IInv'
<1>1. CASE MarkFiatReceived(p)
  <2> DEFINE r == [row EXCEPT !.status = "FIAT_PROCESSED", !.wid = FALSE]
  <2>1. r \in Row /\ r.status = "FIAT_PROCESSED"
    BY DEF IInv, TypeOK, Row, Statuses
  <2>2. "fiat" \in Known'
    BY <1>1, KnownFacts DEF MarkFiatReceived, Decide, FiatReported, FiatIsIn
  <2>3. RowSound(r, Known')
    BY <2>1, <2>2 DEF RowSound
  <2>4. Decide(p, "received", r, {"receipt", "refs"}, FALSE, "advance")
    BY <1>1 DEF MarkFiatReceived
  <2>5. UNCHANGED <<row, pair, sent, events, claimed, faults>>
    BY <1>1 DEF MarkFiatReceived
  <2> HIDE DEF r
  <2> QED
    BY <2>1, <2>3, <2>4, <2>5, DecideStep DEF Columns, Decisions
<1>2. CASE MarkSuccess(p)
  <2> DEFINE r == [row EXCEPT !.status = "COMPLETED", !.wid = FALSE, !.wstatus = "successful"]
  <2>1. r \in Row /\ r.status = "COMPLETED"
    BY DEF IInv, TypeOK, Row, Statuses
  <2>2. "completed" \in Known'
    BY <1>2, KnownFacts DEF MarkSuccess, Decide, CompletedBy
  <2>3. RowSound(r, Known')
    BY <2>1, <2>2 DEF RowSound, FiatStatuses, FundedStatuses
  <2>4. Decide(p, "success", r, {"receipt", "refs"}, FALSE, "idle")
    BY <1>2 DEF MarkSuccess
  <2>5. UNCHANGED <<row, pair, sent, events, claimed, faults>>
    BY <1>2 DEF MarkSuccess
  <2> HIDE DEF r
  <2> QED
    BY <2>1, <2>3, <2>4, <2>5, DecideStep DEF Columns, Decisions
<1>3. CASE MarkFailed(p)
  <2> DEFINE r == [row EXCEPT !.status = "FIAT_FAILED", !.wstatus = "failed"]
  <2>1. r \in Row /\ r.status = "FIAT_FAILED"
    BY DEF IInv, TypeOK, Row, Statuses
  <2>2. RowSound(r, Known')
    BY <2>1 DEF RowSound, FiatStatuses, FundedStatuses
  <2>3. Decide(p, "failed", r, {"refs"}, TRUE, "idle")
    BY <1>3 DEF MarkFailed
  <2>4. UNCHANGED <<row, pair, sent, events, claimed, faults>>
    BY <1>3 DEF MarkFailed
  <2> HIDE DEF r
  <2> QED
    BY <2>1, <2>2, <2>3, <2>4, DecideStep DEF Columns, Decisions
<1> QED
  BY <1>1, <1>2, <1>3

-----------------------------------------------------------------------------
(* updateOnrampStatus. *)

\* Merging what the row holds into an update changes no status.
LEMMA MergedType ==
    ASSUME NEW h \in Handler, NEW r \in Row
    PROVE  /\ Merged(h, r) \in Handler
           /\ Merged(h, r).new.status = h.new.status
           /\ Merged(h, r).copy = h.copy /\ Merged(h, r).then = h.then
           /\ Merged(h, r).force = h.force
<1> DEFINE new == Merged(h, r).new
<1>1. h.new \in Row
  BY DEF Handler
<1>2. [h.new EXCEPT !.held = @ \/ r.held] \in Row
  BY <1>1 DEF Row
<1>3. [h.new EXCEPT !.wstatus = r.wstatus] \in Row
  BY <1>1 DEF Row
<1>4. new \in {[h.new EXCEPT !.held = @ \/ r.held], [h.new EXCEPT !.wstatus = r.wstatus]}
  BY DEF Merged, Handler
<1>5. new \in Row /\ new.status = h.new.status
  BY <1>1, <1>2, <1>3, <1>4 DEF Row
<1>6. Merged(h, r) = [h EXCEPT !.new = new]
  BY DEF Merged, Handler
<1> HIDE DEF new
<1>7. [h EXCEPT !.new = new] \in Handler
  BY <1>5 DEF Handler
<1>8. /\ [h EXCEPT !.new = new].new = new
      /\ [h EXCEPT !.new = new].copy = h.copy
      /\ [h EXCEPT !.new = new].then = h.then
      /\ [h EXCEPT !.new = new].force = h.force
  BY DEF Handler
<1> QED
  BY <1>5, <1>6, <1>7, <1>8

\* An update held back keeps the status the row has.
LEMMA HeldType ==
    ASSUME NEW h \in Handler, NEW r \in Row
    PROVE  /\ Held(h, r) \in Handler
           /\ Held(h, r).new.status = r.status
           /\ Held(h, r).copy = h.copy /\ Held(h, r).then = h.then
           /\ Held(h, r).force = h.force
<1> DEFINE m == Merged(h, r)
           new == [m.new EXCEPT !.status = r.status, !.held = TRUE]
           sets == m.sets \union {"refs"}
<1>1. m \in Handler /\ m.copy = h.copy /\ m.then = h.then /\ m.force = h.force
  BY MergedType
<1>2. Held(h, r) = [m EXCEPT !.new.status = r.status, !.new.held = TRUE,
                             !.sets = @ \union {"refs"}]
  BY DEF Held
<1> HIDE DEF m
<1>3. new \in Row /\ new.status = r.status
  BY <1>1 DEF Handler, Row
<1>4. sets \in SUBSET Columns
  BY <1>1 DEF Handler, Columns
<1>5. Held(h, r) = [m EXCEPT !.new = new, !.sets = sets]
  BY <1>1, <1>2 DEF Handler
<1> HIDE DEF new, sets
<1> QED
  BY <1>1, <1>3, <1>4, <1>5 DEF Handler

\* The guarded read keeps an update sound: it stores what was prepared, or the
\* status of the row it has just read (fundsReceivedGuard.ts).
LEMMA UpdateReadStep ==
    ASSUME IInv, NEW p \in Handlers, UpdateRead(p)
    PROVE  IInv'
<1> DEFINE h == handler[p]
           g == Decided(h, row)
<1>1. Grows /\ UNCHANGED row /\ Known' = Known
  <2>1. Grows /\ UNCHANGED <<row, pair, sent, claimed, audit>>
    BY Learns DEF UpdateRead
  <2> QED
    BY <2>1 DEF Known, FiatReported, FiatIsIn, CompletedBy, Settled
<1>2. h \in Handler /\ row \in Row /\ Sound(h, Known) /\ RowSound(row, Known)
  BY DEF IInv, TypeOK
<1>3. Goto(p, [g EXCEPT !.pc = "write"]) /\ h.pc = "update"
  BY DEF UpdateRead
<1>4. g \in {Held(h, row), Merged(h, row), h}
  BY DEF Decided
<1> HIDE DEF g, h
<1>5. /\ g \in Handler /\ g.copy = h.copy /\ g.then = h.then
      /\ g.new.status \in {h.new.status, row.status}
  BY <1>2, <1>4, HeldType, MergedType
<1>6. /\ [g EXCEPT !.pc = "write"] \in Handler
      /\ [g EXCEPT !.pc = "write"].pc = "write"
      /\ [g EXCEPT !.pc = "write"].new = g.new
      /\ [g EXCEPT !.pc = "write"].copy = g.copy
      /\ [g EXCEPT !.pc = "write"].then = g.then
  BY <1>5 DEF Handler
<1>7. Sound([g EXCEPT !.pc = "write"], Known')
  BY <1>1, <1>2, <1>5, <1>6 DEF Sound, RowSound
<1> QED
  BY <1>1, <1>3, <1>6, <1>7, GotoSound, ReadStep DEF IInv

\* The write stores a sound row, and the handler goes on to what it may do.
LEMMA UpdateWriteStep ==
    ASSUME IInv, NEW p \in Handlers, UpdateWrite(p)
    PROVE  IInv'
<1> DEFINE h == handler[p]
           g == [Idle EXCEPT !.pc = h.then, !.copy = h.copy]
<1>1. Grows
  BY Learns DEF UpdateWrite
<1>2. h \in Handler /\ row \in Row /\ Sound(h, Known')
  BY <1>1, SoundStays DEF IInv, TypeOK, Grows
<1>3. Goto(p, g) /\ row' = Stored(row, h)
  BY DEF UpdateWrite
<1> HIDE DEF h
<1>4. h.new \in Row /\ h.copy \in Row /\ h.then \in Thens
  BY <1>2 DEF Handler, Thens
<1>5. row' \in Row /\ row'.status = h.new.status
  BY <1>2, <1>3, <1>4 DEF Stored, Row
<1>6. RowSound(row', Known')
  BY <1>2, <1>5 DEF Sound, RowSound
<1>7. /\ g \in Handler /\ g.pc = h.then /\ g.copy = h.copy
      /\ g.new = NewRow /\ g.then = "idle"
  BY <1>4, IdleType DEF Handler, Thens
<1>8. Sound(g, Known')
  BY <1>2, <1>4, <1>7, IdleSound DEF Sound, Thens
<1> HIDE DEF g
<1> QED
  BY <1>1, <1>3, <1>5, <1>6, <1>7, <1>8, GotoSound, SoundStep DEF IInv

-----------------------------------------------------------------------------
(* The payout: settlement with the offramp, or the withdrawal. *)

\* A payout is started only from a row that says the fiat is in.
LEMMA AdvanceReadStep ==
    ASSUME IInv, NEW p \in Handlers, AdvanceRead(p)
    PROVE  IInv'
<1>1. Grows /\ UNCHANGED row
  BY Learns DEF AdvanceRead
<1>2. row \in Row /\ RowSound(row, Known')
  BY <1>1, SoundStays DEF IInv, TypeOK, Grows
<1>3. ASSUME NEW pc \in {"settle", "send"}, Sendable(row),
             Goto(p, [Idle EXCEPT !.pc = pc, !.copy = row])
      PROVE  IInv'
  <2> DEFINE g == [Idle EXCEPT !.pc = pc, !.copy = row]
  <2>1. "fiat" \in Known'
    BY <1>2, <1>3 DEF Sendable, RowSound, FiatStatuses, FundedStatuses
  <2>2. g \in Handler /\ g.pc = pc /\ g.copy = row /\ g.new = NewRow /\ g.then = "idle"
    BY <1>2, IdleType DEF Handler
  <2>3. Sound(g, Known')
    BY <1>2, <2>1, <2>2, IdleSound DEF Sound
  <2> HIDE DEF g
  <2> QED
    BY <1>1, <1>3, <2>2, <2>3, GotoSound, ReadStep DEF IInv, g
<1>4. CASE Goto(p, Idle)
  BY <1>1, <1>4, IdleSound, IdleType, GotoSound, ReadStep DEF IInv
<1> QED
  BY <1>3, <1>4 DEF AdvanceRead, Sendable

\* Asking for the withdrawal is sound when the fiat is known to be in.
LEMMA InitiateSendStep ==
    ASSUME IInv, NEW p \in Handlers, InitiateSend(p), Grows, UNCHANGED row,
           handler[p].pc \in {"settle", "claim"}
    PROVE  IInv'
<1> DEFINE c == handler[p].copy
           r == [c EXCEPT !.status = "CRYPTO_INITIATED"]
           u == Update(r, {}, "send")
           g == [u EXCEPT !.copy = c]
<1>1. /\ handler[p] \in Handler /\ c \in Row
      /\ Sound(handler[p], Known')
  BY SoundStays DEF IInv, TypeOK, Handler, Grows
<1>2. "fiat" \in Known' /\ RowSound(c, Known')
  BY <1>1 DEF Sound
<1>3. Goto(p, g)
  BY DEF InitiateSend
<1> HIDE DEF c
<1>4. r \in Row /\ r.status = "CRYPTO_INITIATED"
  BY <1>1 DEF Row, Statuses
<1>5. RowSound(r, Known')
  BY <1>2, <1>4 DEF RowSound
<1> HIDE DEF r
<1>6. u \in Handler /\ Sound(u, Known')
  BY <1>2, <1>4, <1>5, UpdateSound DEF Thens
<1> HIDE DEF u
<1>7. /\ g \in Handler /\ g.copy = c
      /\ g.pc = u.pc /\ g.new = u.new /\ g.then = u.then
  BY <1>1, <1>6 DEF Handler
<1>8. Sound(g, Known')
  BY <1>2, <1>6, <1>7 DEF Sound
<1> HIDE DEF g
<1> QED
  BY <1>3, <1>7, <1>8, GotoSound, ReadStep DEF IInv

\* Looking for the offramp changes nothing that is known.
LEMMA FindPairStep ==
    ASSUME IInv, NEW p \in Handlers, FindPair(p)
    PROVE  IInv'
<1> DEFINE h == handler[p]
           g == [h EXCEPT !.pc = "claim"]
<1>1. Grows /\ UNCHANGED row /\ h.pc = "settle"
  BY Learns DEF FindPair
<1>2. CASE InitiateSend(p)
  BY <1>1, <1>2, InitiateSendStep
<1>3. CASE Goto(p, g)
  <2>1. h \in Handler /\ Sound(h, Known')
    BY <1>1, SoundStays DEF IInv, TypeOK, Grows
  <2> HIDE DEF h
  <2>2. g \in Handler /\ g.pc = "claim" /\ g.new = h.new /\ g.copy = h.copy /\ g.then = h.then
    BY <2>1 DEF Handler
  <2>3. Sound(g, Known')
    BY <1>1, <2>1, <2>2 DEF Sound
  <2> HIDE DEF g
  <2> QED
    BY <1>1, <1>3, <2>2, <2>3, GotoSound, ReadStep DEF IInv
<1> QED
  BY <1>2, <1>3 DEF FindPair

\* What changes with the pair or the withdrawal only adds to what is known, and
\* is allowed once the fiat is in.
LEMMA PaysOut ==
    ASSUME IInv, UNCHANGED <<claimed, audit>>,
           events \subseteq events', events' \subseteq EventKinds,
           sent' \in SentState, pair' \in PairState, faults' \in 0..MaxFaults,
           sent = "successful" => sent' = "successful",
           Settled => Settled',
           sent' # "none" \/ Settled' => sent # "none" \/ Settled \/ FiatReported,
           "withdrawal.successful" \in events' => sent' = "successful"
    PROVE  Grows
<1>1. FiatReported' <=> FiatReported
  BY DEF FiatReported, FiatIsIn
<1>2. CompletedBy => CompletedBy'
  BY DEF CompletedBy
<1>3. Known \subseteq Known'
  BY <1>1, <1>2 DEF Known
<1>4. sent' # "none" \/ Settled' => FiatReported'
  BY <1>1 DEF IInv
<1> QED
  BY <1>3, <1>4 DEF IInv, TypeOK, Grows

\* Winning the claim settles the onramp; losing it leads to the withdrawal.
LEMMA ClaimPairStep ==
    ASSUME IInv, NEW p \in Handlers, ClaimPair(p)
    PROVE  IInv'
<1> DEFINE h == handler[p]
           r == [h.copy EXCEPT !.status = "COMPLETED", !.wid = FALSE,
                               !.wstatus = "settled_internally"]
           g == Update(r, {"receipt", "refs"}, "pay_pair")
<1>1. h \in Handler /\ h.pc = "claim" /\ Sound(h, Known)
  BY DEF ClaimPair, IInv, TypeOK
<1>2. FiatReported
  BY <1>1, KnownFacts DEF Sound
<1>3. UNCHANGED <<row, sent, events, claimed, audit, faults>>
  BY DEF ClaimPair
<1>4. CASE pair = "open" /\ pair' = "claimed" /\ Goto(p, g)
  <2>1. Settled' /\ pair' \in PairState
    BY <1>4 DEF Settled, PairState
  <2>2. Grows
    BY <1>2, <1>3, <2>1, PaysOut DEF IInv, TypeOK
  <2>3. "completed" \in Known' /\ "settled" \in Known'
    BY <2>1, KnownFacts DEF CompletedBy
  <2>4. r \in Row /\ r.status = "COMPLETED"
    BY <1>1 DEF Handler, Row, Statuses
  <2>5. RowSound(r, Known')
    BY <2>3, <2>4 DEF RowSound, FiatStatuses, FundedStatuses
  <2> HIDE DEF r
  <2>6. g \in Handler /\ Sound(g, Known')
    BY <2>3, <2>4, <2>5, UpdateSound DEF Thens, Columns
  <2> HIDE DEF g
  <2> QED
    BY <1>3, <1>4, <2>2, <2>6, GotoSound, ReadStep DEF IInv
<1>5. CASE InitiateSend(p) /\ UNCHANGED pair
  <2>1. Grows
    BY <1>3, <1>5, Learns
  <2> QED
    BY <1>1, <1>3, <1>5, <2>1, InitiateSendStep
<1> QED
  BY <1>4, <1>5 DEF ClaimPair

\* The offramp's payout is started by the request that settled the onramp.
LEMMA PayPairStep ==
    ASSUME IInv, NEW p \in Handlers, PayPair(p)
    PROVE  IInv'
<1>1. Sound(handler[p], Known) /\ handler[p].pc = "pay_pair"
  BY DEF PayPair, IInv
<1>2. Settled
  BY <1>1, KnownFacts DEF Sound
<1>3. /\ UNCHANGED <<row, sent, events, claimed, audit, faults>>
      /\ pair' = "paying" /\ Goto(p, Idle)
  BY DEF PayPair
<1>4. Settled' /\ pair' \in PairState
  BY <1>3 DEF Settled, PairState
<1>5. Grows
  BY <1>2, <1>3, <1>4, PaysOut DEF IInv, TypeOK
<1> QED
  BY <1>3, <1>5, IdleSound, IdleType, GotoSound, ReadStep DEF IInv

\* The LP's answer, or its loss: with an idempotency key there is one
\* withdrawal, and it is asked for after the fiat only.
LEMMA SendStep ==
    ASSUME IInv, NEW p \in Handlers, SendAccepted(p) \/ SendRefused(p) \/ SendAnswerLost(p)
    PROVE  IInv'
<1> DEFINE c == handler[p].copy
           r(named) == [c EXCEPT !.status = "CRYPTO_PENDING", !.wid = named,
                                 !.wstatus = "pending"]
<1>1. handler[p] \in Handler /\ handler[p].pc = "send" /\ Sound(handler[p], Known)
  BY DEF SendAccepted, SendRefused, SendAnswerLost, IInv, TypeOK
<1>2. FiatReported /\ "fiat" \in Known
  BY <1>1, KnownFacts DEF Sound
<1>3. /\ UNCHANGED <<row, pair, events, claimed, audit>>
      /\ sent' \in {sent, Minted} /\ faults' \in 0..MaxFaults
  <2>1. faults \in 0..MaxFaults /\ MaxFaults \in Nat
    BY InstanceAssumption DEF IInv, TypeOK
  <2>2. CASE SendAccepted(p) \/ SendRefused(p)
    BY <2>1, <2>2 DEF SendAccepted, SendRefused
  <2>3. CASE SendAnswerLost(p)
    BY <2>1, <2>3 DEF SendAnswerLost
  <2> QED
    BY <2>2, <2>3
<1>4. /\ sent' \in SentState
      /\ sent = "successful" => sent' = "successful"
      /\ sent # "none" => sent' # "none"
  BY <1>3 DEF Minted, SentState, IInv, TypeOK
<1>5. Settled' <=> Settled
  BY <1>3 DEF Settled
<1>6. Grows
  BY <1>2, <1>3, <1>4, <1>5, PaysOut DEF IInv, TypeOK
<1>7. c \in Row
  BY <1>1 DEF Handler
<1>8. ASSUME NEW named \in BOOLEAN, Goto(p, Update(r(named), {"receipt", "refs"}, "idle"))
      PROVE  IInv'
  <2> HIDE DEF c
  <2>1. r(named) \in Row /\ r(named).status = "CRYPTO_PENDING"
    BY <1>7 DEF Row, Statuses
  <2>2. RowSound(r(named), Known')
    BY <1>2, <1>6, <2>1 DEF RowSound, Grows
  <2> HIDE DEF r
  <2> QED
    BY <1>3, <1>6, <1>8, <2>1, <2>2, UpdateStep DEF Columns
<1> QED
  BY <1>8 DEF SendAccepted, SendRefused, SendAnswerLost, SendStored

\* A request that dies leaves everything but itself as it was.
LEMMA AbortStep ==
    ASSUME IInv, NEW p \in Handlers, Abort(p)
    PROVE  IInv'
<1>1. /\ UNCHANGED <<row, pair, sent, events, claimed, audit>> /\ Goto(p, Idle)
      /\ faults' \in 0..MaxFaults
  BY InstanceAssumption DEF Abort, IInv, TypeOK
<1>2. Settled' <=> Settled
  BY <1>1 DEF Settled
<1>3. Grows
  BY <1>1, <1>2, PaysOut DEF IInv, TypeOK
<1> QED
  BY <1>1, <1>3, IdleSound, IdleType, GotoSound, ReadStep DEF IInv

-----------------------------------------------------------------------------
(* The invariant. *)

\* The LP emits an event, sends or fails the withdrawal; or the offramp is funded
\* or closed by somebody else, which takes no settlement back.
LEMMA EnvironmentStep ==
    ASSUME IInv, Environment
    PROVE  IInv'
<1>1. UNCHANGED <<row, handler, claimed, audit, faults>>
  BY DEF Environment, LPReports, LPSends, LPFails, PairCredited, PairCloses
<1>2. faults' \in 0..MaxFaults /\ events \subseteq EventKinds
  BY <1>1 DEF IInv, TypeOK
<1>3. ASSUME NEW kind \in EventKinds, LPReports(kind)
      PROVE  Grows
  <2>1. kind # "withdrawal.successful"
    BY <1>3, OtherEvents, InstanceAssumption DEF LPReports, ProvisionEvents, ReportKinds
  <2>2. events' = events \union {kind} /\ UNCHANGED <<pair, sent>>
    BY <1>3 DEF LPReports, Emit
  <2>3. Settled' <=> Settled
    BY <2>2 DEF Settled
  <2> QED
    BY <1>1, <1>2, <2>1, <2>2, <2>3, PaysOut DEF IInv, TypeOK
<1>4. ASSUME LPSends \/ LPFails
      PROVE  Grows
  <2>1. /\ sent = "pending" /\ sent' \in {"successful", "failed"} /\ UNCHANGED pair
        /\ events \subseteq events' /\ events' \subseteq EventKinds
    BY <1>2, <1>4 DEF LPSends, LPFails, Emit, EventKinds
  <2>2. "withdrawal.successful" \in events' => sent' = "successful"
    BY <1>4 DEF LPSends, LPFails, Emit, IInv
  <2>3. sent' \in SentState /\ (Settled' <=> Settled)
    BY <2>1 DEF SentState, Settled
  <2> QED
    BY <1>1, <1>2, <2>1, <2>2, <2>3, PaysOut DEF IInv, TypeOK
<1>5. ASSUME PairCredited \/ PairCloses
      PROVE  Grows
  <2>1. UNCHANGED <<sent, events>> /\ pair = "open" /\ pair' \in {"credited", "closed"}
    BY <1>5 DEF PairCredited, PairCloses
  <2>2. ~Settled /\ ~Settled' /\ pair' \in PairState
    BY <2>1 DEF Settled, PairState
  <2> QED
    BY <1>1, <1>2, <2>1, <2>2, PaysOut DEF IInv, TypeOK
<1>6. Grows
  BY <1>3, <1>4, <1>5 DEF Environment
<1> QED
  BY <1>1, <1>6, SkipStep

\* The invariant holds of an onramp that has just been stored.
LEMMA InitSound ==
    ASSUME Init
    PROVE  IInv
<1>1. TypeOK
  BY IdleType, InstanceAssumption DEF Init, TypeOK, SentState, PairState
<1>2. RowSound(row, Known) /\ \A p \in Handlers : Sound(handler[p], Known)
  BY IdleSound DEF Init
<1>3. sent = "none" /\ ~Settled /\ events = {} /\ claimed = {}
  BY InstanceAssumption DEF Init, Settled
<1> QED
  BY <1>1, <1>2, <1>3 DEF IInv

\* Every step of the code keeps the invariant.
LEMMA Inductive ==
    ASSUME IInv, [Next]_vars
    PROVE  IInv'
<1>1. ASSUME NEW p \in Handlers, Webhook(p)
      PROVE  IInv'
  BY <1>1, DepositCreditedStep, WithdrawalSuccessfulStep, WithdrawalFailedStep,
     AccountProvisionedStep, ReportedStep DEF Webhook
<1>2. ASSUME NEW p \in Handlers, Request(p)
      PROVE  IInv'
  BY <1>2, ExpireStep, GetStep, MarkStep DEF Request
<1>3. ASSUME NEW p \in Handlers, Progress(p)
      PROVE  IInv'
  BY <1>3, UpdateReadStep, UpdateWriteStep, AdvanceReadStep, FindPairStep, ClaimPairStep,
     PayPairStep, SendStep DEF Progress
<1>4. ASSUME NEW p \in Handlers, Fault(p)
      PROVE  IInv'
  BY <1>4, AbortStep, SendStep DEF Fault
<1>5. CASE UNCHANGED vars
  <2>1. UNCHANGED <<row, pair, handler, sent, events, claimed, audit, faults>>
    BY <1>5 DEF vars
  <2>2. Grows
    BY <2>1, Learns
  <2> QED
    BY <2>1, <2>2, SkipStep
<1> QED
  BY <1>1, <1>2, <1>3, <1>4, <1>5, EnvironmentStep DEF Next

\* The invariant holds throughout.
LEMMA Invariance == Spec => []IInv
<1>1. Init => IInv
  BY InitSound
<1>2. IInv /\ [Next]_vars => IInv'
  BY Inductive
<1> QED
  BY <1>1, <1>2, PTL DEF Spec

\* The row, the handlers and the ledger keep their types; in particular, only
\* events the LP has emitted are ever claimed.
THEOREM TypeCorrect == Spec => []TypeOK
<1>1. IInv => TypeOK
  BY DEF IInv
<1> QED
  BY <1>1, Invariance, PTL

\* An onramp is COMPLETED only for crypto that has been sent or has funded the
\* offramp, or on the word of an operator or of the LP, however webhooks, GETs
\* and settlements interleave, repeat and die.
THEOREM CompletedOnlyIfSent == Spec => []CompletedIsSent
<1>1. IInv => CompletedIsSent
  BY KnownFacts DEF IInv, RowSound, CompletedIsSent
<1> QED
  BY <1>1, Invariance, PTL

\* No crypto leaves, on-chain or into the offramp, before the fiat is in, whatever
\* requests overlap and die, unless the LP has sent onramp.failed: the one event
\* that leads to a payout without fiat.
THEOREM SentOnlyIfFunded == Spec => []SendIsFunded
<1>1. IInv => SendIsFunded
  BY DEF IInv, SendIsFunded
<1> QED
  BY <1>1, Invariance, PTL

=============================================================================
