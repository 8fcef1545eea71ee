------------------------------ MODULE Pricing ------------------------------
(***************************************************************************)
(* POST /quotes for an offramp and for an onramp, on an instance whose      *)
(* markups may be reloaded at any of the quote's awaits (Settings).  One    *)
(* quote at a time is followed; its amounts are those of QuoteAmounts.      *)
(*                                                                          *)
(* An offramp is priced twice: by the market rate to ask the provider what  *)
(* the payout costs, and again, capped at the rate the provider answers.    *)
(* The rules are read at those two points, and an onramp reads them once:   *)
(* the awaits before and after (account, corridor, currency API, transfer   *)
(* fee) read nothing a reload changes, so each is part of the step beside.  *)
(***************************************************************************)
EXTENDS Settings, QuoteAmounts

CONSTANTS
    Sell, Buy,      \* the markups of an offramp and an onramp of the pair
    B2BMarkup,      \* the spread in the currency API's own customer rate
    NamedMarkup,    \* ONRAMP_ACCOUNT_MARKUP_RULES: for named deposit accounts
    Inputs,         \* the quotes asked for
    Markets,        \* the rates the currency API may answer
    Executables,    \* the rates the provider may answer, or None
    TransferFees,   \* the fees the provider may charge, or None: not priced
    WireFee         \* WIRE_FLAT_FEE_USDC

ASSUME PricingAssumption ==
    /\ {Sell, Buy} \subseteq MarkupKeys
    /\ \A v \in Values : v \in Nat /\ 2 * v < Scale  \* PAIR_MARKUP_MAX_BPS: a tenth
    /\ B2BMarkup \in 0 .. Scale - 1 /\ NamedMarkup \in Nat
    /\ Markets \subseteq Nat \ {0} /\ Executables \subseteq (Nat \ {0}) \cup {None}
    /\ TransferFees \subseteq Nat \cup {None} /\ WireFee \in Nat
    /\ None \notin Nat \cup {"issued", "insolvent"}

VARIABLE quote  \* the quote being made

vars == <<settingsVars, quote>>
-----------------------------------------------------------------------------
\* What is asked for: to send `amount` or to receive it (fixed), in which kind
\* of currency (without minor units; dollars for a dollar coin), by wire or
\* not, for a fiat-to-fiat transfer or not, into a named deposit account or not.
Input ==
    [kind : {"offramp", "onramp"}, fixed : {"send", "receive"}, amount : Nat \ {0},
     whole : BOOLEAN, usd : BOOLEAN, wire : BOOLEAN, double : BOOLEAN, named : BOOLEAN,
     fee : Fees]

ASSUME InputsAssumption == Inputs \subseteq Input

\* `lowest` is history: the least markup of the pair the instance has held
\* since the quote was first priced, None if at some time it held none.
Idle ==
    [pc |-> "idle", at |-> None, input |-> None, market |-> 0, rateS |-> 0,
     executable |-> None, lowest |-> None, outcome |-> None]

Init == SettingsInit /\ quote = Idle

Key(input) == IF input.kind = "offramp" THEN Sell ELSE Buy

\* findPairMarkup: doubled for fiat-to-fiat (FIAT_TO_FIAT_CONFIG).
MarkupIn(held, input) ==
    LET m == held.markup[Key(input)]
    IN  IF m # None /\ input.double THEN 2 * m ELSE m

PairMarkup == MarkupIn(rules[quote.at], quote.input)

\* (A refusal for solvency, and an issued quote, are looked at by properties.)
Conclude(rateS, executable, outcome) ==
    quote' = [quote EXCEPT !.pc = "done", !.rateS = rateS, !.executable = executable,
                           !.outcome = outcome]
-----------------------------------------------------------------------------
(* createOfframpQuote. *)

\* The first price, to ask the provider with.
FirstRateS(i, input, market) ==
    LET m == MarkupIn(rules[i], input) IN SellRateS(market, IF m = None THEN B2BMarkup ELSE m)

\* The account and the corridor are checked, the currency API is asked; any of
\* them may end it.
OfframpRate(i, input) ==
    /\ quote.pc = "idle" /\ input.kind = "offramp"
    /\ \E market \in Markets :
         quote' = [Idle EXCEPT !.pc = "fee", !.at = i, !.input = input, !.market = market,
                               !.rateS = FirstRateS(i, input, market),
                               !.lowest = MarkupIn(rules[i], input)]

\* A dollar coin sold for dollars is not capped: the provider's cost is ours.
Cap(executable) == IF quote.input.usd THEN None ELSE executable

\* (Mutant of CustomerRateS: caps the first price.)
CappedFirstRateS(executable) ==
    LET cap == Cap(executable) IN Floored(quote.rateS, IF cap = None THEN None ELSE cap * Scale, None)

\* By the rule there is now, off the capped market; by none, the first price
\* capped.
CustomerRateS(executable) ==
    LET cap == Cap(executable)
    IN  IF PairMarkup # None
        THEN SellRateS(Floored(quote.market, cap, None), PairMarkup)
        ELSE Floored(quote.rateS, IF cap = None THEN None ELSE cap * Scale, None)

\* knownPayoutTransferFeeUsdc (wires of pounds are not `wire`: their fee is not known).
KnownTransfer == IF quote.input.wire THEN WireFee ELSE None

\* `priced` is the provider's fee in the coin sent.  A dollar sale to a local
\* bank costs nothing (usdSellCustomerFeeQuote).
Transfer(priced) ==
    IF quote.input.usd /\ ~quote.input.wire THEN 0
    ELSE IF priced = None THEN KnownTransfer ELSE priced

\* (Mutant of SendAmount: leaves the transfer fee out of what is asked for.)
SendWithoutTransfer(input, transfer, rateS) ==
    IF input.fixed = "send" THEN input.amount ELSE SolveSend(input.amount, 0, input.fee, rateS)

SendAmount(input, transfer, rateS) ==
    IF input.fixed = "send" THEN input.amount
    ELSE SolveSend(input.amount, transfer, input.fee, rateS)

\* What the recipient is promised.
PromisedSS(input, send, transfer, rateS) ==
    LET exact == ReceiveSS(send, transfer, input.fee, rateS)
    IN  IF input.fixed = "receive" THEN input.amount * Scale * Scale
        ELSE IF input.whole THEN WholeSS(exact) ELSE exact

\* getProviderWithdrawalFeeQuote: a pair with a markup needs the provider's
\* rate.  Then a fee that cannot be priced and an amount the fees use up are
\* refused; and so is what the provider could not pay out of what is sent,
\* except a dollar sale's, whose cost the provider has named (sourceAmountCap).
OfframpFee ==
    /\ quote.pc = "fee"
    /\ \/ quote' = Idle
       \/ \E executable \in Executables, priced \in TransferFees :
            LET input == quote.input
                rateS == CustomerRateS(executable)
                transfer == Transfer(priced)
                send == SendAmount(input, transfer, rateS)
                net == SendNetS(send, transfer, input.fee)
                receive == PromisedSS(input, send, transfer, rateS)
                verdicts == IF input.usd \/ executable = None THEN {FALSE}
                            ELSE InsolvencyVerdicts(net, receive, executable)
            IN  /\ PairMarkup # None => executable # None
                /\ transfer # None
                /\ net # 0
                /\ \E insolvent \in verdicts :
                     Conclude(rateS, executable, IF insolvent THEN "insolvent" ELSE "issued")
-----------------------------------------------------------------------------
(* createOnrampQuote. *)

\* The account's own markup, else the pair's, else the currency API's.
OnrampMarkup(i, input) ==
    LET m == MarkupIn(rules[i], input)
    IN  IF input.named THEN IF input.double THEN 2 * NamedMarkup ELSE NamedMarkup
        ELSE IF m # None THEN m ELSE B2BMarkup

\* The currency API is asked, then the account is loaded; then the network's
\* fee, of which a preview that fails counts as none.  What is bought must be
\* more than the fees.
OnrampQuote(i, input) ==
    /\ quote.pc = "idle" /\ input.kind = "onramp"
    /\ \E market \in Markets, priced \in TransferFees :
         LET rateS == BuyRateS(market, OnrampMarkup(i, input))
             transfer == IF priced = None THEN 0 ELSE priced
         IN  /\ input.fixed = "send" =>
                  transfer * rateS * Scale < BoughtNet(input.amount, input.fee, rateS)
             /\ quote' = [Idle EXCEPT !.pc = "done", !.at = i, !.input = input,
                              !.market = market, !.rateS = rateS, !.outcome = "issued",
                              !.lowest = MarkupIn(rules[i], input)]

\* The quote is stored, or the refusal is sent.
Answer ==
    /\ quote.pc = "done"
    /\ quote' = Idle

QuoteStep ==
    \/ OfframpFee \/ Answer
    \/ \E i \in Instances, input \in Inputs : OfframpRate(i, input) \/ OnrampQuote(i, input)

\* While a quote is made the rules it is priced by are watched.
Lower(lowest, m) ==
    IF lowest = None \/ m = None THEN None ELSE LesserOf(lowest, m)

Watched ==
    quote' = IF quote.pc \in {"idle", "done"} \/ rules'[quote.at] = rules[quote.at] THEN quote
             ELSE [quote EXCEPT !.lowest = Lower(@, MarkupIn(rules'[quote.at], quote.input))]

Next ==
    \/ QuoteStep /\ UNCHANGED settingsVars
    \/ SettingsWork /\ Watched
    \/ \E i \in Instances :
         Restart(i) /\ quote' = IF quote.at = i THEN Idle ELSE quote

Spec == Init /\ [][Next]_vars /\ SettingsFairness
-----------------------------------------------------------------------------
(* Properties. *)

\* "so solvency does not 422 a corridor we can actually fund" (createOfframpQuote):
\* a sale priced below the rate the provider pays is refused only for what
\* rounding to whole units has raised, although the rules may come and go between
\* the two pricings.  (At that rate itself the comparison of doubles may refuse
\* what could just be funded.)
FundableIsQuoted ==
    quote.outcome = "insolvent" =>
        \/ quote.input.whole /\ quote.input.fixed = "send"
        \/ quote.rateS = quote.executable * Scale

\* A pair that had a markup from a quote's first price to its last is sold at
\* least that markup below both the market and what the provider pays (a dollar
\* sale: below the market), and bought that markup above the market.
MarginIsKept ==
    quote.outcome = "issued" /\ quote.lowest # None =>
        LET paid == Floored(quote.market, Cap(quote.executable), None)
        IN  IF quote.input.kind = "offramp" THEN quote.rateS <= SellRateS(paid, quote.lowest)
            ELSE quote.rateS >= BuyRateS(quote.market,
                                  IF quote.input.named THEN NamedMarkup ELSE quote.lowest)
=============================================================================
