---------------------------- MODULE QuoteAmounts ----------------------------
(***************************************************************************)
(* The arithmetic of a quote, exactly: what the customer sends, what is     *)
(* taken off, and what the recipient gets.  Amounts are naturals in the     *)
(* smallest unit of their currency, a market or executable rate is fiat per *)
(* crypto where nothing else is said, and a rate with a markup in it, or a share of an amount, is      *)
(* scaled: xS stands for x / Scale, xSS for x / Scale^2.  The code computes  *)
(* with doubles; what rounding it does on purpose is done here, and a       *)
(* comparison of equals is left open.                                       *)
(***************************************************************************)
EXTENDS Integers

CONSTANT Scale  \* markups and percentage fees are multiples of 1/Scale

ASSUME ScaleAssumption == Scale \in Nat \ {0, 1}

\* A platform fee: FLAT takes `value` off, PERCENTAGE value/Scale of the amount.
Fees == [type : {"FLAT", "PERCENTAGE"}, value : Nat]

LesserOf(a, b) == IF a <= b THEN a ELSE b

GreaterOf(a, b) == IF a >= b THEN a ELSE b

\* The least n with n * b >= a: ceilCrypto, ceilPayoutFiatAmount.
CeilDiv(a, b) == -((-a) \div b)
-----------------------------------------------------------------------------
(* Rates. *)

\* applyPairMarkup: a sale is priced under the market.
SellRateS(market, markup) == market * (Scale - markup)

\* A purchase is priced over it.
BuyRateS(market, markup) == market * (Scale + markup)

\* floorOfframpMarketRate: never above what the provider pays, if that is known.
Floored(rate, executable, none) ==
    IF executable = none THEN rate ELSE LesserOf(rate, executable)
-----------------------------------------------------------------------------
(* An offramp: crypto is sent, fiat received. *)

\* applyOfframpPlatformFee
FeeS(gross, fee) ==
    IF fee.type = "FLAT" THEN Scale * fee.value ELSE gross * LesserOf(fee.value, Scale)

\* computeOfframpQuoteAmounts: what is left of the crypto after both fees.
SendNetS(send, transfer, fee) ==
    GreaterOf(0, Scale * send - FeeS(send, fee) - Scale * transfer)

ReceiveSS(send, transfer, fee, rateS) == SendNetS(send, transfer, fee) * rateS

\* solveOfframpSendFromDest: the crypto to send for the recipient to get `dest`.
SolveSend(dest, transfer, fee, rateS) ==
    IF fee.type = "FLAT"
    THEN CeilDiv(dest * Scale, rateS) + transfer + fee.value
    ELSE LET k == LesserOf(fee.value, Scale - 1)
         IN  CeilDiv((dest * Scale + transfer * rateS) * Scale, rateS * (Scale - k))

\* roundPayoutFiatAmount for a currency without minor units: to the nearest.
WholeSS(receiveSS) ==
    ((2 * receiveSS + Scale * Scale) \div (2 * Scale * Scale)) * Scale * Scale

\* offrampImpliedSourceExceedsSendNet: whether buying what the recipient is to
\* get would cost more than what is left of the crypto.  The code divides
\* doubles: where the exact amounts are equal, the rounding of the quotient and
\* of what is promised decides, and may decide either way.
InsolvencyVerdicts(sendNetS, receiveSS, executable) ==
    LET left == executable * Scale * sendNetS
    IN  IF receiveSS = left THEN BOOLEAN ELSE {receiveSS > left}
-----------------------------------------------------------------------------
(* An onramp: fiat is sent, crypto received. *)

\* solveOnrampSendFromDest and ceilPayoutFiatAmount: the fiat to send for `dest`.
SolveFiat(dest, transfer, fee, rateS) ==
    IF fee.type = "FLAT"
    THEN CeilDiv((dest + transfer + fee.value) * rateS, Scale)
    ELSE LET k == LesserOf(fee.value, Scale - 1)
         IN  CeilDiv((dest + transfer) * rateS, Scale - k)

\* The same at a rate that is crypto per fiat (to === rateCurrency).
SolveFiatInverted(dest, transfer, fee, rateS) ==
    IF fee.type = "FLAT"
    THEN CeilDiv((dest + transfer + fee.value) * Scale, rateS)
    ELSE LET k == LesserOf(fee.value, Scale - 1)
         IN  CeilDiv((dest + transfer) * Scale * Scale, rateS * (Scale - k))

\* What `fiat` buys once the platform fee is taken off, times rateS * Scale, and
\* at a rate that is crypto per fiat, times Scale * Scale.
BoughtNet(fiat, fee, rateS) ==
    IF fee.type = "FLAT"
    THEN fiat * Scale * Scale - Scale * fee.value * rateS
    ELSE fiat * Scale * (Scale - LesserOf(fee.value, Scale))

BoughtNetInverted(fiat, fee, rateS) ==
    IF fee.type = "FLAT"
    THEN fiat * rateS * Scale - Scale * Scale * fee.value
    ELSE fiat * rateS * (Scale - LesserOf(fee.value, Scale))
=============================================================================
