--------------------------- MODULE PricingProofs ---------------------------
(***************************************************************************)
(* Pricing proved, in three parts: what the arithmetic of a quote           *)
(* guarantees for every amount, fee, rate and markup; two promises of       *)
(* Settings; and two of a quote that is priced while the rules change.      *)
(*                                                                         *)
(* Settings is proved for any instances, keys, values and edits and any     *)
(* number of loads and faults: an instance never falls behind an edit it    *)
(* has answered for, and every setting was recorded as set by somebody.     *)
(* The first is about loads that overlap.  A load reads no less than was    *)
(* written when it started, so what an edit wrote bounds from below every   *)
(* load that starts no earlier than the edit's own: Floors says so of the   *)
(* loads under way, in the order of their tickets, and that is why the one  *)
(* that comes back with an older ticket may be dropped and must not be      *)
(* applied.                                                                *)
(***************************************************************************)
EXTENDS Pricing, SequenceTheorems, TLAPS
-----------------------------------------------------------------------------
(* The arithmetic. *)

LEMMA CeilDivCovers ==
    ASSUME NEW a \in Int, NEW b \in Nat, b > 0
    PROVE  CeilDiv(a, b) \in Int /\ CeilDiv(a, b) * b >= a
BY DEF CeilDiv

LEMMA CeilDivNat ==
    ASSUME NEW a \in Nat, NEW b \in Nat, b > 0
    PROVE  CeilDiv(a, b) \in Nat
BY DEF CeilDiv

\* Multiplying an inequality between integers by a natural keeps it.
LEMMA Multiplied ==
    ASSUME NEW a \in Int, NEW b \in Int, NEW n \in Nat, a >= b
    PROVE  a * n >= b * n
<1>1. (a - b) * n >= 0
  <2>1. a - b \in Nat  OBVIOUS
  <2>2. QED  BY <2>1
<1>2. QED  BY <1>1

-----------------------------------------------------------------------------
\* computeOfframpQuoteAmounts and solveOfframpSendFromDest: the crypto a quote
\* asks for so that the recipient gets `dest` is worth at least `dest` at the
\* quote's rate, after the platform fee and the transfer fee are taken off.
THEOREM DestFixedIsCovered ==
    ASSUME NEW dest \in Nat, NEW transfer \in Nat, NEW rateS \in Nat, rateS > 0,
           NEW fee \in Fees, fee.type = "PERCENTAGE" => fee.value < Scale
    PROVE  ReceiveSS(SolveSend(dest, transfer, fee, rateS), transfer, fee, rateS)
             >= dest * Scale * Scale
<1> USE ScaleAssumption
<1> DEFINE send == SolveSend(dest, transfer, fee, rateS)
<1>0. Scale \in Nat /\ Scale > 1 /\ fee.value \in Nat /\ fee.type \in {"FLAT", "PERCENTAGE"}
  BY DEF Fees
<1>1. CASE fee.type = "FLAT"
  <2> DEFINE q == CeilDiv(dest * Scale, rateS)
  <2>1. dest * Scale \in Nat  BY <1>0
  <2>2. q \in Nat /\ q * rateS >= dest * Scale
    BY <2>1, CeilDivCovers, CeilDivNat
  <2>3. send = q + transfer + fee.value  BY <1>1 DEF SolveSend
  <2> HIDE DEF q
  <2>4. Scale * send - FeeS(send, fee) - Scale * transfer = Scale * q
    BY <1>0, <1>1, <2>2, <2>3 DEF FeeS
  <2>5. Scale * q \in Nat  BY <1>0, <2>2
  <2> HIDE DEF send
  <2>6. SendNetS(send, transfer, fee) = Scale * q
    BY <2>4, <2>5 DEF SendNetS, GreaterOf
  <2>7. (q * rateS) * Scale >= (dest * Scale) * Scale
    BY <1>0, <2>1, <2>2, Multiplied
  <2>8. (Scale * q) * rateS = (q * rateS) * Scale  BY <1>0, <2>2
  <2>9. QED  BY <2>6, <2>7, <2>8 DEF ReceiveSS, send
<1>2. CASE fee.type = "PERCENTAGE"
  <2> DEFINE k == fee.value
             d == rateS * (Scale - k)
             n == (dest * Scale + transfer * rateS) * Scale
  <2>1. k \in Nat /\ k < Scale /\ LesserOf(k, Scale - 1) = k /\ LesserOf(k, Scale) = k
    BY <1>0, <1>2 DEF LesserOf
  <2>2. n \in Nat  BY <1>0
  <2>3. Scale - k \in Nat /\ Scale - k > 0  BY <1>0, <2>1
  <2>4. d \in Nat /\ d > 0  BY <2>3
  <2>5. send = CeilDiv(n, d)  BY <1>2, <2>1 DEF SolveSend
  <2>6. send \in Nat /\ send * d >= n
    <3> HIDE DEF send, d, n
    <3>1. QED  BY <2>2, <2>4, <2>5, CeilDivCovers, CeilDivNat
  <2>7. FeeS(send, fee) = send * k  BY <1>2, <2>1 DEF FeeS
  <2> HIDE DEF send, k
  <2> DEFINE rest == Scale * send - send * k - Scale * transfer
  <2>8. rest \in Int  BY <1>0, <2>1, <2>6
  <2>9. rest * rateS = send * d - Scale * (transfer * rateS)
    BY <1>0, <2>1, <2>6
  <2>10. n = dest * Scale * Scale + Scale * (transfer * rateS)  BY <1>0
  <2>11. dest * Scale * Scale \in Nat /\ Scale * (transfer * rateS) \in Nat /\ send * d \in Int
    BY <1>0, <2>4, <2>6
  <2> HIDE DEF d, n
  <2>12. rest * rateS >= dest * Scale * Scale
    BY <2>6, <2>9, <2>10, <2>11
  <2>13. SendNetS(send, transfer, fee) = GreaterOf(0, rest)
    BY <2>7 DEF SendNetS
  <2> HIDE DEF rest
  <2>14. GreaterOf(0, rest) \in Int /\ GreaterOf(0, rest) >= rest  BY <2>8 DEF GreaterOf
  <2>15. GreaterOf(0, rest) * rateS >= rest * rateS
    BY <2>8, <2>14, Multiplied
  <2>16. GreaterOf(0, rest) * rateS \in Int /\ rest * rateS \in Int  BY <2>8, <2>14
  <2>17. QED  BY <2>11, <2>12, <2>13, <2>15, <2>16 DEF ReceiveSS, send
<1>3. QED  BY <1>0, <1>1, <1>2

\* A sale priced below the executable rate is found solvent, however doubles are
\* rounded: createOfframpQuote's comment, "so solvency does not 422 a corridor we
\* can actually fund".  It holds for what a send buys, and for a fixed `dest` that
\* the send covers.
THEOREM FlooredIsSolvent ==
    ASSUME NEW sendNetS \in Nat \ {0}, NEW receiveSS \in Nat, NEW rateS \in Nat,
           NEW executable \in Nat,
           rateS < executable * Scale, receiveSS <= sendNetS * rateS
    PROVE  InsolvencyVerdicts(sendNetS, receiveSS, executable) = {FALSE}
<1>1. executable * Scale \in Nat  BY ScaleAssumption
<1> DEFINE e == executable * Scale
<1> HIDE DEF e
<1>2. e * sendNetS >= (rateS + 1) * sendNetS
  BY <1>1, Multiplied DEF e
<1>3. e * sendNetS \in Nat /\ (rateS + 1) * sendNetS = sendNetS * rateS + sendNetS
  BY <1>1 DEF e
<1>4. receiveSS < e * sendNetS  BY <1>2, <1>3
<1>5. receiveSS # e * sendNetS /\ ~(receiveSS > e * sendNetS)  BY <1>3, <1>4
<1> DEFINE left == e * sendNetS
<1>6. InsolvencyVerdicts(sendNetS, receiveSS, executable) =
        IF receiveSS = left THEN BOOLEAN ELSE {receiveSS > left}
  BY DEF InsolvencyVerdicts, e
<1>7. (receiveSS > left) = FALSE  BY <1>3, <1>4
<1> HIDE DEF left
<1>8. QED  BY <1>5, <1>6, <1>7 DEF left

\* A markup is taken off what remains after the cap at the executable rate, so
\* the rate stays below both the market and what the provider pays.
THEOREM MarkupAfterFloor ==
    ASSUME NEW market \in Nat, NEW executable \in Nat, NEW none, executable # none,
           NEW markup \in 0 .. Scale
    PROVE  LET rateS == SellRateS(Floored(market, executable, none), markup)
           IN  /\ rateS \in Nat
               /\ rateS <= executable * (Scale - markup)
               /\ rateS <= market * (Scale - markup)
<1> DEFINE f == Floored(market, executable, none)
<1>1. f \in Nat /\ f <= market /\ f <= executable  BY DEF Floored, LesserOf
<1>2. Scale - markup \in Nat  BY ScaleAssumption
<1> HIDE DEF f
<1>3. /\ executable * (Scale - markup) >= f * (Scale - markup)
      /\ market * (Scale - markup) >= f * (Scale - markup)
  BY <1>1, <1>2, Multiplied
<1>4. f * (Scale - markup) \in Nat  BY <1>1, <1>2
<1>5. SellRateS(f, markup) = f * (Scale - markup)  BY DEF SellRateS
<1>6. /\ executable * (Scale - markup) \in Int /\ market * (Scale - markup) \in Int
  BY <1>2
<1>7. QED  BY <1>3, <1>4, <1>5, <1>6 DEF f

\* solveOnrampSendFromDest and ceilPayoutFiatAmount: the fiat a quote asks for
\* buys at least the crypto promised and the network's fee, after the platform
\* fee: "dest-fixed send cannot undershoot receive".
THEOREM OnrampDestIsCovered ==
    ASSUME NEW dest \in Nat, NEW transfer \in Nat, NEW rateS \in Nat, rateS > 0,
           NEW fee \in Fees, fee.type = "PERCENTAGE" => fee.value < Scale
    PROVE  BoughtNet(SolveFiat(dest, transfer, fee, rateS), fee, rateS)
             >= (dest + transfer) * rateS * Scale
<1> USE ScaleAssumption
<1> DEFINE fiat == SolveFiat(dest, transfer, fee, rateS)
           r == (dest + transfer) * rateS
<1>0. Scale \in Nat /\ Scale > 1 /\ fee.value \in Nat /\ fee.type \in {"FLAT", "PERCENTAGE"}
  BY DEF Fees
<1>1. r \in Nat  OBVIOUS
<1>2. CASE fee.type = "FLAT"
  <2> DEFINE a == (dest + transfer + fee.value) * rateS
  <2>1. a \in Nat /\ a = r + fee.value * rateS  BY <1>0
  <2>2. fiat = CeilDiv(a, Scale)  BY <1>2 DEF SolveFiat
  <2> HIDE DEF a, r, fiat
  <2>3. fiat \in Int /\ fiat * Scale >= a  BY <1>0, <2>1, <2>2, CeilDivCovers
  <2>4. fiat * Scale \in Int /\ fee.value * rateS \in Nat  BY <1>0, <2>3
  <2>5. (fiat * Scale) * Scale >= a * Scale  BY <1>0, <2>1, <2>3, <2>4, Multiplied
  <2>6. a * Scale = r * Scale + (fee.value * rateS) * Scale  BY <1>0, <1>1, <2>1, <2>4
  <2>7. BoughtNet(fiat, fee, rateS) = (fiat * Scale) * Scale - (fee.value * rateS) * Scale
    BY <1>0, <1>2, <2>3 DEF BoughtNet
  <2>8. /\ (fiat * Scale) * Scale \in Int /\ a * Scale \in Int
        /\ r * Scale \in Int /\ (fee.value * rateS) * Scale \in Int
    BY <1>0, <1>1, <2>1, <2>4
  <2>9. QED  BY <2>5, <2>6, <2>7, <2>8 DEF r, fiat
<1>3. CASE fee.type = "PERCENTAGE"
  <2> DEFINE k == fee.value
             d == Scale - k
  <2>1. k \in Nat /\ k < Scale /\ LesserOf(k, Scale - 1) = k /\ LesserOf(k, Scale) = k
    BY <1>0, <1>3 DEF LesserOf
  <2>2. d \in Nat /\ d > 0  BY <1>0, <2>1
  <2>3. fiat = CeilDiv(r, d)  BY <1>3, <2>1 DEF SolveFiat
  <2>4. BoughtNet(fiat, fee, rateS) = fiat * Scale * d  BY <1>3, <2>1 DEF BoughtNet
  <2> HIDE DEF d, r, fiat
  <2>5. fiat \in Int /\ fiat * d >= r  BY <1>1, <2>2, <2>3, CeilDivCovers
  <2>6. fiat * d \in Int /\ fiat * Scale * d = (fiat * d) * Scale  BY <1>0, <2>2, <2>5
  <2>7. (fiat * d) * Scale >= r * Scale  BY <1>0, <1>1, <2>5, <2>6, Multiplied
  <2>8. QED  BY <2>4, <2>6, <2>7 DEF r, fiat
<1>4. QED  BY <1>0, <1>2, <1>3

\* And the same at a rate that is crypto per fiat.
THEOREM OnrampDestIsCoveredInverted ==
    ASSUME NEW dest \in Nat, NEW transfer \in Nat, NEW rateS \in Nat, rateS > 0,
           NEW fee \in Fees, fee.type = "PERCENTAGE" => fee.value < Scale
    PROVE  BoughtNetInverted(SolveFiatInverted(dest, transfer, fee, rateS), fee, rateS)
             >= (dest + transfer) * Scale * Scale
<1> USE ScaleAssumption
<1> DEFINE fiat == SolveFiatInverted(dest, transfer, fee, rateS)
<1>0. Scale \in Nat /\ Scale > 1 /\ fee.value \in Nat /\ fee.type \in {"FLAT", "PERCENTAGE"}
  BY DEF Fees
<1>1. CASE fee.type = "FLAT"
  <2> DEFINE a == (dest + transfer + fee.value) * Scale
  <2>1. a \in Nat  BY <1>0
  <2>2. fiat = CeilDiv(a, rateS)  BY <1>1 DEF SolveFiatInverted
  <2> HIDE DEF a, fiat
  <2>3. fiat \in Int /\ fiat * rateS >= a  BY <2>1, <2>2, CeilDivCovers
  <2>4. fiat * rateS \in Int  BY <2>3
  <2>5. (fiat * rateS) * Scale >= a * Scale  BY <1>0, <2>1, <2>3, <2>4, Multiplied
  <2>6. a * Scale = (dest + transfer) * Scale * Scale + Scale * Scale * fee.value
    BY <1>0 DEF a
  <2>7. BoughtNetInverted(fiat, fee, rateS) = (fiat * rateS) * Scale - Scale * Scale * fee.value
    BY <1>1 DEF BoughtNetInverted
  <2>8. /\ (fiat * rateS) * Scale \in Int /\ a * Scale \in Int
        /\ (dest + transfer) * Scale * Scale \in Int /\ Scale * Scale * fee.value \in Int
    BY <1>0, <2>1, <2>4
  <2>9. QED  BY <2>5, <2>6, <2>7, <2>8 DEF fiat
<1>2. CASE fee.type = "PERCENTAGE"
  <2> DEFINE k == fee.value
             d == rateS * (Scale - k)
             a == (dest + transfer) * Scale * Scale
  <2>1. k \in Nat /\ k < Scale /\ LesserOf(k, Scale - 1) = k /\ LesserOf(k, Scale) = k
    BY <1>0, <1>2 DEF LesserOf
  <2>2. Scale - k \in Nat /\ Scale - k > 0  BY <1>0, <2>1
  <2>3. d \in Nat /\ d > 0  BY <2>2
  <2>4. a \in Nat  BY <1>0
  <2>5. fiat = CeilDiv(a, d)  BY <1>2, <2>1 DEF SolveFiatInverted
  <2>6. BoughtNetInverted(fiat, fee, rateS) = fiat * rateS * (Scale - k)
    BY <1>2, <2>1 DEF BoughtNetInverted
  <2>7. fiat \in Int /\ fiat * d >= a
    <3> HIDE DEF fiat, d, a
    <3>1. QED  BY <2>3, <2>4, <2>5, CeilDivCovers
  <2> HIDE DEF fiat, a
  <2>8. fiat * rateS * (Scale - k) = fiat * d  BY <2>2, <2>7
  <2>9. QED  BY <2>6, <2>7, <2>8 DEF fiat, a
<1>3. QED  BY <1>0, <1>1, <1>2
-----------------------------------------------------------------------------
(* Settings. *)

Settings == Values \cup {None}
Ids == Edits \cup {"seed", None}

RulesType == [markup : [MarkupKeys -> Settings], version : Nat]

EditType ==
    [pc : {"todo", "read", "find", "write", "remove", "audit", "reload", "wait", "done"},
     at : Instances \cup {None}, key : Keys \cup {None}, to : Settings,
     id : Ids, seen : Settings, wrote : Nat]

LoadType ==
    [by : Edits \cup {None}, read : {<< >>} \cup {<<r>> : r \in RulesType}, stale : BOOLEAN]

Types ==
    /\ table \in [rows : [Keys -> Row], version : Nat]
    /\ editor \in [Edits -> EditType]
    /\ rules \in [Instances -> RulesType]
    /\ loads \in [Instances -> Seq(LoadType)]
    /\ acked \in [Instances -> Nat]
    /\ faults \in Nat

\* What an edit is about, and that one which removes a setting sets nothing.
EditsInv ==
    \A e \in Edits :
        LET c == editor[e] IN
        /\ c.pc \in {"read", "find", "write", "remove", "audit"} => c.key \in Keys
        /\ c.pc \in {"find", "remove"} => c.to = None
        /\ c.wrote <= table.version

HasRead(load) == load.read # << >>
VersionRead(load) == load.read[1].version

\* The write that the edit a load runs for has made.
WroteFor(load, ed) == IF load.by = None THEN 0 ELSE ed[load.by].wrote

\* A load under way: of an edit that waits, if of any; it has read no more than
\* there is (`written`) and, unless it is stale, no less than was answered for
\* (`answered`); a stale one's edit has reached the rules held (`held`).
LoadSound(load, ed, written, held, answered) ==
    /\ load.by # None => ed[load.by].pc \in {"wait", "done"}
    /\ HasRead(load) => VersionRead(load) <= written
    /\ HasRead(load) /\ ~load.stale => answered <= VersionRead(load)
    /\ load.stale => WroteFor(load, ed) <= held

\* A load and one of no older ticket: this has read what that one's edit wrote,
\* and is stale only if that one is.
PairSound(load, later, ed) ==
    /\ HasRead(later) => WroteFor(load, ed) <= VersionRead(later)
    /\ later.stale => load.stale

LoadsSound(s, ed, written, held, answered) ==
    /\ answered <= held /\ held <= written
    /\ \A n \in DOMAIN s : LoadSound(s[n], ed, written, held, answered)
    /\ \A n, m \in DOMAIN s : n <= m => PairSound(s[n], s[m], ed)

\* The loads of instance i under way, oldest ticket first.
Floors(i) == LoadsSound(loads[i], editor, table.version, rules[i].version, acked[i])

FloorsInv == \A i \in Instances : Floors(i)

\* Why a setting is what it is.
Untouched(k) ==
    \/ /\ table.rows[k].id = "seed" /\ k \in MarkupKeys
       /\ table.rows[k].value = ConfigRules[k]
    \/ table.rows[k] = NoRow /\ (k \in MarkupKeys => ConfigRules[k] = None)
InTrail(k, v) == \E r \in audit : r.key = k /\ r.to = v
BeingRecorded(k, v) ==
    \E e \in Edits : editor[e].pc = "audit" /\ editor[e].key = k /\ editor[e].to = v
Explained(k) ==
    \/ Untouched(k)
    \/ InTrail(k, table.rows[k].value)
    \/ BeingRecorded(k, table.rows[k].value)
TrailInv == faults = 0 => \A k \in Keys : Explained(k)

SInv == Types /\ EditsInv /\ FloorsInv /\ TrailInv
-----------------------------------------------------------------------------
\* Done is where an edit ends.
LEMMA DoneIsEdit ==
    /\ Done \in EditType /\ Done.pc = "done" /\ Done.wrote = 0
    /\ Todo \in EditType /\ Todo.pc = "todo" /\ Todo.wrote = 0 /\ Todo.to = None
  BY DEF Done, Todo, EditType, Settings, Ids

LEMMA NoRowIsRow == NoRow \in Row /\ NoRow.value = None
  BY DEF NoRow, Row

LEMMA NoneIsNoEdit == None \notin Edits
  BY SettingsAssumption

LEMMA LoadVersion ==
    ASSUME NEW load \in LoadType
    PROVE /\ load.by \in Edits \cup {None} /\ load.stale \in BOOLEAN
          /\ HasRead(load) => VersionRead(load) \in Nat /\ load.read[1] \in RulesType
  BY DEF HasRead, VersionRead, LoadType, RulesType

\* A sequence without its n-th element.
LEMMA WithoutAt ==
    ASSUME NEW S, NEW s \in Seq(S), NEW n \in 1 .. Len(s)
    PROVE /\ Without(s, n) \in Seq(S)
          /\ DOMAIN Without(s, n) = 1 .. Len(s) - 1
          /\ \A k \in 1 .. Len(s) - 1 :
               /\ k < n => Without(s, n)[k] = s[k]
               /\ k >= n => Without(s, n)[k] = s[k + 1]
  <1> DEFINE a == SubSeq(s, 1, n - 1)
             b == SubSeq(s, n + 1, Len(s))
  <1>1. Len(s) \in Nat /\ \A k \in 1 .. Len(s) : s[k] \in S
    BY LenProperties, ElementOfSeq
  <1>2. /\ a \in Seq(S) /\ Len(a) = n - 1
        /\ \A k \in 1 .. n - 1 : a[k] = s[k]
    <2>1. \A k \in 1 .. n - 1 : s[k] \in S
      BY <1>1
    <2> QED
      BY <1>1, <2>1, SubSeqProperties, Z3
  <1>3. /\ b \in Seq(S) /\ Len(b) = Len(s) - n
        /\ \A k \in 1 .. Len(s) - n : b[k] = s[n + k]
    <2>1. \A k \in n + 1 .. Len(s) : s[k] \in S
      BY <1>1
    <2>2. n + 1 \in Int /\ Len(s) \in Int
      BY <1>1
    <2>3. /\ b \in Seq(S)
          /\ Len(b) = IF n + 1 <= Len(s) THEN Len(s) - (n + 1) + 1 ELSE 0
          /\ \A k \in 1 .. Len(s) - (n + 1) + 1 : b[k] = s[n + 1 + k - 1]
      BY <2>1, <2>2, SubSeqProperties
    <2> QED
      BY <1>1, <2>3
  <1> HIDE DEF a, b
  <1>4. /\ a \o b \in Seq(S) /\ Len(a \o b) = Len(a) + Len(b)
        /\ \A k \in 1 .. Len(a) + Len(b) :
             (a \o b)[k] = IF k <= Len(a) THEN a[k] ELSE b[k - Len(a)]
    BY <1>2, <1>3, ConcatProperties
  <1>5. DOMAIN (a \o b) = 1 .. Len(s) - 1
    BY <1>1, <1>2, <1>3, <1>4, LenProperties
  <1>6. ASSUME NEW k \in 1 .. Len(s) - 1
        PROVE /\ k < n => (a \o b)[k] = s[k]
              /\ k >= n => (a \o b)[k] = s[k + 1]
    <2>1. ASSUME k < n PROVE (a \o b)[k] = s[k]
      <3>1. k \in 1 .. n - 1
        BY <1>1, <2>1
      <3>2. (a \o b)[k] = a[k] /\ a[k] = s[k]
        BY <1>1, <1>2, <1>3, <1>4, <3>1
      <3> QED
        BY <2>1, <3>2
    <2>2. ASSUME k >= n PROVE (a \o b)[k] = s[k + 1]
      <3>1. k - (n - 1) \in 1 .. Len(s) - n
        BY <1>1, <2>2
      <3>2. (a \o b)[k] = b[k - (n - 1)]
        BY <1>1, <1>2, <1>3, <1>4, <2>2
      <3>3. b[k - (n - 1)] = s[n + (k - (n - 1))]
        BY <1>3, <3>1
      <3>4. n + (k - (n - 1)) = k + 1
        BY <1>1
      <3> QED
        BY <2>2, <3>2, <3>3, <3>4
    <2> QED
      BY <2>1, <2>2
  <1> QED
    BY <1>4, <1>5, <1>6 DEF Without, a, b

\* An empty sequence of loads has no elements.
LEMMA NoLoads == << >> \in Seq(LoadType) /\ DOMAIN << >> = {}
  <1>1. << >> \in Seq(LoadType) /\ Len(<< >>) = 0
    BY EmptySeq
  <1> QED
    BY <1>1, LenProperties

\* The rules an instance starts with.
LEMMA BuiltIn == [markup |-> ConfigRules, version |-> 0] \in RulesType
  BY SettingsAssumption DEF RulesType, Settings

LEMMA InitInv == Init => SInv
  <1> SUFFICES ASSUME Init PROVE SInv
    OBVIOUS
  <1>1. \A k \in MarkupKeys : ConfigRules[k] \in Values \cup {None}
    BY SettingsAssumption
  <1>2. /\ table.version = 0
        /\ table \in [rows : [Keys -> Row], version : Nat]
        /\ \A k \in Keys : table.rows[k] =
             IF k \in MarkupKeys /\ ConfigRules[k] # None
             THEN [value |-> ConfigRules[k], id |-> "seed"] ELSE NoRow
    BY <1>1, NoRowIsRow DEF Init, SettingsInit, Row
  <1>3. Types
    BY <1>2, DoneIsEdit, NoLoads, BuiltIn DEF Init, SettingsInit, Types
  <1>4. EditsInv
    BY <1>2, DoneIsEdit DEF Init, SettingsInit, EditsInv
  <1>5. FloorsInv
    BY <1>2, NoLoads DEF Init, SettingsInit, FloorsInv, Floors, LoadsSound
  <1>6. ASSUME NEW k \in Keys PROVE Untouched(k)
    <2>1. CASE k \in MarkupKeys /\ ConfigRules[k] # None
      <3>1. table.rows[k] = [value |-> ConfigRules[k], id |-> "seed"]
        BY <1>2, <2>1
      <3>2. table.rows[k].value = ConfigRules[k] /\ table.rows[k].id = "seed"
        BY <3>1
      <3> QED
        BY <2>1, <3>2 DEF Untouched
    <2>2. CASE ~(k \in MarkupKeys /\ ConfigRules[k] # None)
      <3>1. table.rows[k] = NoRow
        BY <1>2, <2>2
      <3> QED
        BY <2>2, <3>1 DEF Untouched
    <2> QED
      BY <2>1, <2>2
  <1>7. TrailInv
    BY <1>6 DEF TrailInv, Explained
  <1> QED
    BY <1>3, <1>4, <1>5, <1>7 DEF SInv
-----------------------------------------------------------------------------
(* What is said of a load stays true when edits but wait or end. *)

\* The edits that loads run for have not written more.
Calmer(load, ed, now) ==
    /\ load.by # None => now[load.by].pc \in {"wait", "done"}
    /\ WroteFor(load, now) \in Nat /\ WroteFor(load, ed) \in Nat
    /\ WroteFor(load, now) <= WroteFor(load, ed)

LEMMA LoadStaysSound ==
    ASSUME NEW load \in LoadType, NEW ed, NEW now, NEW w \in Nat, NEW v \in Nat,
           NEW held \in Nat, NEW answered \in Nat, w <= v,
           LoadSound(load, ed, w, held, answered), Calmer(load, ed, now)
    PROVE LoadSound(load, now, v, held, answered)
  <1>1. HasRead(load) => VersionRead(load) \in Nat
    BY LoadVersion
  <1>2. HasRead(load) => VersionRead(load) <= v
    BY <1>1 DEF LoadSound
  <1>3. load.stale => WroteFor(load, now) <= held
    BY DEF LoadSound, Calmer
  <1> QED
    BY <1>2, <1>3 DEF LoadSound, Calmer

LEMMA PairStaysSound ==
    ASSUME NEW load \in LoadType, NEW later \in LoadType, NEW ed, NEW now,
           PairSound(load, later, ed), Calmer(load, ed, now)
    PROVE PairSound(load, later, now)
  <1>1. HasRead(later) => VersionRead(later) \in Nat
    BY LoadVersion
  <1> QED
    BY <1>1 DEF PairSound, Calmer

LEMMA StaysFloored ==
    ASSUME NEW s \in Seq(LoadType), NEW ed, NEW now, NEW w \in Nat, NEW v \in Nat,
           NEW held \in Nat, NEW answered \in Nat, w <= v,
           LoadsSound(s, ed, w, held, answered),
           \A n \in DOMAIN s : Calmer(s[n], ed, now)
    PROVE LoadsSound(s, now, v, held, answered)
  <1>1. \A n \in DOMAIN s : s[n] \in LoadType
    BY LenProperties
  <1>2. ASSUME NEW n \in DOMAIN s PROVE LoadSound(s[n], now, v, held, answered)
    BY <1>1, LoadStaysSound DEF LoadsSound
  <1>3. ASSUME NEW n \in DOMAIN s, NEW m \in DOMAIN s, n <= m
        PROVE PairSound(s[n], s[m], now)
    BY <1>1, <1>3, PairStaysSound DEF LoadsSound
  <1>4. answered <= held /\ held <= v
    BY DEF LoadsSound
  <1> QED
    BY <1>2, <1>3, <1>4 DEF LoadsSound

-----------------------------------------------------------------------------
(* The steps of an edit, of which no load is waited for. *)

EditMoves(e, c) ==
    /\ editor[e].pc \notin {"wait", "done"}
    /\ editor' = [editor EXCEPT ![e] = c]
    /\ c \in EditType
    /\ c.pc \in {"read", "find", "write", "remove", "audit"} => c.key \in Keys
    /\ c.pc \in {"find", "remove"} => c.to = None
    /\ table' \in [rows : [Keys -> Row], version : Nat]
    /\ c.wrote <= table'.version /\ table.version <= table'.version
    /\ faults' \in Nat
    /\ UNCHANGED <<rules, loads, acked>>

LEMMA EditMovesInv ==
    ASSUME SInv, NEW e \in Edits, NEW c, EditMoves(e, c)
    PROVE Types' /\ EditsInv' /\ FloorsInv'
  <1>1. /\ editor' \in [Edits -> EditType]
        /\ \A f \in Edits : editor'[f] = IF f = e THEN c ELSE editor[f]
    BY DEF SInv, Types, EditMoves
  <1>2. Types'
    BY <1>1 DEF SInv, Types, EditMoves
  <1>3. \A f \in Edits : editor[f].wrote \in Nat
    BY DEF SInv, Types, EditType
  <1>4. table.version \in Nat /\ table'.version \in Nat /\ c.wrote \in Nat
    BY DEF SInv, Types, EditMoves, EditType
  <1>5. EditsInv'
    BY <1>1, <1>3, <1>4 DEF SInv, EditsInv, EditMoves
  <1>6. ASSUME NEW i \in Instances
        PROVE Floors(i)'
    <2>1. /\ Floors(i) /\ rules' = rules /\ loads' = loads /\ acked' = acked
          /\ rules[i].version \in Nat /\ acked[i] \in Nat /\ loads[i] \in Seq(LoadType)
      BY DEF SInv, Types, FloorsInv, EditMoves, RulesType
    <2>2. ASSUME NEW n \in DOMAIN loads[i]
          PROVE Calmer(loads[i][n], editor, editor')
      <3> DEFINE load == loads[i][n]
      <3>1. load \in LoadType /\ load.by \in Edits \cup {None}
        BY <2>1, LenProperties, LoadVersion
      <3>2. load.by # None => editor[load.by].pc \in {"wait", "done"}
        BY <2>1 DEF Floors, LoadsSound, LoadSound
      <3> HIDE DEF load
      <3>3. load.by # None => load.by # e
        BY <3>2 DEF EditMoves
      <3>4. load.by # None => editor'[load.by] = editor[load.by]
        BY <1>1, <3>1, <3>3
      <3>5. Calmer(load, editor, editor')
        BY <1>3, <3>1, <3>2, <3>4 DEF Calmer, WroteFor
      <3> QED
        BY <3>5 DEF load
    <2>3. table.version <= table'.version
      BY DEF EditMoves
    <2>4. LoadsSound(loads[i], editor', table'.version, rules[i].version, acked[i])
      BY <1>4, <2>1, <2>2, <2>3, StaysFloored DEF Floors
    <2> QED
      BY <2>1, <2>4 DEF Floors
  <1> QED
    BY <1>2, <1>5, <1>6 DEF FloorsInv

\* Steps that write no setting and lose no record that is about to be made.
LEMMA TrailKept ==
    ASSUME Types, TrailInv, table'.rows = table.rows, audit \subseteq audit',
           faults' = 0 => faults = 0,
           \A f \in Edits : editor[f].pc = "audit" =>
              \/ editor'[f] = editor[f] \/ faults' # 0
              \/ \E r \in audit' : r.key = editor[f].key /\ r.to = editor[f].to
    PROVE TrailInv'
  <1> SUFFICES ASSUME faults' = 0, NEW k \in Keys PROVE Explained(k)'
    BY DEF TrailInv
  <1>1. Explained(k)
    BY DEF TrailInv
  <1>2. CASE Untouched(k)
    BY <1>2 DEF Explained, Untouched
  <1>3. CASE InTrail(k, table.rows[k].value)
    BY <1>3 DEF Explained, InTrail
  <1>4. CASE BeingRecorded(k, table.rows[k].value)
    BY <1>4 DEF Explained, BeingRecorded, InTrail
  <1> QED
    BY <1>1, <1>2, <1>3, <1>4 DEF Explained

\* An edit that has not written yet goes on, or ends.
GoesOn(e, c) ==
    /\ editor[e].pc \in {"todo", "read", "find", "write", "remove"}
    /\ editor' = [editor EXCEPT ![e] = c]
    /\ c \in EditType
    /\ c.pc \in {"read", "find", "write", "remove", "audit"} => c.key \in Keys
    /\ c.pc \in {"find", "remove"} => c.to = None
    /\ c.wrote <= table.version
    /\ UNCHANGED <<table, audit, rules, loads, acked, faults>>

LEMMA GoesOnInv ==
    ASSUME SInv, NEW e \in Edits, NEW c, GoesOn(e, c)
    PROVE SInv'
  <1>1. EditMoves(e, c)
    BY DEF SInv, Types, GoesOn, EditMoves
  <1>2. \A f \in Edits : editor[f].pc = "audit" => editor'[f] = editor[f]
    BY DEF SInv, Types, GoesOn
  <1>3. TrailInv'
    BY <1>2, TrailKept DEF SInv, GoesOn
  <1> QED
    BY <1>1, <1>3, EditMovesInv DEF SInv

LEMMA SaveInv ==
    ASSUME SInv, NEW e \in Edits, NEW i \in Instances, NEW k \in Keys,
           NEW v \in Values \cup {None}, Save(e, i, k, v)
    PROVE SInv'
  <1> DEFINE c == [Todo EXCEPT !.pc = "read", !.at = i, !.key = k, !.to = v]
  <1>1. c \in EditType /\ c.pc = "read" /\ c.key = k /\ c.wrote = 0
    BY DoneIsEdit DEF EditType, Settings
  <1>2. table.version \in Nat
    BY DEF SInv, Types
  <1>3. GoesOn(e, c)
    BY <1>1, <1>2 DEF GoesOn, Save, At
  <1> QED
    BY <1>3, GoesOnInv

LEMMA DeleteInv ==
    ASSUME SInv, NEW e \in Edits, NEW i \in Instances, NEW k \in Keys, Delete(e, i, k)
    PROVE SInv'
  <1> DEFINE c == [Todo EXCEPT !.pc = "find", !.at = i, !.key = k, !.id = table.rows[k].id]
  <1>1. table.version \in Nat /\ table.rows[k] \in Row
    BY DEF SInv, Types
  <1>2. c \in EditType /\ c.pc = "find" /\ c.key = k /\ c.wrote = 0 /\ c.to = None
    BY <1>1, DoneIsEdit DEF EditType, Settings, Ids, Row
  <1>3. GoesOn(e, c)
    BY <1>1, <1>2 DEF GoesOn, Delete, At
  <1> QED
    BY <1>3, GoesOnInv

LEMMA ReadInv ==
    ASSUME SInv, NEW e \in Edits, Read(e)
    PROVE SInv'
  <1> DEFINE d == editor[e]
             row == table.rows[d.key]
             c == IF d.to = row.value THEN Done
                  ELSE [d EXCEPT !.pc = IF d.to = None THEN "remove" ELSE "write",
                                 !.seen = row.value, !.id = row.id]
  <1>1. /\ d \in EditType /\ d.pc = "read" /\ d.key \in Keys /\ d.wrote <= table.version
        /\ row \in Row /\ table.version \in Nat
    BY DEF SInv, Types, EditsInv, Read, Blank, At
  <1>2. CASE d.to = row.value
    <2>1. GoesOn(e, Done)
      BY <1>1, <1>2, DoneIsEdit DEF Read, Blank, GoesOn
    <2> QED
      BY <2>1, GoesOnInv
  <1>3. CASE d.to # row.value
    <2>1. /\ c \in EditType /\ c.key = d.key /\ c.wrote = d.wrote /\ c.to = d.to
          /\ c.pc = IF d.to = None THEN "remove" ELSE "write"
      BY <1>1, <1>3 DEF EditType, Settings, Ids, Row
    <2>2. GoesOn(e, c)
      BY <1>1, <1>3, <2>1 DEF Read, Blank, GoesOn
    <2> QED
      BY <2>2, GoesOnInv
  <1> QED
    BY <1>2, <1>3

LEMMA FindInv ==
    ASSUME SInv, NEW e \in Edits, Find(e)
    PROVE SInv'
  <1> DEFINE d == editor[e]
             row == table.rows[d.key]
             c == [d EXCEPT !.pc = "remove", !.seen = row.value]
  <1>1. /\ d \in EditType /\ d.pc = "find" /\ d.key \in Keys /\ d.wrote <= table.version
        /\ row \in Row /\ table.version \in Nat /\ d.to = None
    BY DEF SInv, Types, EditsInv, Find, At
  <1>2. CASE row.id # d.id
    <2>1. GoesOn(e, Done)
      BY <1>1, <1>2, DoneIsEdit DEF Find, GoesOn
    <2> QED
      BY <2>1, GoesOnInv
  <1>3. CASE row.id = d.id
    <2>1. /\ c \in EditType /\ c.key = d.key /\ c.wrote = d.wrote /\ c.to = d.to
          /\ c.pc = "remove"
      BY <1>1 DEF EditType, Settings, Row
    <2>2. GoesOn(e, c)
      BY <1>1, <1>3, <2>1 DEF Find, GoesOn
    <2> QED
      BY <2>2, GoesOnInv
  <1> QED
    BY <1>2, <1>3

\* A row is written: what it says now, its edit is about to record.
LEMMA WrittenInv ==
    ASSUME SInv, NEW e \in Edits, NEW row \in Row, Written(e, row),
           editor[e].pc \in {"write", "remove"}, row.value = editor[e].to,
           UNCHANGED <<audit, rules, loads, acked, faults>>
    PROVE SInv'
  <1> DEFINE d == editor[e]
             c == [d EXCEPT !.pc = "audit", !.wrote = table.version + 1, !.id = None]
  <1>1. /\ d \in EditType /\ d.key \in Keys /\ table.version \in Nat
        /\ table.rows \in [Keys -> Row] /\ editor \in [Edits -> EditType] /\ faults \in Nat
    BY DEF SInv, Types, EditsInv
  <1>2. /\ c \in EditType /\ c.pc = "audit" /\ c.key = d.key /\ c.to = d.to
        /\ c.wrote = table.version + 1
    <2> DEFINE v == table.version + 1
    <2>1. v \in Nat /\ None \in Ids
      BY <1>1 DEF Ids
    <2> HIDE DEF v
    <2>2. [d EXCEPT !.pc = "audit", !.wrote = v, !.id = None] \in EditType
      BY <1>1, <2>1 DEF EditType
    <2>3. c = [d EXCEPT !.pc = "audit", !.wrote = v, !.id = None]
      BY DEF v
    <2>4. /\ c.pc = "audit" /\ c.key = d.key /\ c.to = d.to /\ c.wrote = v
      BY <1>1, <2>3 DEF EditType
    <2> QED
      BY <2>2, <2>3, <2>4 DEF v
  <1>3. editor' = [editor EXCEPT ![e] = c]
    BY DEF Written
  <1> HIDE DEF c
  <1>4. /\ table'.version = table.version + 1
        /\ table'.rows = [table.rows EXCEPT ![d.key] = row]
        /\ table' \in [rows : [Keys -> Row], version : Nat]
    BY <1>1 DEF Written
  <1>5. EditMoves(e, c)
    BY <1>1, <1>2, <1>3, <1>4 DEF EditMoves
  <1>6. TrailInv'
    <2> SUFFICES ASSUME faults' = 0, NEW k \in Keys PROVE Explained(k)'
      BY DEF TrailInv
    <2>1. Explained(k)
      BY DEF SInv, TrailInv
    <2>2. CASE k = d.key
      <3>1. editor'[e] = c /\ table'.rows[k] = row
        BY <1>1, <1>3, <1>4, <2>2
      <3>2. BeingRecorded(k, table.rows[k].value)'
        BY <1>2, <2>2, <3>1 DEF BeingRecorded
      <3> QED
        BY <3>2 DEF Explained
    <2>3. CASE k # d.key
      <3>1. table'.rows[k] = table.rows[k]
        BY <1>1, <1>4, <2>3
      <3>2. \A f \in Edits : editor[f].pc = "audit" => editor'[f] = editor[f]
        BY <1>1, <1>3
      <3>3. CASE Untouched(k)
        BY <3>1, <3>3 DEF Explained, Untouched
      <3>4. CASE InTrail(k, table.rows[k].value)
        BY <3>1, <3>4 DEF Explained, InTrail
      <3>5. CASE BeingRecorded(k, table.rows[k].value)
        BY <3>1, <3>2, <3>5 DEF Explained, BeingRecorded
      <3> QED
        BY <2>1, <3>3, <3>4, <3>5 DEF Explained
    <2> QED
      BY <2>2, <2>3
  <1> QED
    BY <1>5, <1>6, EditMovesInv DEF SInv

LEMMA UpsertInv ==
    ASSUME SInv, NEW e \in Edits, Upsert(e)
    PROVE SInv'
  <1> DEFINE d == editor[e]
             row == [value |-> d.to,
                     id |-> IF table.rows[d.key] = NoRow THEN e ELSE table.rows[d.key].id]
  <1>1. /\ d \in EditType /\ d.pc = "write" /\ d.key \in Keys
        /\ table.rows[d.key] \in Row
    BY DEF SInv, Types, EditsInv, Upsert, At
  <1>2. row \in Row /\ row.value = d.to
    BY <1>1 DEF EditType, Settings, Row
  <1>3. Written(e, row) /\ UNCHANGED <<audit, rules, loads, acked, faults>>
    BY DEF Upsert
  <1> HIDE DEF row
  <1> QED
    BY <1>1, <1>2, <1>3, WrittenInv

LEMMA RemoveInv ==
    ASSUME SInv, NEW e \in Edits, Remove(e)
    PROVE SInv'
  <1>1. /\ editor[e].pc = "remove" /\ editor[e].to = None /\ table.version \in Nat
        /\ UNCHANGED <<audit, rules, loads, acked, faults>>
    BY DEF SInv, Types, EditsInv, Remove, At
  <1>2. CASE table.rows[editor[e].key].id = editor[e].id
    BY <1>1, <1>2, NoRowIsRow, WrittenInv DEF Remove
  <1>3. CASE table.rows[editor[e].key].id # editor[e].id
    <2>1. GoesOn(e, Done)
      BY <1>1, <1>3, DoneIsEdit DEF Remove, Go, GoesOn
    <2> QED
      BY <2>1, GoesOnInv
  <1> QED
    BY <1>2, <1>3

LEMMA RecordInv ==
    ASSUME SInv, NEW e \in Edits, Record(e)
    PROVE SInv'
  <1> DEFINE d == editor[e]
             c == IF d.key \in MarkupKeys
                  THEN [Todo EXCEPT !.pc = "reload", !.at = d.at, !.wrote = d.wrote] ELSE Done
  <1>1. /\ d \in EditType /\ d.pc = "audit" /\ d.wrote <= table.version
        /\ table \in [rows : [Keys -> Row], version : Nat] /\ faults \in Nat
        /\ editor \in [Edits -> EditType]
    BY DEF SInv, Types, EditsInv, Record, At
  <1>2. c \in EditType /\ c.pc \in {"reload", "done"} /\ c.wrote <= table.version
    <2>1. CASE d.key \in MarkupKeys
      <3> DEFINE r == [Todo EXCEPT !.pc = "reload", !.at = d.at, !.wrote = d.wrote]
      <3>1. d.at \in Instances \cup {None} /\ d.wrote \in Nat
        BY <1>1 DEF EditType
      <3>2. r \in EditType /\ r.pc = "reload" /\ r.wrote = d.wrote
        BY <3>1, DoneIsEdit DEF EditType
      <3> QED
        BY <1>1, <2>1, <3>2
    <2>2. CASE d.key \notin MarkupKeys
      BY <1>1, <2>2, DoneIsEdit
    <2> QED
      BY <2>1, <2>2
  <1>3. /\ editor' = [editor EXCEPT ![e] = c]
        /\ audit' = audit \cup {[key |-> d.key, to |-> d.to]}
        /\ UNCHANGED <<table, rules, loads, acked, faults>>
    BY DEF Record, Recorded
  <1> HIDE DEF c
  <1>4. EditMoves(e, c)
    BY <1>1, <1>2, <1>3 DEF EditMoves
  <1>5. \A f \in Edits :
          \/ editor'[f] = editor[f]
          \/ \E r \in audit' : r.key = editor[f].key /\ r.to = editor[f].to
    BY <1>1, <1>3
  <1>6. TrailInv'
    BY <1>3, <1>5, TrailKept DEF SInv
  <1> QED
    BY <1>4, <1>6, EditMovesInv DEF SInv

LEMMA RecordFailsInv ==
    ASSUME SInv, NEW e \in Edits, RecordFails(e)
    PROVE SInv'
  <1>1. /\ editor[e].pc = "audit" /\ faults \in Nat /\ faults' = faults + 1
        /\ table \in [rows : [Keys -> Row], version : Nat]
        /\ editor' = [editor EXCEPT ![e] = Done]
        /\ UNCHANGED <<table, audit, rules, loads, acked>>
    BY DEF SInv, Types, RecordFails, At, Fault, Go
  <1>2. EditMoves(e, Done)
    BY <1>1, DoneIsEdit DEF EditMoves
  <1>3. TrailInv'
    BY <1>1 DEF TrailInv
  <1> QED
    BY <1>2, <1>3, EditMovesInv DEF SInv
-----------------------------------------------------------------------------
(* The loads of an instance. *)

\* Steps that change no edit but to wait for its load or to end it.
Settles ==
    /\ editor' \in [Edits -> EditType]
    /\ \A f \in Edits :
         \/ editor'[f] = editor[f]
         \/ editor'[f].pc \in {"wait", "done"} /\ editor'[f].wrote <= editor[f].wrote

LEMMA SettledEdits ==
    ASSUME Types, EditsInv, Settles, table' = table
    PROVE EditsInv'
  <1>1. \A f \in Edits : editor[f].wrote \in Nat /\ editor'[f].wrote \in Nat
    BY DEF Types, Settles, EditType
  <1>2. table.version \in Nat
    BY DEF Types
  <1>3. ASSUME NEW f \in Edits PROVE editor'[f].wrote <= table.version
    BY <1>1, <1>2 DEF EditsInv, Settles
  <1> QED
    BY <1>3 DEF EditsInv, Settles

\* What a load's edit has written is known to the table.
LEMMA Wrote ==
    ASSUME Types, EditsInv, NEW load \in LoadType
    PROVE WroteFor(load, editor) \in Nat /\ WroteFor(load, editor) <= table.version
  <1>1. table.version \in Nat /\ \A f \in Edits : editor[f].wrote \in Nat
    BY DEF Types, EditType
  <1> QED
    BY <1>1, LoadVersion DEF EditsInv, WroteFor

LEMMA SettlesIsCalm ==
    ASSUME Types, Settles, NEW load \in LoadType,
           load.by # None => editor[load.by].pc \in {"wait", "done"}
    PROVE Calmer(load, editor, editor')
  <1>1. \A f \in Edits : editor[f].wrote \in Nat /\ editor'[f].wrote \in Nat
    BY DEF Types, Settles, EditType
  <1>2. load.by \in Edits \cup {None}
    BY LoadVersion
  <1> QED
    BY <1>1, <1>2 DEF Settles, WroteFor, Calmer

LEMMA LoadsTyped ==
    ASSUME Types, NEW i \in Instances
    PROVE /\ loads[i] \in Seq(LoadType) /\ Len(loads[i]) \in Nat
          /\ DOMAIN loads[i] = 1 .. Len(loads[i])
          /\ \A n \in DOMAIN loads[i] : loads[i][n] \in LoadType
          /\ acked[i] \in Nat /\ rules[i].version \in Nat /\ table.version \in Nat
  <1>1. loads[i] \in Seq(LoadType)
    BY DEF Types
  <1> QED
    BY <1>1, LenProperties DEF Types, RulesType

\* The loads of an instance while its edits wait or end.
LEMMA SettledFloors ==
    ASSUME SInv, Settles, NEW i \in Instances
    PROVE /\ \A n \in DOMAIN loads[i] : Calmer(loads[i][n], editor, editor')
          /\ LoadsSound(loads[i], editor', table.version, rules[i].version, acked[i])
  <1>1. /\ Types /\ Floors(i) /\ loads[i] \in Seq(LoadType)
        /\ acked[i] \in Nat /\ rules[i].version \in Nat /\ table.version \in Nat
        /\ \A n \in DOMAIN loads[i] : loads[i][n] \in LoadType
    BY LoadsTyped DEF SInv, FloorsInv
  <1>2. ASSUME NEW n \in DOMAIN loads[i] PROVE Calmer(loads[i][n], editor, editor')
    <2>1. LoadSound(loads[i][n], editor, table.version, rules[i].version, acked[i])
      BY <1>1 DEF Floors, LoadsSound
    <2> QED
      BY <1>1, <2>1, SettlesIsCalm DEF LoadSound
  <1>3. LoadsSound(loads[i], editor', table.version, rules[i].version, acked[i])
    BY <1>1, <1>2, StaysFloored DEF Floors
  <1> QED
    BY <1>2, <1>3

\* An instance whose rules, loads and answers stay.
LEMMA OtherFloors ==
    ASSUME SInv, Settles, table' = table, NEW i \in Instances,
           rules'[i] = rules[i], loads'[i] = loads[i], acked'[i] = acked[i]
    PROVE Floors(i)'
  BY SettledFloors DEF Floors

\* What is left to show of a step of the loads of one instance.
LoadsMove(i) ==
    /\ Settles
    /\ loads' \in [Instances -> Seq(LoadType)]
    /\ rules' \in [Instances -> RulesType]
    /\ acked' \in [Instances -> Nat]
    /\ faults' \in Nat
    /\ \A j \in Instances \ {i} :
         loads'[j] = loads[j] /\ rules'[j] = rules[j] /\ acked'[j] = acked[j]
    /\ UNCHANGED table
    /\ LoadsSound(loads'[i], editor', table.version, rules'[i].version, acked'[i])

LEMMA LoadsMoveInv ==
    ASSUME SInv, NEW i \in Instances, LoadsMove(i), TrailInv'
    PROVE SInv'
  <1>1. Types'
    BY DEF SInv, Types, LoadsMove, Settles
  <1>2. EditsInv'
    BY SettledEdits DEF SInv, LoadsMove
  <1>3. Floors(i)'
    BY DEF LoadsMove, Floors
  <1>4. \A j \in Instances \ {i} : Floors(j)'
    BY OtherFloors DEF LoadsMove
  <1> QED
    BY <1>1, <1>2, <1>3, <1>4 DEF SInv, FloorsInv

\* A load starts after every other, so nothing bounds it but what it will read.
LEMMA StartInv ==
    ASSUME SInv, Settles, NEW i \in Instances, NEW by \in Edits \cup {None}, Start(i, by),
           by # None => editor'[by].pc = "wait",
           \A f \in Edits : editor[f].pc = "audit" => editor'[f] = editor[f],
           UNCHANGED <<table, audit, rules, acked, faults>>
    PROVE SInv'
  <1> DEFINE s == loads[i]
             new == [by |-> by, read |-> << >>, stale |-> FALSE]
             t == Append(s, new)
  <1>1. /\ s \in Seq(LoadType) /\ Len(s) \in Nat /\ DOMAIN s = 1 .. Len(s)
    BY LoadsTyped DEF SInv
  <1>2. new \in LoadType /\ ~HasRead(new) /\ ~new.stale /\ new.by = by
    BY DEF LoadType, HasRead
  <1>3. /\ t \in Seq(LoadType) /\ DOMAIN t = 1 .. Len(s) + 1
        /\ \A n \in DOMAIN s : t[n] = s[n]
        /\ t[Len(s) + 1] = new
    <2>1. /\ t \in Seq(LoadType) /\ Len(t) = Len(s) + 1
          /\ \A n \in 1 .. Len(s) : t[n] = s[n]
          /\ t[Len(s) + 1] = new
      BY <1>1, <1>2, AppendProperties
    <2> QED
      BY <1>1, <2>1, LenProperties
  <1>4. loads' = [loads EXCEPT ![i] = t]
    BY DEF Start
  <1>5. LoadsSound(s, editor', table.version, rules[i].version, acked[i])
    BY SettledFloors
  <1> HIDE DEF t, new, s
  <1>6. LoadsSound(t, editor', table.version, rules[i].version, acked[i])
    <2>1. \A n \in DOMAIN t : n \in DOMAIN s \/ (n = Len(s) + 1 /\ t[n] = new)
      BY <1>1, <1>3
    <2>2. LoadSound(new, editor', table.version, rules[i].version, acked[i])
      BY <1>2 DEF LoadSound
    <2>3. \A n \in DOMAIN t :
            LoadSound(t[n], editor', table.version, rules[i].version, acked[i])
      BY <1>3, <1>5, <2>1, <2>2 DEF LoadsSound
    <2>4. \A n, m \in DOMAIN t : n <= m => PairSound(t[n], t[m], editor')
      <3>1. ASSUME NEW n \in DOMAIN t, NEW m \in DOMAIN s, n <= m
            PROVE PairSound(t[n], t[m], editor')
        BY <1>1, <1>3, <1>5, <2>1, <3>1 DEF LoadsSound
      <3>2. \A load : PairSound(load, new, editor')
        BY <1>2 DEF PairSound
      <3> QED
        BY <2>1, <3>1, <3>2
    <2> QED
      BY <1>5, <2>3, <2>4 DEF LoadsSound
  <1>7. /\ loads' \in [Instances -> Seq(LoadType)] /\ loads'[i] = t
        /\ \A j \in Instances \ {i} : loads'[j] = loads[j]
    BY <1>3, <1>4 DEF SInv, Types
  <1>8. LoadsMove(i)
    BY <1>6, <1>7 DEF LoadsMove, SInv, Types
  <1>9. TrailInv'
    BY TrailKept DEF SInv
  <1> QED
    BY <1>8, <1>9, LoadsMoveInv

LEMMA ReloadInv ==
    ASSUME SInv, NEW e \in Edits, Reload(e)
    PROVE SInv'
  <1> DEFINE c == [editor[e] EXCEPT !.pc = "wait"]
  <1>1. /\ editor \in [Edits -> EditType] /\ editor[e].pc = "reload"
        /\ editor' = [editor EXCEPT ![e] = c]
        /\ loads \in [Instances -> Seq(LoadType)]
        /\ UNCHANGED <<table, audit, rules, acked, faults>>
    BY DEF SInv, Types, Reload, At, Go
  <1>2. c \in EditType /\ c.pc = "wait" /\ c.wrote = editor[e].wrote /\ c.wrote \in Nat
    BY <1>1 DEF EditType
  <1> HIDE DEF c
  <1>3. Settles
    BY <1>1, <1>2 DEF Settles
  <1>4. /\ editor'[e].pc = "wait"
        /\ \A f \in Edits : editor[f].pc = "audit" => editor'[f] = editor[f]
    BY <1>1, <1>2
  <1>5. CASE editor[e].at \in Instances
    BY <1>3, <1>4, <1>5, StartInv, NoneIsNoEdit DEF Reload
  <1>6. CASE editor[e].at \notin Instances
    <2>1. loads' = loads
      BY <1>1, <1>6 DEF Reload, Start
    <2>2. Types' /\ EditsInv' /\ TrailInv'
      BY <1>1, <1>3, <1>4, <2>1, SettledEdits, TrailKept DEF SInv, Types, Settles
    <2>3. \A i \in Instances : Floors(i)'
      BY <1>1, <1>3, <2>1, OtherFloors
    <2> QED
      BY <2>2, <2>3 DEF SInv, FloorsInv
  <1> QED
    BY <1>5, <1>6

LEMMA TickInv ==
    ASSUME SInv, NEW i \in Instances, Tick(i)
    PROVE SInv'
  <1>1. Settles
    BY DEF SInv, Types, Settles, Tick
  <1> QED
    BY <1>1, StartInv DEF Tick

\* What a load reads is what there is, and every edit's write is among it.
LEMMA QueryInv ==
    ASSUME SInv, NEW i \in Instances, NEW n, Query(i, n)
    PROVE SInv'
  <1> DEFINE s == loads[i]
             read == [markup |-> Markup, version |-> table.version]
             old == s[n]
             new == [old EXCEPT !.read = <<read>>]
             t == [s EXCEPT ![n] = new]
  <1>1. /\ Types /\ EditsInv /\ s \in Seq(LoadType) /\ Len(s) \in Nat
        /\ DOMAIN s = 1 .. Len(s) /\ n \in DOMAIN s
        /\ \A m \in DOMAIN s : s[m] \in LoadType
        /\ acked[i] \in Nat /\ rules[i].version \in Nat /\ table.version \in Nat
    BY LoadsTyped DEF SInv, Query
  <1>2. /\ loads' = [loads EXCEPT ![i] = t]
        /\ UNCHANGED <<table, audit, editor, rules, acked, faults>>
    <2>1. loads' = [loads EXCEPT ![i][n].read = <<read>>]
      BY DEF Query
    <2> QED
      BY <2>1 DEF Query
  <1>3. read \in RulesType
    BY <1>1 DEF RulesType, Markup, Settings, Keys, Types, Row
  <1>4. /\ new \in LoadType /\ HasRead(new) /\ new.read[1] = read
        /\ new.by = old.by /\ new.stale = old.stale
    <2>1. old \in LoadType /\ <<read>> # << >> /\ <<read>>[1] = read
      BY <1>1
    <2>2. <<read>> \in {<<r>> : r \in RulesType}
      BY <1>3
    <2> HIDE DEF read, old
    <2> QED
      BY <2>1, <2>2 DEF LoadType, HasRead
  <1>5. read.version = table.version
    OBVIOUS
  <1>6. Settles
    BY <1>1, <1>2 DEF Settles, Types
  <1>7. LoadsSound(s, editor, table.version, rules[i].version, acked[i])
    BY <1>2, <1>6, SettledFloors
  <1> HIDE DEF read, old, new, s
  <1>8. /\ DOMAIN t = DOMAIN s /\ t[n] = new
        /\ \A m \in DOMAIN s : m # n => t[m] = s[m]
    BY <1>1
  <1>9. t \in Seq(LoadType)
    <2>1. t \in [1 .. Len(s) -> LoadType]
      BY <1>1, <1>4, <1>8
    <2> QED
      BY <1>1, <2>1, SeqDef
  <1>10. \A m \in DOMAIN s :
           /\ WroteFor(t[m], editor) = WroteFor(s[m], editor)
           /\ t[m].stale = s[m].stale /\ t[m].by = s[m].by
           /\ WroteFor(s[m], editor) \in Nat
           /\ WroteFor(s[m], editor) <= table.version
    <2>1. ASSUME NEW m \in DOMAIN s
          PROVE WroteFor(s[m], editor) \in Nat /\ WroteFor(s[m], editor) <= table.version
      BY <1>1, Wrote
    <2>2. ASSUME NEW m \in DOMAIN s
          PROVE t[m].stale = s[m].stale /\ t[m].by = s[m].by
      BY <1>4, <1>8 DEF old
    <2> QED
      BY <2>1, <2>2 DEF WroteFor
  <1> HIDE DEF t
  <1>11. LoadsSound(t, editor, table.version, rules[i].version, acked[i])
    <2>1. ASSUME NEW m \in DOMAIN s
          PROVE LoadSound(t[m], editor, table.version, rules[i].version, acked[i])
      <3>1. LoadSound(s[m], editor, table.version, rules[i].version, acked[i])
        BY <1>7 DEF LoadsSound
      <3>2. CASE m # n
        BY <1>8, <3>1, <3>2
      <3>3. CASE m = n
        <4>1. VersionRead(t[m]) = table.version
          BY <1>4, <1>5, <1>8, <3>3 DEF VersionRead
        <4>2. acked[i] <= table.version
          BY <1>1, <1>7 DEF LoadsSound
        <4> QED
          BY <1>1, <1>10, <3>1, <4>1, <4>2 DEF LoadSound
      <3> QED
        BY <3>2, <3>3
    <2>2. ASSUME NEW k \in DOMAIN s, NEW m \in DOMAIN s, k <= m
          PROVE PairSound(t[k], t[m], editor)
      <3>1. PairSound(s[k], s[m], editor)
        BY <1>7, <2>2 DEF LoadsSound
      <3>2. HasRead(t[m]) => WroteFor(t[k], editor) <= VersionRead(t[m])
        <4>1. CASE m # n
          BY <1>8, <1>10, <3>1, <4>1 DEF PairSound
        <4>2. CASE m = n
          BY <1>4, <1>5, <1>8, <1>10, <4>2 DEF VersionRead
        <4> QED
          BY <4>1, <4>2
      <3> QED
        BY <1>10, <3>1, <3>2 DEF PairSound
    <2> QED
      BY <1>7, <1>8, <2>1, <2>2 DEF LoadsSound
  <1>12. /\ loads' \in [Instances -> Seq(LoadType)] /\ loads'[i] = t
         /\ \A j \in Instances \ {i} : loads'[j] = loads[j]
    BY <1>1, <1>2, <1>9 DEF Types
  <1>13. LoadsMove(i)
    BY <1>1, <1>2, <1>6, <1>11, <1>12 DEF LoadsMove, Types
  <1>14. TrailInv'
    BY <1>2, TrailKept DEF SInv
  <1> QED
    BY <1>13, <1>14, LoadsMoveInv

\* Where the k-th of the loads left was before the n-th was taken out.
Old(n, k) == IF k < n THEN k ELSE k + 1

LEMMA WithoutOld ==
    ASSUME NEW S, NEW s \in Seq(S), NEW n \in DOMAIN s
    PROVE LET t == Without(s, n) IN
          /\ t \in Seq(S)
          /\ \A k \in DOMAIN t :
               Old(n, k) \in DOMAIN s /\ Old(n, k) # n /\ t[k] = s[Old(n, k)]
          /\ \A k, m \in DOMAIN t : k <= m => Old(n, k) <= Old(n, m)
  <1> DEFINE t == Without(s, n)
  <1>1. Len(s) \in Nat /\ DOMAIN s = 1 .. Len(s) /\ n \in 1 .. Len(s)
    BY LenProperties
  <1>2. /\ t \in Seq(S) /\ DOMAIN t = 1 .. Len(s) - 1
        /\ \A k \in 1 .. Len(s) - 1 : (k < n => t[k] = s[k]) /\ (k >= n => t[k] = s[k + 1])
    BY <1>1, WithoutAt
  <1> HIDE DEF t
  <1>3. ASSUME NEW k \in DOMAIN t
        PROVE Old(n, k) \in DOMAIN s /\ Old(n, k) # n /\ t[k] = s[Old(n, k)]
    <2>1. CASE k < n
      BY <1>1, <1>2, <2>1 DEF Old
    <2>2. CASE k >= n
      BY <1>1, <1>2, <2>2 DEF Old
    <2> QED
      BY <1>1, <1>2, <2>1, <2>2
  <1>4. \A k, m \in DOMAIN t : k <= m => Old(n, k) <= Old(n, m)
    BY <1>1, <1>2 DEF Old
  <1> QED
    BY <1>2, <1>3, <1>4 DEF t

\* One load taken out, the rest sound among themselves.
LEMMA RestFloored ==
    ASSUME NEW s \in Seq(LoadType), NEW n \in DOMAIN s, NEW ed,
           NEW w, NEW held, NEW answered, answered <= held, held <= w,
           \A k \in DOMAIN s : k # n => LoadSound(s[k], ed, w, held, answered),
           \A k, m \in DOMAIN s : k # n /\ m # n /\ k <= m => PairSound(s[k], s[m], ed)
    PROVE /\ Without(s, n) \in Seq(LoadType)
          /\ LoadsSound(Without(s, n), ed, w, held, answered)
  <1> DEFINE t == Without(s, n)
  <1>1. /\ t \in Seq(LoadType)
        /\ \A k \in DOMAIN t :
             Old(n, k) \in DOMAIN s /\ Old(n, k) # n /\ t[k] = s[Old(n, k)]
        /\ \A k, m \in DOMAIN t : k <= m => Old(n, k) <= Old(n, m)
    BY WithoutOld
  <1> HIDE DEF t
  <1>2. ASSUME NEW k \in DOMAIN t PROVE LoadSound(t[k], ed, w, held, answered)
    BY <1>1
  <1>3. ASSUME NEW k \in DOMAIN t, NEW m \in DOMAIN t, k <= m
        PROVE PairSound(t[k], t[m], ed)
    <2>1. Old(n, k) <= Old(n, m)
      BY <1>1, <1>3
    <2> QED
      BY <1>1, <2>1
  <1> QED
    BY <1>1, <1>2, <1>3 DEF LoadsSound, t

LEMMA OneLessFloored ==
    ASSUME NEW s \in Seq(LoadType), NEW n \in DOMAIN s, NEW ed,
           NEW w, NEW held, NEW answered, LoadsSound(s, ed, w, held, answered)
    PROVE /\ Without(s, n) \in Seq(LoadType)
          /\ LoadsSound(Without(s, n), ed, w, held, answered)
  <1>1. /\ answered <= held /\ held <= w
        /\ \A k \in DOMAIN s : LoadSound(s[k], ed, w, held, answered)
        /\ \A k, m \in DOMAIN s : k <= m => PairSound(s[k], s[m], ed)
    BY DEF LoadsSound
  <1> QED
    BY <1>1, RestFloored

\* The edit a load ran for ends with it.
LEMMA AnsweredSettles ==
    ASSUME SInv, NEW i \in Instances, NEW n \in DOMAIN loads[i], Answered(i, n)
    PROVE /\ Settles
          /\ \A f \in Edits : editor[f].pc = "audit" => editor'[f] = editor[f]
  <1>1. /\ loads[i][n] \in LoadType /\ editor \in [Edits -> EditType]
        /\ LoadSound(loads[i][n], editor, table.version, rules[i].version, acked[i])
    BY LoadsTyped DEF SInv, Types, FloorsInv, Floors, LoadsSound
  <1>2. \A f \in Edits : editor'[f] = IF f = loads[i][n].by THEN Done ELSE editor[f]
    BY DEF Answered
  <1>3. editor' \in [Edits -> EditType]
    BY <1>1, DoneIsEdit DEF Answered
  <1>4. \A f \in Edits : editor[f].wrote \in Nat
    BY <1>1 DEF EditType
  <1>5. Settles
    BY <1>2, <1>3, <1>4, DoneIsEdit DEF Settles
  <1>6. \A f \in Edits : f = loads[i][n].by => editor[f].pc # "audit"
    BY <1>1, NoneIsNoEdit DEF LoadSound
  <1> QED
    BY <1>2, <1>5, <1>6

LEMMA LoadFailsInv ==
    ASSUME SInv, NEW i \in Instances, NEW n, LoadFails(i, n)
    PROVE SInv'
  <1> DEFINE s == loads[i]
             t == Without(s, n)
  <1>1. n \in DOMAIN s /\ s \in Seq(LoadType)
    BY LoadsTyped DEF SInv, LoadFails
  <1>2. Settles /\ \A f \in Edits : editor[f].pc = "audit" => editor'[f] = editor[f]
    BY <1>1, AnsweredSettles DEF LoadFails
  <1>3. LoadsSound(s, editor', table.version, rules[i].version, acked[i])
    BY <1>2, SettledFloors
  <1>4. loads' = [loads EXCEPT ![i] = t] /\ UNCHANGED <<table, audit, rules, acked, faults>>
    BY DEF LoadFails
  <1> HIDE DEF s
  <1>5. /\ t \in Seq(LoadType)
        /\ LoadsSound(t, editor', table.version, rules[i].version, acked[i])
    BY <1>1, <1>3, OneLessFloored
  <1> HIDE DEF t
  <1>6. LoadsMove(i)
    BY <1>2, <1>4, <1>5 DEF LoadsMove, SInv, Types
  <1>7. TrailInv'
    BY <1>2, <1>4, TrailKept DEF SInv
  <1> QED
    BY <1>6, <1>7, LoadsMoveInv

\* What an instance answers for when load n comes back.
LEMMA AnswersFor ==
    ASSUME SInv, NEW i \in Instances, NEW n \in DOMAIN loads[i], Apply(i, n)
    PROVE /\ acked' \in [Instances -> Nat]
          /\ acked'[i] = acked[i] \/ acked'[i] = WroteFor(loads[i][n], editor)
          /\ \A j \in Instances \ {i} : acked'[j] = acked[j]
  <1> DEFINE load == loads[i][n]
  <1>1. load \in LoadType /\ acked \in [Instances -> Nat]
    BY LoadsTyped DEF SInv, Types
  <1>2. \/ acked' = acked
        \/ load.by # None /\ acked' = [acked EXCEPT ![i] = editor[load.by].wrote]
    BY DEF Apply
  <1>3. load.by # None => editor[load.by].wrote \in Nat
    BY <1>1, LoadVersion DEF SInv, Types, EditType
  <1> HIDE DEF load
  <1>4. \/ acked' = acked
        \/ load.by # None /\ acked' = [acked EXCEPT ![i] = WroteFor(load, editor)]
    BY <1>2 DEF WroteFor
  <1>5. load.by # None => WroteFor(load, editor) \in Nat
    BY <1>3 DEF WroteFor
  <1> QED
    BY <1>1, <1>4, <1>5 DEF load

\* A load that a newer one has overtaken is dropped: its edit is in the rules
\* held, and in whatever a load with a newer ticket has read.
LEMMA DroppedFloored ==
    ASSUME NEW s \in Seq(LoadType), NEW n \in DOMAIN s, NEW ed, NEW now,
           NEW w \in Nat, NEW held \in Nat, NEW answered \in Nat, NEW a \in Nat,
           LoadsSound(s, ed, w, held, answered), s[n].stale,
           \A k \in DOMAIN s : Calmer(s[k], ed, now),
           a = answered \/ a = WroteFor(s[n], ed)
    PROVE /\ Without(s, n) \in Seq(LoadType)
          /\ LoadsSound(Without(s, n), now, w, held, a)
  <1>1. /\ \A k \in DOMAIN s : s[k] \in LoadType
        /\ \A k \in DOMAIN s : k \in Nat
    BY LenProperties
  <1>2. LoadsSound(s, now, w, held, answered)
    BY StaysFloored
  <1>3. a <= held /\ held <= w
    BY DEF LoadsSound, LoadSound
  <1>4. ASSUME NEW k \in DOMAIN s, k # n PROVE LoadSound(s[k], now, w, held, a)
    <2>1. LoadSound(s[k], now, w, held, answered)
      BY <1>2 DEF LoadsSound
    <2>2. ASSUME HasRead(s[k]), ~s[k].stale PROVE a <= VersionRead(s[k])
      <3>1. answered <= VersionRead(s[k])
        BY <2>1, <2>2 DEF LoadSound
      <3>2. n <= k
        <4>1. k <= n => PairSound(s[k], s[n], ed)
          BY DEF LoadsSound
        <4> QED
          BY <1>1, <2>2, <4>1 DEF PairSound
      <3>3. PairSound(s[n], s[k], ed)
        BY <3>2 DEF LoadsSound
      <3> QED
        BY <2>2, <3>1, <3>3 DEF PairSound
    <2> QED
      BY <2>1, <2>2 DEF LoadSound
  <1>5. \A k, m \in DOMAIN s : k <= m => PairSound(s[k], s[m], now)
    BY <1>2 DEF LoadsSound
  <1> QED
    BY <1>3, <1>4, <1>5, RestFloored

\* The loads older than n, when n is applied.
LEMMA OvertakenAt ==
    ASSUME NEW s \in Seq(LoadType), NEW n \in DOMAIN s
    PROVE /\ Overtaken(s, n) \in Seq(LoadType)
          /\ DOMAIN Overtaken(s, n) = DOMAIN s
          /\ \A k \in DOMAIN s :
               LET load == Overtaken(s, n)[k] IN
               /\ load.by = s[k].by /\ load.read = s[k].read
               /\ load.stale <=> s[k].stale \/ k < n
  <1> DEFINE t == Overtaken(s, n)
  <1>1. /\ Len(s) \in Nat /\ DOMAIN s = 1 .. Len(s)
        /\ \A k \in DOMAIN s : s[k] \in LoadType
    BY LenProperties
  <1>2. DOMAIN t = DOMAIN s
    BY DEF Overtaken
  <1>3. ASSUME NEW k \in DOMAIN s
        PROVE /\ t[k] \in LoadType /\ t[k].by = s[k].by /\ t[k].read = s[k].read
              /\ t[k].stale <=> s[k].stale \/ k < n
    <2> DEFINE old == s[k]
               b == old.stale \/ k < n
    <2>1. t[k] = [old EXCEPT !.stale = b]
      BY DEF Overtaken
    <2>2. old \in LoadType /\ b \in BOOLEAN
      BY <1>1
    <2> HIDE DEF old, b, t
    <2>3. /\ t[k] \in LoadType /\ t[k].by = old.by /\ t[k].read = old.read
          /\ t[k].stale = b
      BY <2>1, <2>2 DEF LoadType
    <2> QED
      BY <2>3 DEF old, b
  <1> HIDE DEF t
  <1>4. t \in Seq(LoadType)
    <2>1. t \in [1 .. Len(s) -> LoadType]
      <3>1. t = [k \in DOMAIN s |-> t[k]]
        BY DEF t, Overtaken
      <3> QED
        BY <1>1, <1>3, <3>1
    <2> QED
      BY <1>1, <2>1, SeqDef
  <1> QED
    BY <1>2, <1>3, <1>4 DEF t

\* A load that is applied has read all that was answered for, and what its own
\* edit and those of the loads it overtakes have written.
LEMMA AppliedFloored ==
    ASSUME NEW s \in Seq(LoadType), NEW n \in DOMAIN s, NEW ed, NEW now,
           NEW w \in Nat, NEW held \in Nat, NEW answered \in Nat, NEW a \in Nat,
           LoadsSound(s, ed, w, held, answered), HasRead(s[n]), ~s[n].stale,
           \A k \in DOMAIN s : Calmer(s[k], ed, now),
           a = answered \/ a = WroteFor(s[n], ed)
    PROVE LET t == Without(Overtaken(s, n), n) IN
          /\ t \in Seq(LoadType)
          /\ LoadsSound(t, now, w, VersionRead(s[n]), a)
  <1> DEFINE o == Overtaken(s, n)
             read == VersionRead(s[n])
  <1>1. /\ \A k \in DOMAIN s : s[k] \in LoadType
        /\ \A k \in DOMAIN s : k \in Nat
        /\ read \in Nat
    BY LenProperties, LoadVersion
  <1>2. /\ o \in Seq(LoadType) /\ DOMAIN o = DOMAIN s
        /\ \A k \in DOMAIN s :
             /\ o[k].by = s[k].by /\ o[k].read = s[k].read
             /\ o[k].stale <=> s[k].stale \/ k < n
    BY OvertakenAt
  <1>3. LoadsSound(s, now, w, held, answered)
    BY StaysFloored
  <1> HIDE DEF o
  <1>4. \A k \in DOMAIN s :
          /\ WroteFor(o[k], now) = WroteFor(s[k], now)
          /\ HasRead(o[k]) <=> HasRead(s[k])
          /\ VersionRead(o[k]) = VersionRead(s[k])
    BY <1>2 DEF WroteFor, HasRead, VersionRead
  <1>5. \A k, m \in DOMAIN s : k <= m => PairSound(s[k], s[m], ed) /\ PairSound(s[k], s[m], now)
    BY <1>3 DEF LoadsSound
  <1>6. \A k \in DOMAIN s : s[k].stale => k < n
    BY <1>1, <1>5 DEF PairSound
  <1>7. a <= read /\ read <= w
    <2>1. LoadSound(s[n], ed, w, held, answered) /\ PairSound(s[n], s[n], ed)
      BY <1>1, <1>5 DEF LoadsSound
    <2> QED
      BY <2>1 DEF LoadSound, PairSound
  <1>8. ASSUME NEW k \in DOMAIN o, k # n PROVE LoadSound(o[k], now, w, read, a)
    <2>1. k \in DOMAIN s /\ LoadSound(s[k], now, w, held, answered)
      BY <1>2, <1>3 DEF LoadsSound
    <2>2. ASSUME HasRead(o[k]), ~o[k].stale PROVE a <= VersionRead(o[k])
      <3>1. n <= k /\ HasRead(s[k]) /\ ~s[k].stale
        BY <1>1, <1>2, <1>4, <2>1, <2>2
      <3>2. answered <= VersionRead(s[k])
        BY <2>1, <3>1 DEF LoadSound
      <3>3. PairSound(s[n], s[k], ed)
        BY <1>5, <2>1, <3>1
      <3> QED
        BY <1>4, <2>1, <3>1, <3>2, <3>3 DEF PairSound
    <2>3. ASSUME o[k].stale PROVE WroteFor(o[k], now) <= read
      <3>1. k <= n
        BY <1>1, <1>2, <1>6, <2>1, <2>3
      <3>2. PairSound(s[k], s[n], now)
        BY <1>5, <2>1, <3>1
      <3> QED
        BY <1>4, <2>1, <3>2 DEF PairSound
    <2>4. /\ o[k].by # None => now[o[k].by].pc \in {"wait", "done"}
          /\ HasRead(o[k]) => VersionRead(o[k]) <= w
      BY <1>2, <1>4, <2>1 DEF LoadSound
    <2> QED
      BY <2>2, <2>3, <2>4 DEF LoadSound
  <1>9. ASSUME NEW k \in DOMAIN o, NEW m \in DOMAIN o, k <= m
        PROVE PairSound(o[k], o[m], now)
    <2>1. k \in DOMAIN s /\ m \in DOMAIN s /\ PairSound(s[k], s[m], now)
      BY <1>2, <1>5, <1>9
    <2>2. o[m].stale => o[k].stale
      BY <1>1, <1>2, <1>6, <1>9, <2>1
    <2> QED
      BY <1>4, <2>1, <2>2 DEF PairSound
  <1> HIDE DEF read
  <1>10. /\ Without(o, n) \in Seq(LoadType)
         /\ LoadsSound(Without(o, n), now, w, read, a)
    BY <1>2, <1>7, <1>8, <1>9, RestFloored
  <1> QED
    BY <1>10 DEF o, read

LEMMA ApplyInv ==
    ASSUME SInv, NEW i \in Instances, NEW n, Apply(i, n)
    PROVE SInv'
  <1> DEFINE s == loads[i]
  <1>1. /\ n \in DOMAIN s /\ s \in Seq(LoadType) /\ s[n] \in LoadType
        /\ HasRead(s[n])
        /\ acked[i] \in Nat /\ rules[i].version \in Nat /\ table.version \in Nat
        /\ LoadsSound(s, editor, table.version, rules[i].version, acked[i])
    BY LoadsTyped DEF SInv, Apply, HasRead, FloorsInv, Floors
  <1>2. Settles /\ \A f \in Edits : editor[f].pc = "audit" => editor'[f] = editor[f]
    BY <1>1, AnsweredSettles DEF Apply
  <1>3. \A k \in DOMAIN s : Calmer(s[k], editor, editor')
    BY <1>2, SettledFloors
  <1>4. /\ acked' \in [Instances -> Nat] /\ acked'[i] \in Nat
        /\ acked'[i] = acked[i] \/ acked'[i] = WroteFor(s[n], editor)
        /\ \A j \in Instances \ {i} : acked'[j] = acked[j]
    BY <1>1, AnswersFor
  <1>5. UNCHANGED <<table, audit, faults>>
    BY DEF Apply
  <1>6. TrailInv'
    BY <1>2, <1>5, TrailKept DEF SInv
  <1>7. s[n].stale \in BOOLEAN /\ loads \in [Instances -> Seq(LoadType)]
        /\ rules \in [Instances -> RulesType] /\ faults \in Nat
    BY <1>1, LoadVersion DEF SInv, Types
  <1>8. CASE s[n].stale
    <2>1. loads' = [loads EXCEPT ![i] = Without(s, n)] /\ rules' = rules
      BY <1>8 DEF Apply, Outdated
    <2> HIDE DEF s
    <2>2. /\ Without(s, n) \in Seq(LoadType)
          /\ LoadsSound(Without(s, n), editor', table.version, rules[i].version, acked'[i])
      BY <1>1, <1>3, <1>4, <1>8, DroppedFloored
    <2>3. LoadsMove(i)
      BY <1>2, <1>4, <1>5, <1>7, <2>1, <2>2 DEF LoadsMove
    <2> QED
      BY <1>6, <2>3, LoadsMoveInv
  <1>9. CASE ~s[n].stale
    <2> DEFINE t == Without(Overtaken(s, n), n)
               r == s[n].read[1]
    <2>1. loads' = [loads EXCEPT ![i] = t] /\ rules' = [rules EXCEPT ![i] = r]
      BY <1>9 DEF Apply, Outdated
    <2>2. r \in RulesType /\ r.version = VersionRead(s[n])
      BY <1>1, LoadVersion DEF VersionRead
    <2> HIDE DEF s
    <2>3. t \in Seq(LoadType) /\ LoadsSound(t, editor', table.version, VersionRead(s[n]), acked'[i])
      BY <1>1, <1>3, <1>4, <1>9, AppliedFloored
    <2> HIDE DEF t, r
    <2>4. LoadsMove(i)
      BY <1>2, <1>4, <1>5, <1>7, <2>1, <2>2, <2>3 DEF LoadsMove
    <2> QED
      BY <1>6, <2>4, LoadsMoveInv
  <1> QED
    BY <1>7, <1>8, <1>9

\* A restart forgets the rules, and with them what was answered for.
LEMMA RestartInv ==
    ASSUME SInv, NEW i \in Instances, Restart(i)
    PROVE SInv'
  <1>1. /\ Types /\ faults \in Nat /\ faults' = faults + 1 /\ table' = table
        /\ editor \in [Edits -> EditType]
    BY DEF SInv, Types, Restart, Fault
  <1>2. Settles
    <2>1. \A f \in Edits : editor[f].wrote \in Nat
      BY <1>1 DEF EditType
    <2>2. /\ editor' \in [Edits -> EditType]
          /\ \A f \in Edits : editor'[f] = editor[f] \/ editor'[f] = Done
      BY <1>1, DoneIsEdit DEF Restart
    <2> QED
      BY <2>1, <2>2, DoneIsEdit DEF Settles
  <1>3. /\ loads' = [loads EXCEPT ![i] = << >>]
        /\ rules' = [rules EXCEPT ![i] = [markup |-> ConfigRules, version |-> 0]]
        /\ acked' = [acked EXCEPT ![i] = 0]
    BY DEF Restart
  <1>4. /\ loads'[i] = << >> /\ rules'[i].version = 0 /\ acked'[i] = 0
        /\ table.version \in Nat
    BY <1>1, <1>3 DEF Types
  <1>5. LoadsSound(loads'[i], editor', table.version, rules'[i].version, acked'[i])
    BY <1>4, NoLoads DEF LoadsSound
  <1>6. LoadsMove(i)
    BY <1>1, <1>2, <1>3, <1>5, NoLoads, BuiltIn DEF LoadsMove, Types
  <1>7. TrailInv'
    BY <1>1 DEF TrailInv
  <1> QED
    BY <1>6, <1>7, LoadsMoveInv

LEMMA StutterInv ==
    ASSUME SInv, UNCHANGED settingsVars
    PROVE SInv'
  <1>1. EditsInv' /\ Types'
    BY DEF SInv, Types, EditsInv, settingsVars
  <1>2. FloorsInv'
    BY DEF SInv, FloorsInv, Floors, settingsVars
  <1>3. TrailInv'
    BY TrailKept DEF SInv, settingsVars
  <1> QED
    BY <1>1, <1>2, <1>3 DEF SInv
-----------------------------------------------------------------------------
LEMMA StepInv == SInv /\ [Next]_vars => SInv'
  <1> SUFFICES ASSUME SInv, [Next]_vars PROVE SInv'
    OBVIOUS
  <1>1. CASE UNCHANGED settingsVars
    BY <1>1, StutterInv
  <1>2. ASSUME NEW i \in Instances, Restart(i) PROVE SInv'
    BY <1>2, RestartInv
  <1>3. ASSUME NEW e \in Edits, EditStep(e) \/ RecordFails(e) PROVE SInv'
    BY <1>3, ReadInv, FindInv, UpsertInv, RemoveInv, RecordInv, ReloadInv, RecordFailsInv
       DEF EditStep
  <1>4. ASSUME NEW e \in Edits, NEW i \in Instances, NEW k \in Keys,
               Delete(e, i, k) \/ \E v \in Values \cup {None} : Save(e, i, k, v)
        PROVE SInv'
    BY <1>4, DeleteInv, SaveInv
  <1>5. ASSUME NEW i \in Instances, Tick(i) PROVE SInv'
    BY <1>5, TickInv
  <1>6. ASSUME NEW i \in Instances, NEW n, Query(i, n) \/ Apply(i, n) \/ LoadFails(i, n)
        PROVE SInv'
    BY <1>6, QueryInv, ApplyInv, LoadFailsInv
  <1>7. CASE SettingsWork
    BY <1>3, <1>4, <1>5, <1>6, <1>7 DEF SettingsWork
  <1> QED
    BY <1>1, <1>2, <1>7 DEF Next, vars

LEMMA Invariance == Spec => []SInv
  <1> QED
    BY InitInv, StepInv, PTL DEF Spec

\* An instance that has answered an edit after reloading never prices by older
\* rules again until it restarts (applyRules drops a load by its ticket),
\* however many loads and edits overlap.
THEOREM EditsStay == Spec => []EditStays
  <1>1. SInv => EditStays
    BY DEF SInv, FloorsInv, Floors, LoadsSound, EditStays
  <1> QED
    BY <1>1, Invariance, PTL

\* Every setting was recorded by createAdminAction as set to what it says, or
\* is about to be, unless a record could not be stored, for any interleaving of
\* saves and removals of the same key.
THEOREM SettingsAreOnRecord == Spec => []SettingIsOnRecord
  <1>1. SInv => SettingIsOnRecord
    <2> SUFFICES ASSUME SInv, faults = 0, NEW k \in Keys
                 PROVE Explained(k) => 
                         \/ /\ table.rows[k].id = "seed" /\ k \in MarkupKeys
                            /\ table.rows[k].value = ConfigRules[k]
                         \/ table.rows[k] = NoRow /\ (k \in MarkupKeys => ConfigRules[k] = None)
                         \/ \E r \in audit : r.key = k /\ r.to = table.rows[k].value
                         \/ \E e \in Edits :
                              /\ At(e, "audit")
                              /\ Recorded(editor[e]).key = k
                              /\ Recorded(editor[e]).to = table.rows[k].value
      BY DEF SInv, TrailInv, SettingIsOnRecord
    <2> QED
      BY DEF Explained, Untouched, InTrail, BeingRecorded, At, Recorded
  <1> QED
    BY <1>1, Invariance, PTL
-----------------------------------------------------------------------------
(* A quote. *)

QuoteType ==
    [pc : {"idle", "fee", "done"}, at : Instances \cup {None}, input : Input \cup {None},
     market : Nat, rateS : Nat, executable : Nat \cup {None}, lowest : Nat \cup {None},
     outcome : {"issued", "insolvent", None}]

\* A sale between its two prices: the first price is positive, and the markup
\* there is now is no less than the least there has been.
Asked(q, held) ==
    /\ q.at \in Instances /\ q.input \in Input
    /\ q.input.kind = "offramp" /\ q.outcome = None
    /\ q.market > 0 /\ q.rateS > 0
    /\ q.lowest # None =>
         MarkupIn(held[q.at], q.input) # None /\ q.lowest <= MarkupIn(held[q.at], q.input)

QuoteInv ==
    /\ quote \in QuoteType
    /\ quote.pc = "fee" => Asked(quote, rules)
    /\ FundableIsQuoted
    /\ MarginIsKept

\* A markup leaves a price, even doubled.
LEMMA MarkupIsSmall ==
    ASSUME NEW held \in RulesType, NEW input \in Input
    PROVE MarkupIn(held, input) # None =>
            MarkupIn(held, input) \in Nat /\ MarkupIn(held, input) < Scale
  <1> DEFINE m == held.markup[Key(input)]
  <1>1. Key(input) \in MarkupKeys /\ m \in Values \cup {None}
    BY PricingAssumption DEF Key, RulesType, Settings
  <1>2. Scale \in Nat
    BY ScaleAssumption
  <1>3. CASE m = None
    BY <1>3 DEF MarkupIn
  <1>4. CASE m # None
    <2>1. m \in Nat /\ 2 * m < Scale /\ m < Scale
      BY <1>1, <1>2, <1>4, PricingAssumption
    <2> QED
      BY <1>2, <1>4, <2>1 DEF MarkupIn
  <1> QED
    BY <1>3, <1>4

\* A price is positive.
LEMMA Priced ==
    ASSUME NEW market \in Nat, market > 0, NEW markup \in Nat
    PROVE /\ markup < Scale => SellRateS(market, markup) \in Nat /\ SellRateS(market, markup) > 0
          /\ BuyRateS(market, markup) \in Nat /\ BuyRateS(market, markup) > 0
  <1>1. Scale \in Nat /\ Scale > 0
    BY ScaleAssumption
  <1>2. ASSUME NEW f \in Nat, f > 0 PROVE market * f \in Nat /\ market * f > 0
    BY <1>2
  <1>3. markup < Scale => Scale - markup \in Nat /\ Scale - markup > 0
    BY <1>1
  <1>4. Scale + markup \in Nat /\ Scale + markup > 0
    BY <1>1
  <1> QED
    BY <1>2, <1>3, <1>4 DEF SellRateS, BuyRateS

\* The less the markup, the higher the price of a sale.
LEMMA LessMarkup ==
    ASSUME NEW paid \in Nat, NEW low \in Nat, NEW m \in Nat, low <= m
    PROVE SellRateS(paid, m) <= SellRateS(paid, low)
  <1>1. Scale - low \in Int /\ Scale - m \in Int /\ Scale - low >= Scale - m
    BY ScaleAssumption
  <1>2. (Scale - low) * paid >= (Scale - m) * paid
    BY <1>1, Multiplied
  <1> QED
    BY <1>1, <1>2 DEF SellRateS

LEMMA SendIsNat ==
    ASSUME NEW dest \in Nat, NEW transfer \in Nat, NEW rateS \in Nat, rateS > 0, NEW fee \in Fees
    PROVE SolveSend(dest, transfer, fee, rateS) \in Nat
  <1>1. Scale \in Nat /\ Scale > 1 /\ fee.value \in Nat /\ fee.type \in {"FLAT", "PERCENTAGE"}
    BY ScaleAssumption DEF Fees
  <1>2. CASE fee.type = "FLAT"
    <2>1. dest * Scale \in Nat
      BY <1>1
    <2>2. CeilDiv(dest * Scale, rateS) \in Nat
      BY <2>1, CeilDivNat
    <2> QED
      BY <1>1, <1>2, <2>2 DEF SolveSend
  <1>3. CASE fee.type = "PERCENTAGE"
    <2> DEFINE k == LesserOf(fee.value, Scale - 1)
               d == rateS * (Scale - k)
               n == (dest * Scale + transfer * rateS) * Scale
    <2>1. k \in Nat /\ Scale - k \in Nat /\ Scale - k > 0
      BY <1>1 DEF LesserOf
    <2>2. n \in Nat
      BY <1>1
    <2> HIDE DEF k
    <2>3. d \in Nat /\ d > 0
      BY <2>1
    <2> HIDE DEF n, d
    <2>4. CeilDiv(n, d) \in Nat
      BY <2>2, <2>3, CeilDivNat
    <2> QED
      BY <1>3, <2>4 DEF SolveSend, n, d, k
  <1> QED
    BY <1>1, <1>2, <1>3

LEMMA NetIsNat ==
    ASSUME NEW send \in Nat, NEW transfer \in Nat, NEW fee \in Fees
    PROVE SendNetS(send, transfer, fee) \in Nat
  <1>1. Scale \in Nat /\ fee.value \in Nat
    BY ScaleAssumption DEF Fees
  <1>2. LesserOf(fee.value, Scale) \in Nat
    BY <1>1 DEF LesserOf
  <1>3. FeeS(send, fee) \in Nat
    BY <1>1, <1>2 DEF FeeS
  <1>4. Scale * send - FeeS(send, fee) - Scale * transfer \in Int
    BY <1>1, <1>3
  <1> QED
    BY <1>4 DEF SendNetS, GreaterOf

\* A fee of everything leaves nothing.
LEMMA NothingLeft ==
    ASSUME NEW send \in Nat, NEW transfer \in Nat, NEW fee \in Fees,
           fee.type = "PERCENTAGE", fee.value >= Scale
    PROVE SendNetS(send, transfer, fee) = 0
  <1>1. Scale \in Nat /\ fee.value \in Nat
    BY ScaleAssumption DEF Fees
  <1>2. FeeS(send, fee) = send * Scale
    <2>1. LesserOf(fee.value, Scale) = Scale
      BY <1>1 DEF LesserOf
    <2> QED
      BY <2>1 DEF FeeS
  <1>3. Scale * send - FeeS(send, fee) - Scale * transfer <= 0
    <2>1. Scale * transfer \in Nat /\ Scale * send = send * Scale /\ send * Scale \in Nat
      BY <1>1
    <2> QED
      BY <1>2, <2>1
  <1> QED
    BY <1>1, <1>2, <1>3 DEF SendNetS, GreaterOf

\* What a quote promises can be paid out of what is left of the crypto, at a
\* rate that is below the provider's, unless whole units raised it.
LEMMA PromiseIsFunded ==
    ASSUME NEW input \in Input, NEW transfer \in Nat, NEW rateS \in Nat, rateS > 0,
           NEW executable \in Nat, rateS < executable * Scale,
           input.fixed = "send" => ~input.whole,
           SendNetS(SendAmount(input, transfer, rateS), transfer, input.fee) # 0
    PROVE LET send == SendAmount(input, transfer, rateS)
          IN  InsolvencyVerdicts(SendNetS(send, transfer, input.fee),
                                 PromisedSS(input, send, transfer, rateS), executable) = {FALSE}
  <1> DEFINE send == SendAmount(input, transfer, rateS)
             net == SendNetS(send, transfer, input.fee)
             receive == PromisedSS(input, send, transfer, rateS)
  <1>1. /\ input.amount \in Nat /\ input.fee \in Fees /\ input.fixed \in {"send", "receive"}
        /\ Scale \in Nat
    BY ScaleAssumption DEF Input
  <1>2. send \in Nat
    BY <1>1, SendIsNat DEF SendAmount
  <1>3. net \in Nat \ {0}
    BY <1>1, <1>2, NetIsNat
  <1>4. receive \in Nat /\ receive <= net * rateS
    <2>1. net * rateS \in Nat
      BY <1>3
    <2>2. CASE input.fixed = "send"
      <3>1. receive = net * rateS
        BY <2>2 DEF PromisedSS, ReceiveSS
      <3> QED
        BY <2>1, <3>1
    <2>3. CASE input.fixed = "receive"
      <3>1. input.fee.type = "PERCENTAGE" => input.fee.value < Scale
        <4>1. input.fee.value \in Nat
          BY <1>1 DEF Fees
        <4>2. ~(input.fee.type = "PERCENTAGE" /\ input.fee.value >= Scale)
          BY <1>1, <1>2, NothingLeft
        <4> QED
          BY <1>1, <4>1, <4>2
      <3>2. send = SolveSend(input.amount, transfer, input.fee, rateS)
        BY <2>3 DEF SendAmount
      <3>3. receive = input.amount * Scale * Scale
        BY <2>3 DEF PromisedSS
      <3> HIDE DEF receive, send
      <3>4. ReceiveSS(send, transfer, input.fee, rateS) >= input.amount * Scale * Scale
        BY <1>1, <3>1, <3>2, DestFixedIsCovered
      <3>5. net * rateS >= receive
        BY <3>3, <3>4 DEF ReceiveSS
      <3>6. receive \in Nat
        BY <1>1, <3>3
      <3> QED
        BY <2>1, <3>5, <3>6
    <2> QED
      BY <1>1, <2>2, <2>3
  <1> HIDE DEF send, net, receive
  <1>5. InsolvencyVerdicts(net, receive, executable) = {FALSE}
    BY <1>3, <1>4, FlooredIsSolvent
  <1> QED
    BY <1>5 DEF net, receive, send

\* The second price of a sale: positive, capped by the provider's, and the
\* markup there is now below both the market and that cap.
LEMMA SecondPrice ==
    ASSUME SInv, quote \in QuoteType, Asked(quote, rules),
           NEW executable \in (Nat \ {0}) \cup {None}
    PROVE LET rateS == CustomerRateS(executable)
          IN  /\ rateS \in Nat /\ rateS > 0
              /\ executable # None /\ ~quote.input.usd => rateS <= executable * Scale
              /\ quote.lowest # None =>
                   rateS <= SellRateS(Floored(quote.market, Cap(executable), None), quote.lowest)
  <1> DEFINE cap == Cap(executable)
             paid == Floored(quote.market, cap, None)
             m == PairMarkup
             rateS == CustomerRateS(executable)
  <1>1. /\ quote.market \in Nat /\ quote.market > 0 /\ quote.rateS \in Nat /\ quote.rateS > 0
        /\ quote.lowest \in Nat \cup {None} /\ quote.input \in Input
        /\ Scale \in Nat /\ Scale > 0
    BY ScaleAssumption DEF Asked, QuoteType
  <1>2. m # None => m \in Nat /\ m < Scale
    <2>1. rules[quote.at] \in RulesType
      BY DEF SInv, Types, Asked
    <2> QED
      BY <1>1, <2>1, MarkupIsSmall DEF PairMarkup
  <1>3. /\ cap # None => cap = executable /\ cap \in Nat /\ cap > 0
        /\ executable # None /\ ~quote.input.usd => cap = executable
    BY DEF Cap
  <1>4. /\ paid \in Nat /\ paid > 0
        /\ cap # None => paid <= cap
    BY <1>1, <1>3 DEF Floored, LesserOf
  <1>5. quote.lowest # None => m # None /\ quote.lowest <= m
    BY DEF Asked, PairMarkup
  <1> HIDE DEF cap, paid, m, rateS
  <1>6. cap # None => cap * Scale \in Nat /\ cap * Scale > 0
    <2>1. ASSUME NEW a \in Nat, NEW b \in Nat, a > 0, b > 0 PROVE a * b \in Nat /\ a * b > 0
      BY <2>1
    <2> QED
      BY <1>1, <1>3, <2>1
  <1>7. CASE m # None
    <2>1. rateS = SellRateS(paid, m)
      BY <1>7 DEF rateS, paid, m, cap, CustomerRateS
    <2>2. rateS \in Nat /\ rateS > 0
      BY <1>2, <1>4, <1>7, <2>1, Priced
    <2>3. cap # None => rateS <= cap * Scale
      <3> SUFFICES ASSUME cap # None PROVE rateS <= cap * Scale
        OBVIOUS
      <3>1. SellRateS(paid, m) <= SellRateS(paid, 0)
        BY <1>2, <1>4, <1>7, LessMarkup
      <3>2. SellRateS(paid, 0) = paid * Scale /\ paid * Scale \in Nat
        BY <1>1, <1>4 DEF SellRateS
      <3>3. cap * Scale >= paid * Scale
        BY <1>1, <1>3, <1>4, Multiplied
      <3> QED
        BY <1>6, <2>1, <2>2, <3>1, <3>2, <3>3
    <2>4. quote.lowest # None => rateS <= SellRateS(paid, quote.lowest)
      BY <1>1, <1>2, <1>4, <1>5, <1>7, <2>1, LessMarkup
    <2> QED
      BY <1>3, <2>2, <2>3, <2>4 DEF rateS, paid, cap
  <1>8. CASE m = None
    <2>1. rateS = Floored(quote.rateS, IF cap = None THEN None ELSE cap * Scale, None)
      BY <1>8 DEF rateS, m, cap, CustomerRateS
    <2>2. rateS \in Nat /\ rateS > 0 /\ (cap # None => rateS <= cap * Scale)
      <3>1. CASE cap = None
        BY <1>1, <2>1, <3>1 DEF Floored
      <3>2. CASE cap # None
        <4> DEFINE c == cap * Scale
        <4>1. c \in Nat /\ c > 0 /\ c # None
          BY <1>6, <3>2, PricingAssumption
        <4> HIDE DEF c
        <4>2. rateS = LesserOf(quote.rateS, c)
          BY <2>1, <3>2, <4>1 DEF Floored, c
        <4> QED
          BY <1>1, <4>1, <4>2 DEF LesserOf, c
      <3> QED
        BY <3>1, <3>2
    <2> QED
      BY <1>3, <1>5, <1>8, <2>2 DEF rateS
  <1> QED
    BY <1>7, <1>8
\* Whatever is kept by a quote that is idle or has not been decided.
LEMMA Undecided ==
    ASSUME quote'.outcome = None
    PROVE FundableIsQuoted' /\ MarginIsKept'
  BY PricingAssumption DEF FundableIsQuoted, MarginIsKept

LEMMA IdleIsQuote == Idle \in QuoteType /\ Idle.pc = "idle" /\ Idle.outcome = None
  BY DEF Idle, QuoteType

LEMMA BackToIdle ==
    ASSUME quote' = Idle
    PROVE QuoteInv'
  BY IdleIsQuote, Undecided DEF QuoteInv

LEMMA OfframpRateInv ==
    ASSUME SInv, QuoteInv, NEW i \in Instances, NEW input \in Inputs, OfframpRate(i, input),
           UNCHANGED settingsVars
    PROVE QuoteInv'
  <1> DEFINE m == MarkupIn(rules[i], input)
  <1>1. PICK market \in Markets :
          quote' = [Idle EXCEPT !.pc = "fee", !.at = i, !.input = input, !.market = market,
                                !.rateS = FirstRateS(i, input, market), !.lowest = m]
    BY DEF OfframpRate
  <1>2. /\ input \in Input /\ input.kind = "offramp" /\ market \in Nat /\ market > 0
        /\ Scale \in Nat
    BY InputsAssumption, PricingAssumption, ScaleAssumption DEF OfframpRate
  <1>3. m # None => m \in Nat /\ m < Scale
    <2>1. rules[i] \in RulesType
      BY DEF SInv, Types
    <2> QED
      BY <1>2, <2>1, MarkupIsSmall
  <1>4. FirstRateS(i, input, market) \in Nat /\ FirstRateS(i, input, market) > 0
    <2> DEFINE p == IF m = None THEN B2BMarkup ELSE m
    <2>1. p \in Nat /\ p < Scale
      BY <1>2, <1>3, PricingAssumption
    <2>2. FirstRateS(i, input, market) = SellRateS(market, p)
      BY DEF FirstRateS
    <2> HIDE DEF p
    <2> QED
      BY <1>2, <2>1, <2>2, Priced
  <1>5. rules' = rules
    BY DEF settingsVars
  <1> DEFINE f == FirstRateS(i, input, market)
  <1> HIDE DEF m, f
  <1>6. /\ quote' \in QuoteType /\ quote'.at = i /\ quote'.input = input
        /\ quote'.market = market /\ quote'.rateS = f /\ quote'.lowest = m
        /\ quote'.outcome = None
    <2>1. quote' = [Idle EXCEPT !.pc = "fee", !.at = i, !.input = input, !.market = market,
                                !.rateS = f, !.lowest = m]
      BY <1>1 DEF f, m
    <2> QED
      BY <1>2, <1>3, <1>4, <2>1 DEF Idle, QuoteType, f
  <1>7. Asked(quote', rules')
    <2>1. MarkupIn(rules'[i], input) = m
      BY <1>5 DEF m
    <2> QED
      BY <1>2, <1>3, <1>4, <1>6, <2>1 DEF Asked, f
  <1> QED
    BY <1>6, <1>7, Undecided DEF QuoteInv

LEMMA OfframpFeeInv ==
    ASSUME SInv, QuoteInv, OfframpFee, UNCHANGED settingsVars
    PROVE QuoteInv'
  <1>1. CASE quote' = Idle
    BY <1>1, BackToIdle
  <1>2. CASE quote' # Idle
    <2>1. PICK executable \in Executables, priced \in TransferFees :
            LET input == quote.input
                rateS == CustomerRateS(executable)
                transfer == Transfer(priced)
                send == SendAmount(input, transfer, rateS)
                net == SendNetS(send, transfer, input.fee)
                receive == PromisedSS(input, send, transfer, rateS)
                verdicts == IF input.usd \/ executable = None THEN {FALSE}
                            ELSE InsolvencyVerdicts(net, receive, executable)
            IN  /\ transfer # None
                /\ net # 0
                /\ \E insolvent \in verdicts :
                     Conclude(rateS, executable, IF insolvent THEN "insolvent" ELSE "issued")
      BY <1>2 DEF OfframpFee
    <2> DEFINE input == quote.input
               rateS == CustomerRateS(executable)
               transfer == Transfer(priced)
               send == SendAmount(input, transfer, rateS)
               net == SendNetS(send, transfer, input.fee)
               receive == PromisedSS(input, send, transfer, rateS)
               verdicts == IF input.usd \/ executable = None THEN {FALSE}
                           ELSE InsolvencyVerdicts(net, receive, executable)
               paid == Floored(quote.market, Cap(executable), None)
    <2>2. /\ Asked(quote, rules) /\ quote \in QuoteType /\ input \in Input
          /\ executable \in (Nat \ {0}) \cup {None}
      BY PricingAssumption DEF OfframpFee, QuoteInv, Asked
    <2>3. transfer # None => transfer \in Nat
      BY PricingAssumption DEF Transfer, KnownTransfer
    <2>4. /\ rateS \in Nat /\ rateS > 0
          /\ executable # None /\ ~input.usd => rateS <= executable * Scale
          /\ quote.lowest # None => rateS <= SellRateS(paid, quote.lowest)
      BY <2>2, SecondPrice
    <2>5. PICK refused \in verdicts :
            /\ transfer # None /\ net # 0
            /\ quote' = [quote EXCEPT !.pc = "done", !.rateS = rateS, !.executable = executable,
                                     !.outcome = IF refused THEN "insolvent" ELSE "issued"]
      BY <2>1 DEF Conclude
    <2> DEFINE outcome == IF refused THEN "insolvent" ELSE "issued"
    <2> HIDE DEF rateS, transfer
    <2>6. refused => \/ input.whole /\ input.fixed = "send"
                     \/ rateS = executable * Scale
      <3> SUFFICES ASSUME refused, ~(input.whole /\ input.fixed = "send"),
                          rateS # executable * Scale
                   PROVE FALSE
        OBVIOUS
      <3>1. ~input.usd /\ executable # None
        BY <2>5
      <3>2. executable \in Nat /\ executable * Scale \in Nat /\ rateS < executable * Scale
        BY <2>2, <2>4, <3>1, ScaleAssumption
      <3> HIDE DEF input
      <3>3. InsolvencyVerdicts(net, receive, executable) = {FALSE}
        BY <2>2, <2>3, <2>4, <2>5, <3>2, PromiseIsFunded
      <3> QED
        BY <2>5, <3>1, <3>3
    <2>7. /\ outcome \in {"issued", "insolvent"} /\ (outcome = "insolvent" => refused)
          /\ quote' = [quote EXCEPT !.pc = "done", !.rateS = rateS, !.executable = executable,
                                   !.outcome = outcome]
      BY <2>5
    <2> HIDE DEF outcome, input, verdicts
    <2>8. /\ quote' \in QuoteType /\ quote'.pc = "done" /\ quote'.rateS = rateS
          /\ quote'.executable = executable /\ quote'.outcome = outcome
          /\ quote'.input = input /\ quote'.market = quote.market
          /\ quote'.lowest = quote.lowest
      BY <2>2, <2>4, <2>7 DEF QuoteType, input
    <2>9. FundableIsQuoted'
      BY <2>6, <2>7, <2>8 DEF FundableIsQuoted
    <2>10. paid = Floored(quote'.market,
                   IF quote'.input.usd THEN None ELSE quote'.executable, None)
      BY <2>8 DEF Cap, input
    <2>11. quote'.input.kind = "offramp"
      BY <2>2, <2>8 DEF Asked, input
    <2> HIDE DEF paid
    <2>12. MarginIsKept'
      BY <2>4, <2>8, <2>10, <2>11 DEF MarginIsKept, Cap
    <2> QED
      BY <2>8, <2>9, <2>12 DEF QuoteInv
  <1> QED
    BY <1>1, <1>2

LEMMA OnrampQuoteInv ==
    ASSUME SInv, QuoteInv, NEW i \in Instances, NEW input \in Inputs, OnrampQuote(i, input)
    PROVE QuoteInv'
  <1> DEFINE m == MarkupIn(rules[i], input)
             p == OnrampMarkup(i, input)
  <1>1. PICK market \in Markets :
          quote' = [Idle EXCEPT !.pc = "done", !.at = i, !.input = input,
                                !.market = market, !.rateS = BuyRateS(market, p),
                                !.outcome = "issued", !.lowest = m]
    BY DEF OnrampQuote
  <1>2. /\ input \in Input /\ input.kind = "onramp" /\ market \in Nat /\ market > 0
        /\ Scale \in Nat
    BY InputsAssumption, PricingAssumption, ScaleAssumption DEF OnrampQuote
  <1>3. m # None => m \in Nat
    <2>1. rules[i] \in RulesType
      BY DEF SInv, Types
    <2> QED
      BY <1>2, <2>1, MarkupIsSmall
  <1>4. p \in Nat /\ (input.named => p >= NamedMarkup) /\ (~input.named /\ m # None => p = m)
        /\ NamedMarkup \in Nat
    BY <1>2, <1>3, PricingAssumption DEF OnrampMarkup
  <1> DEFINE q == BuyRateS(market, p)
  <1>5. q \in Nat
    BY <1>2, <1>4, Priced
  <1>6. ASSUME NEW low \in Nat, low <= p PROVE q >= BuyRateS(market, low)
    <2>1. Scale + p \in Int /\ Scale + low \in Int /\ Scale + p >= Scale + low
      BY <1>2, <1>4, <1>6
    <2>2. (Scale + p) * market >= (Scale + low) * market
      BY <1>2, <2>1, Multiplied
    <2> QED
      BY <1>2, <2>1, <2>2 DEF BuyRateS
  <1> HIDE DEF m, p, q
  <1>7. /\ quote' \in QuoteType /\ quote'.pc = "done" /\ quote'.input = input
        /\ quote'.market = market /\ quote'.rateS = q /\ quote'.lowest = m
        /\ quote'.outcome = "issued"
    <2>1. quote' = [Idle EXCEPT !.pc = "done", !.at = i, !.input = input, !.market = market,
                                !.rateS = q, !.outcome = "issued", !.lowest = m]
      BY <1>1 DEF q, m, p
    <2> QED
      BY <1>2, <1>3, <1>5, <2>1 DEF Idle, QuoteType
  <1>8. MarginIsKept'
    <2> DEFINE low == IF input.named THEN NamedMarkup ELSE m
    <2> SUFFICES ASSUME m # None PROVE q >= BuyRateS(market, low)
      BY <1>2, <1>7 DEF MarginIsKept
    <2>1. low \in Nat /\ low <= p
      BY <1>3, <1>4
    <2> QED
      BY <1>6, <2>1
  <1> QED
    BY <1>7, <1>8 DEF QuoteInv, FundableIsQuoted

\* What is not about an instance's rules is kept while they change.
LEMMA Kept ==
    ASSUME QuoteInv, quote' = quote, quote.pc = "fee" => rules'[quote.at] = rules[quote.at]
    PROVE QuoteInv'
  <1>1. FundableIsQuoted' /\ MarginIsKept'
    BY DEF QuoteInv, FundableIsQuoted, MarginIsKept, Cap
  <1>2. quote.pc = "fee" => Asked(quote, rules')
    BY DEF QuoteInv, Asked, MarkupIn
  <1> QED
    BY <1>1, <1>2 DEF QuoteInv

LEMMA WatchedInv ==
    ASSUME SInv, SInv', QuoteInv, Watched
    PROVE QuoteInv'
  <1>1. CASE quote.pc \in {"idle", "done"} \/ rules'[quote.at] = rules[quote.at]
    BY <1>1, Kept DEF Watched
  <1>2. CASE quote.pc \notin {"idle", "done"} /\ rules'[quote.at] # rules[quote.at]
    <2> DEFINE m == MarkupIn(rules'[quote.at], quote.input)
               low == Lower(quote.lowest, m)
    <2>1. quote \in QuoteType /\ quote.pc = "fee" /\ Asked(quote, rules)
      BY <1>2 DEF QuoteInv, QuoteType
    <2>2. m # None => m \in Nat
      <3>1. rules'[quote.at] \in RulesType
        BY <2>1 DEF SInv, Types, Asked
      <3> QED
        BY <2>1, <3>1, MarkupIsSmall DEF Asked
    <2>3. quote' = [quote EXCEPT !.lowest = low]
      BY <1>2 DEF Watched
    <2> HIDE DEF m
    <2>4. low \in Nat \cup {None} /\ (low # None => m # None /\ low <= m)
      <3>1. quote.lowest \in Nat \cup {None}
        BY <2>1 DEF QuoteType
      <3> QED
        BY <2>2, <3>1 DEF Lower, LesserOf
    <2> HIDE DEF low
    <2>5. /\ quote' \in QuoteType /\ quote'.at = quote.at /\ quote'.input = quote.input
          /\ quote'.outcome = quote.outcome /\ quote'.market = quote.market
          /\ quote'.rateS = quote.rateS /\ quote'.lowest = low
      BY <2>1, <2>3, <2>4 DEF QuoteType
    <2>6. MarkupIn(rules'[quote'.at], quote'.input) = m
      BY <2>5 DEF m
    <2>7. Asked(quote', rules')
      BY <2>1, <2>4, <2>5, <2>6 DEF Asked
    <2> QED
      BY <2>1, <2>5, <2>7, Undecided DEF QuoteInv, Asked
  <1> QED
    BY <1>1, <1>2

LEMMA QuoteStepInv == SInv /\ SInv' /\ QuoteInv /\ [Next]_vars => QuoteInv'
  <1> SUFFICES ASSUME SInv, SInv', QuoteInv, [Next]_vars PROVE QuoteInv'
    OBVIOUS
  <1>1. CASE QuoteStep /\ UNCHANGED settingsVars
    <2>1. CASE OfframpFee
      BY <1>1, <2>1, OfframpFeeInv
    <2>2. CASE Answer
      BY <2>2, BackToIdle DEF Answer
    <2>3. ASSUME NEW i \in Instances, NEW input \in Inputs,
                 OfframpRate(i, input) \/ OnrampQuote(i, input)
          PROVE QuoteInv'
      BY <1>1, <2>3, OfframpRateInv, OnrampQuoteInv
    <2> QED
      BY <1>1, <2>1, <2>2, <2>3 DEF QuoteStep
  <1>2. CASE SettingsWork /\ Watched
    BY <1>2, WatchedInv
  <1>3. ASSUME NEW i \in Instances, Restart(i),
               quote' = IF quote.at = i THEN Idle ELSE quote
        PROVE QuoteInv'
    <2>1. CASE quote.at = i
      BY <1>3, <2>1, BackToIdle
    <2>2. CASE quote.at # i
      <3>1. quote.pc = "fee" => rules'[quote.at] = rules[quote.at]
        BY <1>3, <2>2 DEF Restart, SInv, Types, QuoteInv, Asked
      <3> QED
        BY <1>3, <2>2, <3>1, Kept
    <2> QED
      BY <2>1, <2>2
  <1>4. CASE UNCHANGED vars
    BY <1>4, Kept DEF vars, settingsVars
  <1> QED
    BY <1>1, <1>2, <1>3, <1>4 DEF Next

LEMMA QuoteInvariance == Spec => [](SInv /\ QuoteInv)
  <1>1. Init => QuoteInv
    <2> SUFFICES ASSUME Init PROVE QuoteInv
      OBVIOUS
    <2>1. quote = Idle
      BY DEF Init
    <2> QED
      BY <2>1, IdleIsQuote, PricingAssumption DEF QuoteInv, FundableIsQuoted, MarginIsKept
  <1> QED
    BY <1>1, InitInv, StepInv, QuoteStepInv, PTL DEF Spec

\* createOfframpQuote's solvency check refuses no sale that is priced below the
\* provider's rate, for every rate, fee and amount, and although the rules are
\* reloaded between the two prices: only rounding to whole units is refused.
THEOREM FundableIsNeverRefused == Spec => []FundableIsQuoted
  <1>1. QuoteInv => FundableIsQuoted
    BY DEF QuoteInv
  <1> QED
    BY <1>1, QuoteInvariance, PTL

\* Whatever reloads, restarts and edits change the rules while a quote is made,
\* the least markup the instance held meanwhile is in the price, below the
\* market and the provider's rate or above the market (applyPairMarkup).
THEOREM MarginIsEarned == Spec => []MarginIsKept
  <1>1. QuoteInv => MarginIsKept
    BY DEF QuoteInv
  <1> QED
    BY <1>1, QuoteInvariance, PTL
=============================================================================
