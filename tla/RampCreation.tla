----------------------------- MODULE RampCreation ----------------------------
(***************************************************************************)
(* POST /onramps and POST /offramps: from the Redis request key to the row. *)
(*                                                                          *)
(* A request passes the idempotency middleware, looks for a row with its    *)
(* request id, has its quote checked (onramp) or consumed (offramp), opens  *)
(* a deposit account at the liquidity provider, and stores the row; an      *)
(* onramp's quote is consumed only then.  Each of these is an awaited call, *)
(* and requests interleave between them.                                    *)
(***************************************************************************)
EXTENDS Naturals

CONSTANTS
    Requests,    \* the requests partners send
    Ids,         \* the values of the requestId header
    Quotes,      \* the locked quotes
    NoQuote,     \* what an onramp request without quoteId carries
    QuoteKind,   \* QuoteKind[q] is the rampType of quote q
    MaxFaults    \* bound: requests an instance may lose or fail half-way

Kinds == {"onramp", "offramp"}

ASSUME QuoteKindAssumption ==
    /\ QuoteKind \in [Quotes -> Kinds]
    /\ NoQuote \notin Quotes

ASSUME FaultsAssumption == MaxFaults \in Nat

VARIABLES
    stage,     \* how far each request has come
    body,      \* the ramp each request asks for
    keys,      \* the request keys held in Redis
    consumed,  \* the quotes with consumedAt set
    expired,   \* the quotes past expiresAt
    accounts,  \* the requests a deposit account of their own was opened for
    stored,    \* the requests whose ramp is in the database
    faults     \* how many requests have been lost or failed half-way

vars == <<stage, body, keys, consumed, expired, accounts, stored, faults>>
-----------------------------------------------------------------------------
\* A request in flight is at an awaited call.  "refused" has been answered with
\* an error and still holds its key; "answered" has released it.  "duplicate"
\* never had it, "lost" died without an answer, "created" was answered 201.
InFlight == {"lookup", "check", "consume", "provision", "store", "settle", "refused"}

Stages == InFlight \union {"new", "duplicate", "answered", "created", "lost"}

Body ==
    {b \in [kind : Kinds, id : Ids, quote : Quotes \union {NoQuote}] :
        b.kind = "offramp" => b.quote # NoQuote}

\* The key is scoped by method and route, so the kinds do not share ids.
Key(b) == <<b.kind, b.id>>

\* A row with this request id exists; the column is unique in each table.
Exists(b) == \E r \in stored : Key(body[r]) = Key(b)

Usable(q, kind) == QuoteKind[q] = kind /\ q \notin consumed \union expired

Goto(r, s) == stage' = [stage EXCEPT ![r] = s]

Init ==
    /\ stage = [r \in Requests |-> "new"]
    /\ body \in [Requests -> Body]
    /\ keys = {}
    /\ consumed = {}
    /\ expired = {}
    /\ accounts = {}
    /\ stored = {}
    /\ faults = 0
-----------------------------------------------------------------------------
(* idempotencyMiddleware *)

\* (Mutant of Send: the key is read first and set without NX.)
SendUnchecked(r) ==
    /\ stage[r] = "new"
    /\ keys' = keys \union {Key(body[r])}
    /\ Goto(r, "lookup")
    /\ UNCHANGED <<body, consumed, expired, accounts, stored, faults>>

\* SET NX: the second request with a key is answered 409, and keeps no key.
Send(r) ==
    /\ stage[r] = "new"
    /\ IF Key(body[r]) \in keys
       THEN Goto(r, "duplicate") /\ UNCHANGED keys
       ELSE Goto(r, "lookup") /\ keys' = keys \union {Key(body[r])}
    /\ UNCHANGED <<body, consumed, expired, accounts, stored, faults>>

\* (Mutant of Release: the key of a failed request is kept.)
ReleaseNothing(r) ==
    /\ stage[r] = "refused"
    /\ Goto(r, "answered")
    /\ UNCHANGED <<body, keys, consumed, expired, accounts, stored, faults>>

\* The response has gone out with a status of 400 or more.
Release(r) ==
    /\ stage[r] = "refused"
    /\ keys' = keys \ {Key(body[r])}
    /\ Goto(r, "answered")
    /\ UNCHANGED <<body, consumed, expired, accounts, stored, faults>>

\* Redis drops a key after its TTL, a day by default, which outlives every
\* request in flight.
KeyExpires(k) ==
    /\ k \in keys
    /\ ~ \E r \in Requests : stage[r] \in InFlight /\ Key(body[r]) = k
    /\ keys' = keys \ {k}
    /\ UNCHANGED <<stage, body, consumed, expired, accounts, stored, faults>>
-----------------------------------------------------------------------------
(* createOnramp and createOfframp *)

AfterLookup(b) ==
    CASE b.kind = "offramp" -> "consume"
      [] b.quote = NoQuote -> "provision"
      [] OTHER -> "check"

Lookup(r) ==
    /\ stage[r] = "lookup"
    /\ Goto(r, IF Exists(body[r]) THEN "refused" ELSE AfterLookup(body[r]))
    /\ UNCHANGED <<body, keys, consumed, expired, accounts, stored, faults>>

\* An onramp's quote is only looked at.
CheckQuote(r) ==
    /\ stage[r] = "check"
    /\ Goto(r, IF Usable(body[r].quote, body[r].kind) THEN "provision" ELSE "refused")
    /\ UNCHANGED <<body, keys, consumed, expired, accounts, stored, faults>>

\* (Mutant of ConsumeQuote: read, then update without the condition; the quote
\* is marked with the row.)
ConsumeQuoteLater(r) ==
    /\ stage[r] = "consume"
    /\ Goto(r, IF Usable(body[r].quote, body[r].kind) THEN "provision" ELSE "refused")
    /\ UNCHANGED <<body, keys, consumed, expired, accounts, stored, faults>>

\* consumeRampQuote, a conditional update: one request gets the quote.
ConsumeQuote(r) ==
    LET q == body[r].quote
    IN  /\ stage[r] = "consume"
        /\ IF Usable(q, body[r].kind)
           THEN Goto(r, "provision") /\ consumed' = consumed \union {q}
           ELSE Goto(r, "refused") /\ UNCHANGED consumed
        /\ UNCHANGED <<body, keys, expired, accounts, stored, faults>>

\* The request is answered with an error before anything is opened for it.
TurnAway(r, kind) ==
    /\ stage[r] \in {"lookup", "provision"}
    /\ body[r].kind = kind
    /\ Goto(r, "refused")
    /\ UNCHANGED <<body, keys, consumed, expired, accounts, stored, faults>>

\* A body that does not match its header or its quote, two customers, an
\* unknown one, no KYB; then a wrong account or wallet, or one that cannot be
\* paid out to - an offramp's quote is spent by then.
RefuseOfframp(r) == TurnAway(r, "offramp")

\* The like for an onramp, and rates out of reach when no quote was locked.
RefuseOnramp(r) == TurnAway(r, "onramp")

Refuse(r) == RefuseOfframp(r) \/ RefuseOnramp(r)

\* The provider opens an account under the fresh txnRef of this request, and its
\* deposit instructions go into the row.
OpenAccount(r, kind) ==
    /\ stage[r] = "provision"
    /\ body[r].kind = kind
    /\ accounts' = accounts \union {r}
    /\ Goto(r, "store")
    /\ UNCHANGED <<body, keys, consumed, expired, stored, faults>>

ProvisionWallet(r) == OpenAccount(r, "offramp")

\* When the account gets no usable instructions, an onramp goes on with the
\* house's static ones; the account is open all the same.
ProvisionBankAccount(r) == OpenAccount(r, "onramp")

Provision(r) == ProvisionWallet(r) \/ ProvisionBankAccount(r)

\* An onramp may take a static deposit account or the customer's named one.
ReuseAccount(r) ==
    /\ stage[r] = "provision"
    /\ body[r].kind = "onramp"
    /\ Goto(r, "store")
    /\ UNCHANGED <<body, keys, consumed, expired, accounts, stored, faults>>

\* The unique request id refuses a second row.
Store(r) ==
    /\ stage[r] = "store"
    /\ IF Exists(body[r])
       THEN Goto(r, "refused") /\ UNCHANGED stored
       ELSE /\ stored' = stored \union {r}
            /\ Goto(r, IF body[r].kind = "onramp" /\ body[r].quote # NoQuote
                       THEN "settle" ELSE "created")
    /\ UNCHANGED <<body, keys, consumed, expired, accounts, faults>>

\* The onramp's quote is consumed, and the outcome not looked at.
SettleQuote(r) ==
    LET b == body[r]
    IN  /\ stage[r] = "settle"
        /\ consumed' = IF Usable(b.quote, b.kind) THEN consumed \union {b.quote}
                                                  ELSE consumed
        /\ Goto(r, "created")
        /\ UNCHANGED <<body, keys, expired, accounts, stored, faults>>
-----------------------------------------------------------------------------
QuoteExpires(q) ==
    /\ q \notin expired
    /\ expired' = expired \union {q}
    /\ UNCHANGED <<stage, body, keys, consumed, accounts, stored, faults>>

\* An awaited call throws, or the provider opens an account and never sends its
\* instructions ("store" is then left with the account open): the request is
\* answered with an error.
Throw(r) ==
    /\ faults < MaxFaults
    /\ stage[r] \in InFlight \ {"refused"}
    /\ Goto(r, "refused")
    /\ faults' = faults + 1
    /\ UNCHANGED <<body, keys, consumed, expired, accounts, stored>>

\* The process dies; or a refused client is gone before its response is out,
\* and the "finish" that drops the key never comes.  (A client that is gone
\* earlier changes nothing: its handler runs on.)  The key stays.
Lose(r) ==
    /\ faults < MaxFaults
    /\ stage[r] \in InFlight
    /\ Goto(r, "lost")
    /\ faults' = faults + 1
    /\ UNCHANGED <<body, keys, consumed, expired, accounts, stored>>

Handle(r) ==
    \/ Send(r) \/ Lookup(r) \/ CheckQuote(r) \/ ConsumeQuote(r) \/ Refuse(r)
    \/ Provision(r) \/ ReuseAccount(r) \/ Store(r) \/ SettleQuote(r) \/ Release(r)

Next ==
    \/ \E r \in Requests : Handle(r) \/ Throw(r) \/ Lose(r)
    \/ \E k \in Kinds \X Ids : KeyExpires(k)
    \/ \E q \in Quotes : QuoteExpires(q)

Spec == Init /\ [][Next]_vars
-----------------------------------------------------------------------------
(* Properties. *)

\* Every variable keeps its type.
TypeOK ==
    /\ stage \in [Requests -> Stages]
    /\ body \in [Requests -> Body]
    /\ keys \subseteq Kinds \X Ids
    /\ consumed \subseteq Quotes
    /\ expired \subseteq Quotes
    /\ accounts \subseteq Requests
    /\ stored \subseteq Requests
    /\ faults \in 0..MaxFaults

\* No two ramps of this kind were created from one locked quote.
QuoteOnce(kind) ==
    \A r, s \in stored :
        /\ body[r].kind = kind /\ body[s].kind = kind
        /\ body[r].quote = body[s].quote /\ body[r].quote # NoQuote
        => r = s

\* However requests overlap, one locked rate is given to one offramp: the quote
\* is consumed by a conditional update before anything else is done with it
\* (rampQuote.repo.ts).
OfframpQuoteOnce == QuoteOnce("offramp")

\* A deposit account opened at the provider belongs to a ramp, or to a request
\* still being served: if nothing throws or dies, repeated request ids never
\* leave an address that takes money for no ramp.  The Redis key and the lookup
\* behind it must hold between them (idempotency.ts, controllers.ts).
AccountsHaveRamps ==
    faults = 0 => \A r \in accounts : r \in stored \/ stage[r] = "store"

\* "Failed responses (>= 400) release the key so the client can retry"
\* (idempotency.ts): a request is turned away as a duplicate only while an
\* equal one is being served, after one was served, or after one was lost.
DuplicateIsJustified ==
    [][ \A r \in Requests :
          stage[r] = "new" /\ stage'[r] = "duplicate"
            => \E s \in Requests \ {r} :
                  /\ Key(body[s]) = Key(body[r])
                  /\ stage[s] \in InFlight \union {"created", "lost"} ]_vars

\* An onramp that could not be created has not used up its quote, so the
\* customer can try again at the locked rate (the consumption follows the
\* creation in onramps/controllers.ts).
OnrampQuoteIsKept ==
    \A q \in consumed :
        QuoteKind[q] = "onramp"
            => \E r \in stored : body[r].kind = "onramp" /\ body[r].quote = q
-----------------------------------------------------------------------------
(* The inductive invariant. *)

\* The offramp requests and ramps a quote has been consumed for.
Holds(r) ==
    /\ body[r].kind = "offramp"
    /\ stage[r] \in {"provision", "store"} \/ r \in stored

\* A quote that an offramp holds is consumed, and held by one offramp.
QuoteInv ==
    /\ \A r \in Requests : Holds(r) => body[r].quote \in consumed
    /\ \A r, s \in Requests :
          Holds(r) /\ Holds(s) /\ body[r].quote = body[s].quote => r = s

\* A request in flight has its key in Redis, and no two have the same.
KeyInv ==
    /\ \A r \in Requests : stage[r] \in InFlight => Key(body[r]) \in keys
    /\ \A r, s \in Requests :
          /\ stage[r] \in InFlight /\ stage[s] \in InFlight
          /\ Key(body[r]) = Key(body[s])
          => r = s

\* A key in Redis has been left there by a request.
KeyOwnerInv ==
    \A k \in keys : \E r \in Requests :
        Key(body[r]) = k /\ stage[r] \in InFlight \union {"created", "lost"}

\* The kinds take different ways.
WayInv ==
    \A r \in Requests :
        /\ stage[r] \in {"check", "settle"}
              => body[r].kind = "onramp" /\ body[r].quote # NoQuote
        /\ stage[r] = "consume" => body[r].kind = "offramp"

\* Between its lookup and its insert a request id has no row.
RowInv ==
    /\ \A r \in Requests :
          stage[r] \in {"check", "consume", "provision", "store"} => ~Exists(body[r])
    /\ \A r \in Requests : stage[r] = "new" => r \notin stored
    /\ \A r \in Requests : stage[r] = "settle" => r \in stored

IInv ==
    /\ TypeOK
    /\ QuoteInv
    /\ KeyInv
    /\ KeyOwnerInv
    /\ WayInv
    /\ RowInv
    /\ AccountsHaveRamps
    /\ OnrampQuoteIsKept
=============================================================================
