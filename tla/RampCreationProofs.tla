-------------------------- MODULE RampCreationProofs --------------------------
(***************************************************************************)
(* Theorems about RampCreation, for any requests, ids, quotes and faults.   *)
(* IInv is inductive; the lemmas take its parts in turn, because most steps *)
(* disturb a part in the same way: a request moves on, and a key, a quote   *)
(* or a row changes hands in a few actions only.                            *)
(***************************************************************************)
EXTENDS RampCreation, TLAPS

\* The stage of one request changes, and no request changes its body.
Moves(r) ==
    /\ stage' = [stage EXCEPT ![r] = stage'[r]]
    /\ stage'[r] \in Stages
    /\ body' = body

\* A request's key is a pair of a kind and an id.
LEMMA BodyTyped ==
    ASSUME TypeOK, NEW r \in Requests
    PROVE  /\ body[r].kind \in Kinds
           /\ body[r].quote \in Quotes \union {NoQuote}
           /\ body[r].kind = "offramp" => body[r].quote \in Quotes
           /\ Key(body[r]) \in Kinds \X Ids
BY DEF TypeOK, Body, Key, Kinds

\* A typed stage function changes at one request only.
LEMMA Moved ==
    ASSUME TypeOK, NEW r \in Requests, Moves(r)
    PROVE  /\ stage' \in [Requests -> Stages]
           /\ body' \in [Requests -> Body]
           /\ \A s \in Requests \ {r} : stage'[s] = stage[s]
BY DEF TypeOK, Moves

\* What a request in flight does next: it stays in flight, is created or lost.
LEMMA MoveStep ==
    ASSUME TypeOK, NEW r \in Requests,
           Lookup(r) \/ CheckQuote(r) \/ ConsumeQuote(r) \/ Refuse(r) \/ Provision(r)
              \/ ReuseAccount(r) \/ Store(r) \/ SettleQuote(r) \/ Throw(r) \/ Lose(r)
    PROVE  /\ Moves(r)
           /\ stage[r] \in InFlight
           /\ stage'[r] \in InFlight \union {"created", "lost"}
           /\ keys' = keys
<1>1. CASE Lookup(r)
  <2>1. stage'[r] \in {"refused", "consume", "provision", "check"}
    BY <1>1 DEF TypeOK, Lookup, Goto, AfterLookup
  <2>. QED BY <1>1, <2>1 DEF TypeOK, Lookup, Goto, Moves, InFlight, Stages
<1>2. CASE CheckQuote(r)
  BY <1>2 DEF TypeOK, CheckQuote, Goto, Moves, InFlight, Stages
<1>3. CASE ConsumeQuote(r)
  BY <1>3 DEF TypeOK, ConsumeQuote, Goto, Moves, InFlight, Stages
<1>4. CASE Refuse(r) BY <1>4 DEF TypeOK, Refuse,
                RefuseOnramp, RefuseOfframp, TurnAway,
                Goto, Moves, InFlight, Stages
<1>5. CASE Provision(r) BY <1>5 DEF TypeOK, Provision, ProvisionWallet,
                ProvisionBankAccount, OpenAccount, Goto, Moves, InFlight, Stages
<1>6. CASE ReuseAccount(r)
  BY <1>6 DEF TypeOK, ReuseAccount, Goto, Moves, InFlight, Stages
<1>7. CASE Store(r) BY <1>7 DEF TypeOK, Store, Goto, Moves, InFlight, Stages
<1>8. CASE SettleQuote(r)
  BY <1>8 DEF TypeOK, SettleQuote, Goto, Moves, InFlight, Stages
<1>9. CASE Throw(r) BY <1>9 DEF TypeOK, Throw, Goto, Moves, InFlight, Stages
<1>10. CASE Lose(r) BY <1>10 DEF TypeOK, Lose, Goto, Moves, InFlight, Stages
<1>. QED BY <1>1, <1>2, <1>3, <1>4, <1>5, <1>6, <1>7, <1>8, <1>9, <1>10

LEMMA SendMoves ==
    ASSUME TypeOK, NEW r \in Requests, Send(r)
    PROVE  Moves(r) /\ stage'[r] \in {"lookup", "duplicate"}
BY DEF TypeOK, Send, Goto, Moves, InFlight, Stages

LEMMA ReleaseMoves ==
    ASSUME TypeOK, NEW r \in Requests, Release(r)
    PROVE  Moves(r) /\ stage'[r] = "answered"
BY DEF TypeOK, Release, Goto, Moves, InFlight, Stages
-----------------------------------------------------------------------------
(* Types. *)

LEMMA TypeStep ==
    ASSUME TypeOK, WayInv, [Next]_vars
    PROVE  TypeOK'
<1>. USE FaultsAssumption
<1>1. ASSUME NEW r \in Requests,
             Lookup(r) \/ CheckQuote(r) \/ ConsumeQuote(r) \/ Refuse(r) \/ Provision(r)
                \/ ReuseAccount(r) \/ Store(r) \/ SettleQuote(r) \/ Throw(r) \/ Lose(r)
      PROVE  TypeOK'
  <2>1. /\ stage' \in [Requests -> Stages] /\ body' \in [Requests -> Body]
        /\ keys' \subseteq Kinds \X Ids
    BY <1>1, MoveStep, Moved DEF TypeOK
  <2>2. expired' \subseteq Quotes
    BY <1>1 DEF TypeOK, Lookup, CheckQuote, ConsumeQuote, Refuse,
                RefuseOnramp, RefuseOfframp, TurnAway,
                Provision, ProvisionWallet,
                ProvisionBankAccount, OpenAccount,
                ReuseAccount, Store, SettleQuote, Throw, Lose
  <2>3. accounts' \subseteq Requests /\ stored' \subseteq Requests
    BY <1>1 DEF TypeOK, Lookup, CheckQuote, ConsumeQuote, Refuse,
                RefuseOnramp, RefuseOfframp, TurnAway,
                Provision, ProvisionWallet,
                ProvisionBankAccount, OpenAccount,
                ReuseAccount, Store, SettleQuote, Throw, Lose
  <2>4. faults' \in 0..MaxFaults
    BY <1>1 DEF TypeOK, Lookup, CheckQuote, ConsumeQuote, Refuse,
                RefuseOnramp, RefuseOfframp, TurnAway,
                Provision, ProvisionWallet,
                ProvisionBankAccount, OpenAccount,
                ReuseAccount, Store, SettleQuote, Throw, Lose
  <2>5. consumed' \subseteq Quotes
    <3>1. CASE ConsumeQuote(r)
      BY <3>1, BodyTyped DEF TypeOK, WayInv, ConsumeQuote
    <3>2. CASE SettleQuote(r)
      BY <3>2, BodyTyped DEF TypeOK, WayInv, SettleQuote
    <3>. QED BY <1>1, <3>1, <3>2
             DEF TypeOK, Lookup, CheckQuote, Refuse,
                RefuseOnramp, RefuseOfframp, TurnAway,
                Provision, ProvisionWallet,
                ProvisionBankAccount, OpenAccount, ReuseAccount, Store,
                 Throw, Lose
  <2>. QED BY <2>1, <2>2, <2>3, <2>4, <2>5 DEF TypeOK
<1>2. ASSUME NEW r \in Requests, Send(r)
      PROVE  TypeOK'
  BY <1>2, SendMoves, Moved, BodyTyped DEF TypeOK, Send
<1>3. ASSUME NEW r \in Requests, Release(r)
      PROVE  TypeOK'
  BY <1>3, ReleaseMoves, Moved DEF TypeOK, Release
<1>4. ASSUME NEW k \in Kinds \X Ids, KeyExpires(k)
      PROVE  TypeOK'
  BY <1>4 DEF TypeOK, KeyExpires
<1>5. ASSUME NEW q \in Quotes, QuoteExpires(q)
      PROVE  TypeOK'
  BY <1>5 DEF TypeOK, QuoteExpires
<1>6. CASE UNCHANGED vars BY <1>6 DEF TypeOK, vars
<1>. QED BY <1>1, <1>2, <1>3, <1>4, <1>5, <1>6 DEF Next, Handle
-----------------------------------------------------------------------------
(* Keys. *)

\* A request that moves on keeps its key, and leaves it when it is done.
LEMMA KeysKept ==
    ASSUME TypeOK, KeyInv, KeyOwnerInv, NEW r \in Requests, Moves(r), keys' = keys,
           stage[r] \in InFlight, stage'[r] \in InFlight \union {"created", "lost"}
    PROVE  KeyInv' /\ KeyOwnerInv'
<1>1. \A s \in Requests : stage'[s] \in InFlight => stage[s] \in InFlight
  BY Moved
<1>2. KeyInv' BY <1>1 DEF KeyInv, Moves
<1>3. KeyOwnerInv'
  <2>. SUFFICES ASSUME NEW k \in keys
                PROVE  \E s \in Requests :
                          /\ Key(body[s]) = k
                          /\ stage'[s] \in InFlight \union {"created", "lost"}
    BY DEF KeyOwnerInv, Moves
  <2>1. PICK s \in Requests :
           Key(body[s]) = k /\ stage[s] \in InFlight \union {"created", "lost"}
    BY DEF KeyOwnerInv
  <2>. QED BY <2>1, Moved
<1>. QED BY <1>2, <1>3

LEMMA KeyStep ==
    ASSUME TypeOK, KeyInv, KeyOwnerInv, [Next]_vars
    PROVE  KeyInv' /\ KeyOwnerInv'
<1>1. ASSUME NEW r \in Requests,
             Lookup(r) \/ CheckQuote(r) \/ ConsumeQuote(r) \/ Refuse(r) \/ Provision(r)
                \/ ReuseAccount(r) \/ Store(r) \/ SettleQuote(r) \/ Throw(r) \/ Lose(r)
      PROVE  KeyInv' /\ KeyOwnerInv'
  BY <1>1, MoveStep, KeysKept
<1>2. ASSUME NEW r \in Requests, Send(r)
      PROVE  KeyInv' /\ KeyOwnerInv'
  <2>1. CASE Key(body[r]) \in keys
    <3>1. /\ keys' = keys /\ body' = body
          /\ stage[r] = "new" /\ stage'[r] = "duplicate"
          /\ \A s \in Requests \ {r} : stage'[s] = stage[s]
      BY <1>2, <2>1, SendMoves, Moved DEF Send, Moves, Goto, TypeOK
    <3>2. KeyInv' BY <3>1 DEF KeyInv, InFlight
    <3>3. KeyOwnerInv' BY <3>1 DEF KeyOwnerInv, InFlight
    <3>. QED BY <3>2, <3>3
  <2>2. CASE Key(body[r]) \notin keys
    <3>1. /\ keys' = keys \union {Key(body[r])} /\ body' = body
          /\ stage[r] = "new" /\ stage'[r] = "lookup"
          /\ \A s \in Requests \ {r} : stage'[s] = stage[s]
      BY <1>2, <2>2, SendMoves, Moved DEF Send, Moves, Goto, TypeOK
    <3>2. \A s \in Requests : stage[s] \in InFlight => Key(body[s]) # Key(body[r])
      BY <2>2 DEF KeyInv
    <3>3. KeyInv' BY <3>1, <3>2 DEF KeyInv, InFlight
    <3>4. KeyOwnerInv' BY <3>1 DEF KeyOwnerInv, InFlight
    <3>. QED BY <3>3, <3>4
  <2>. QED BY <2>1, <2>2
<1>3. ASSUME NEW r \in Requests, Release(r)
      PROVE  KeyInv' /\ KeyOwnerInv'
  <2>1. /\ keys' = keys \ {Key(body[r])} /\ body' = body
        /\ stage[r] = "refused" /\ stage'[r] = "answered"
        /\ \A s \in Requests \ {r} : stage'[s] = stage[s]
    BY <1>3, ReleaseMoves, Moved DEF Release, Moves
  <2>2. KeyInv' BY <2>1 DEF KeyInv, InFlight
  <2>3. KeyOwnerInv' BY <2>1 DEF KeyOwnerInv, InFlight
  <2>. QED BY <2>2, <2>3
<1>4. ASSUME NEW k \in Kinds \X Ids, KeyExpires(k)
      PROVE  KeyInv' /\ KeyOwnerInv'
  BY <1>4 DEF KeyExpires, KeyInv, KeyOwnerInv
<1>5. ASSUME NEW q \in Quotes, QuoteExpires(q)
      PROVE  KeyInv' /\ KeyOwnerInv'
  BY <1>5 DEF QuoteExpires, KeyInv, KeyOwnerInv
<1>6. CASE UNCHANGED vars BY <1>6 DEF KeyInv, KeyOwnerInv, vars
<1>. QED BY <1>1, <1>2, <1>3, <1>4, <1>5, <1>6 DEF Next, Handle
-----------------------------------------------------------------------------
(* Ways and rows. *)

LEMMA WayStep ==
    ASSUME TypeOK, WayInv, [Next]_vars
    PROVE  WayInv'
<1>1. ASSUME NEW r \in Requests, Lookup(r)
      PROVE  WayInv'
  <2>1. stage'[r] \in {"check", "consume", "provision", "refused"}
        /\ (stage'[r] = "check"
              => body[r].kind = "onramp" /\ body[r].quote # NoQuote)
        /\ (stage'[r] = "consume" => body[r].kind = "offramp")
    BY <1>1, BodyTyped DEF TypeOK, Lookup, Goto, AfterLookup, Kinds
  <2>. QED BY <1>1, <2>1, MoveStep, Moved DEF WayInv, Moves
<1>2. ASSUME NEW r \in Requests, Store(r)
      PROVE  WayInv'
  <2>1. stage'[r] \in {"refused", "settle", "created"}
        /\ (stage'[r] = "settle"
              => body[r].kind = "onramp" /\ body[r].quote # NoQuote)
    BY <1>2 DEF TypeOK, Store, Goto
  <2>. QED BY <1>2, <2>1, MoveStep, Moved DEF WayInv, Moves
<1>3. ASSUME NEW r \in Requests, Moves(r),
             stage'[r] \notin {"check", "consume", "settle"}
      PROVE  WayInv'
  BY <1>3, Moved DEF WayInv, Moves
<1>4. ASSUME NEW r \in Requests,
             CheckQuote(r) \/ ConsumeQuote(r) \/ Refuse(r) \/ Provision(r)
                \/ ReuseAccount(r) \/ SettleQuote(r) \/ Throw(r) \/ Lose(r)
      PROVE  WayInv'
  <2>1. stage'[r] \in {"provision", "refused", "store", "created", "lost"}
    BY <1>4 DEF TypeOK, CheckQuote, ConsumeQuote, Refuse,
                RefuseOnramp, RefuseOfframp, TurnAway,
                Provision, ProvisionWallet,
                ProvisionBankAccount, OpenAccount, ReuseAccount,
                SettleQuote, Throw, Lose, Goto
  <2>. QED BY <1>3, <1>4, <2>1, MoveStep
<1>5. ASSUME NEW r \in Requests, Send(r) \/ Release(r)
      PROVE  WayInv'
  BY <1>3, <1>5, SendMoves, ReleaseMoves
<1>6. CASE (\E k \in Kinds \X Ids : KeyExpires(k)) \/ (\E q \in Quotes : QuoteExpires(q))
  BY <1>6 DEF KeyExpires, QuoteExpires, WayInv
<1>7. CASE UNCHANGED vars BY <1>7 DEF WayInv, vars
<1>. QED BY <1>1, <1>2, <1>4, <1>5, <1>6, <1>7 DEF Next, Handle

\* The requests between the lookup and the insert.
Looked == {"check", "consume", "provision", "store"}

\* A step that stores no row keeps RowInv if only a request that is already
\* past its lookup goes on to the insert.
LEMMA RowKept ==
    ASSUME TypeOK, RowInv, NEW r \in Requests, Moves(r), stored' = stored,
           stage'[r] \in Looked => stage[r] \in Looked \/ ~Exists(body[r]),
           stage'[r] \notin {"new", "settle"}
    PROVE  RowInv'
BY Moved DEF RowInv, Moves, Exists, Looked

LEMMA RowStep ==
    ASSUME TypeOK, KeyInv, RowInv, [Next]_vars
    PROVE  RowInv'
<1>1. ASSUME NEW r \in Requests, Lookup(r)
      PROVE  RowInv'
  <2>1. /\ stage'[r] \notin {"new", "settle"}
        /\ stage'[r] \in Looked => ~Exists(body[r])
    BY <1>1 DEF TypeOK, Lookup, Goto, AfterLookup, Looked
  <2>2. stored' = stored BY <1>1 DEF Lookup
  <2>. QED BY <1>1, <2>1, <2>2, MoveStep, RowKept
<1>2. ASSUME NEW r \in Requests, Store(r)
      PROVE  RowInv'
  <2>1. /\ Moves(r) /\ stage[r] = "store" /\ stored' = stored \union {r}
        /\ stage'[r] \in {"settle", "created"}
    BY <1>2, MoveStep DEF TypeOK, Store, Goto, RowInv
  <2>2. ASSUME NEW s \in Requests, stage'[s] \in Looked
        PROVE  ~Exists(body[s])'
    <3>1. s # r /\ stage[s] \in Looked BY <2>1, <2>2, Moved DEF Looked
    <3>2. Key(body[s]) # Key(body[r])
      BY <2>1, <3>1 DEF KeyInv, InFlight, Looked
    <3>3. ~Exists(body[s]) BY <3>1 DEF RowInv, Looked
    <3>. QED BY <2>1, <3>2, <3>3 DEF Exists, Moves
  <2>3. ASSUME NEW s \in Requests, stage'[s] = "new"
        PROVE  s \notin stored'
    BY <2>1, <2>3, Moved DEF RowInv
  <2>4. ASSUME NEW s \in Requests, stage'[s] = "settle"
        PROVE  s \in stored'
    BY <2>1, <2>4, Moved DEF RowInv
  <2>. QED BY <2>2, <2>3, <2>4 DEF RowInv, Looked
<1>3. ASSUME NEW r \in Requests,
             CheckQuote(r) \/ ConsumeQuote(r) \/ Refuse(r) \/ Provision(r)
                \/ ReuseAccount(r) \/ SettleQuote(r) \/ Throw(r) \/ Lose(r)
      PROVE  RowInv'
  <2>1. /\ stage'[r] \notin {"new", "settle"} /\ stored' = stored
        /\ stage'[r] \in Looked => stage[r] \in Looked
    BY <1>3 DEF TypeOK, CheckQuote, ConsumeQuote, Refuse,
                RefuseOnramp, RefuseOfframp, TurnAway,
                Provision, ProvisionWallet,
                ProvisionBankAccount, OpenAccount, ReuseAccount,
                SettleQuote, Throw, Lose, Goto, Looked
  <2>. QED BY <1>3, <2>1, MoveStep, RowKept
<1>4. ASSUME NEW r \in Requests, Send(r)
      PROVE  RowInv'
  BY <1>4, SendMoves, RowKept DEF Send, Looked
<1>5. ASSUME NEW r \in Requests, Release(r)
      PROVE  RowInv'
  BY <1>5, ReleaseMoves, RowKept DEF Release, Looked
<1>6. CASE (\E k \in Kinds \X Ids : KeyExpires(k)) \/ (\E q \in Quotes : QuoteExpires(q))
  BY <1>6 DEF KeyExpires, QuoteExpires, RowInv, Exists
<1>7. CASE UNCHANGED vars BY <1>7 DEF RowInv, Exists, vars
<1>. QED BY <1>1, <1>2, <1>3, <1>4, <1>5, <1>6, <1>7 DEF Next, Handle
-----------------------------------------------------------------------------
(* Quotes. *)

\* A step after which no request holds a quote that did not hold it before.
LEMMA QuotesKept ==
    ASSUME QuoteInv, body' = body, consumed \subseteq consumed',
           \A s \in Requests : Holds(s)' => Holds(s)
    PROVE  QuoteInv'
BY DEF QuoteInv

LEMMA QuoteStep ==
    ASSUME TypeOK, WayInv, QuoteInv, [Next]_vars
    PROVE  QuoteInv'
<1>1. ASSUME NEW r \in Requests, ConsumeQuote(r)
      PROVE  QuoteInv'
  <2>1. CASE Usable(body[r].quote, body[r].kind)
    <3>1. /\ body' = body /\ stored' = stored
          /\ consumed' = consumed \union {body[r].quote}
          /\ \A s \in Requests \ {r} : stage'[s] = stage[s]
      BY <1>1, <2>1, MoveStep, Moved DEF ConsumeQuote
    <3>2. body[r].quote \notin consumed BY <2>1 DEF Usable
    <3>3. \A s \in Requests \ {r} : Holds(s)' => Holds(s) BY <3>1 DEF Holds
    <3>4. \A s \in Requests \ {r} : Holds(s)' => body[s].quote # body[r].quote
      BY <3>2, <3>3 DEF QuoteInv
    <3>. QED BY <3>1, <3>3, <3>4 DEF QuoteInv
  <2>2. CASE ~Usable(body[r].quote, body[r].kind)
    <3>1. /\ body' = body /\ stored' = stored /\ consumed' = consumed
          /\ stage'[r] = "refused"
          /\ \A s \in Requests \ {r} : stage'[s] = stage[s]
      BY <1>1, <2>2, MoveStep, Moved DEF ConsumeQuote, Goto, TypeOK
    <3>. QED BY <3>1, QuotesKept DEF Holds
  <2>. QED BY <2>1, <2>2
<1>2. ASSUME NEW r \in Requests, Store(r)
      PROVE  QuoteInv'
  <2>1. /\ body' = body /\ stored' \subseteq stored \union {r} /\ consumed' = consumed
        /\ stage[r] = "store" /\ stage'[r] \in {"refused", "settle", "created"}
        /\ \A s \in Requests \ {r} : stage'[s] = stage[s]
    BY <1>2, MoveStep, Moved DEF Store, Goto, TypeOK, Moves
  <2>. QED BY <2>1, QuotesKept DEF Holds
<1>3. ASSUME NEW r \in Requests, Lookup(r)
      PROVE  QuoteInv'
  <2>1. body' = body /\ stored' = stored /\ consumed' = consumed
    BY <1>3 DEF Lookup
  <2>2. \A s \in Requests \ {r} : stage'[s] = stage[s] BY <1>3, MoveStep, Moved
  <2>3. body[r].kind = "offramp" => stage'[r] \in {"refused", "consume"}
    <3>. SUFFICES ASSUME body[r].kind = "offramp"
                  PROVE  stage'[r] \in {"refused", "consume"}
      OBVIOUS
    <3>1. AfterLookup(body[r]) = "consume" BY BodyTyped, QuoteKindAssumption DEF AfterLookup
    <3>2. stage'[r] = IF Exists(body[r]) THEN "refused" ELSE AfterLookup(body[r])
      BY <1>3 DEF TypeOK, Lookup, Goto
    <3>. QED BY <3>1, <3>2
  <2>. QED BY <2>1, <2>2, <2>3, QuotesKept DEF Holds
<1>4. ASSUME NEW r \in Requests, CheckQuote(r)
      PROVE  QuoteInv'
  <2>1. /\ body' = body /\ stored' = stored /\ consumed' = consumed
        /\ \A s \in Requests \ {r} : stage'[s] = stage[s]
        /\ body[r].kind = "onramp"
    BY <1>4, MoveStep, Moved DEF CheckQuote, WayInv, Moves
  <2>. QED BY <2>1, QuotesKept DEF Holds
<1>5. ASSUME NEW r \in Requests,
             Refuse(r) \/ Provision(r) \/ ReuseAccount(r) \/ SettleQuote(r) \/ Throw(r)
                \/ Lose(r)
      PROVE  QuoteInv'
  <2>1. /\ body' = body /\ stored' = stored /\ consumed \subseteq consumed'
        /\ stage'[r] \in {"provision", "store"} => stage[r] \in {"provision", "store"}
    BY <1>5 DEF Refuse,
                RefuseOnramp, RefuseOfframp, TurnAway,
                Provision, ProvisionWallet,
                ProvisionBankAccount, OpenAccount, ReuseAccount, SettleQuote, Throw, Lose, Goto, TypeOK
  <2>2. \A s \in Requests \ {r} : stage'[s] = stage[s] BY <1>5, MoveStep, Moved
  <2>. QED BY <2>1, <2>2, QuotesKept DEF Holds
<1>6. ASSUME NEW r \in Requests, Send(r) \/ Release(r)
      PROVE  QuoteInv'
  <2>1. /\ body' = body /\ stored' = stored /\ consumed' = consumed
        /\ stage'[r] \in {"lookup", "duplicate", "answered"}
        /\ \A s \in Requests \ {r} : stage'[s] = stage[s]
    BY <1>6, SendMoves, ReleaseMoves, Moved DEF Send, Release, Moves
  <2>. QED BY <2>1, QuotesKept DEF Holds
<1>7. CASE (\E k \in Kinds \X Ids : KeyExpires(k)) \/ (\E q \in Quotes : QuoteExpires(q))
  BY <1>7, QuotesKept DEF KeyExpires, QuoteExpires, Holds
<1>8. CASE UNCHANGED vars BY <1>8, QuotesKept DEF vars, Holds
<1>. QED BY <1>1, <1>2, <1>3, <1>4, <1>5, <1>6, <1>7, <1>8 DEF Next, Handle
-----------------------------------------------------------------------------
(* What the partner relies on. *)

\* Only a lost or failed request leaves an account without a ramp.
LEMMA AccountStep ==
    ASSUME TypeOK, RowInv, AccountsHaveRamps, [Next]_vars
    PROVE  AccountsHaveRamps'
<1>1. ASSUME NEW r \in Requests, Store(r)
      PROVE  AccountsHaveRamps'
  <2>1. /\ stored' = stored \union {r} /\ accounts' = accounts /\ faults' = faults
        /\ \A s \in Requests \ {r} : stage'[s] = stage[s]
    BY <1>1, MoveStep, Moved DEF Store, RowInv
  <2>. QED BY <2>1 DEF AccountsHaveRamps, TypeOK
<1>2. ASSUME NEW r \in Requests, Provision(r)
      PROVE  AccountsHaveRamps'
  <2>1. /\ stored' = stored /\ accounts' = accounts \union {r} /\ faults' = faults
        /\ stage'[r] = "store"
        /\ \A s \in Requests \ {r} : stage'[s] = stage[s]
    BY <1>2, MoveStep, Moved DEF Provision, ProvisionWallet,
                ProvisionBankAccount, OpenAccount, Goto, TypeOK
  <2>. QED BY <2>1 DEF AccountsHaveRamps, TypeOK
<1>3. ASSUME NEW r \in Requests,
             Lookup(r) \/ CheckQuote(r) \/ ConsumeQuote(r) \/ Refuse(r)
                \/ ReuseAccount(r) \/ SettleQuote(r)
      PROVE  AccountsHaveRamps'
  <2>1. stored' = stored /\ accounts' = accounts /\ faults' = faults /\ stage[r] # "store"
    BY <1>3 DEF Lookup, CheckQuote, ConsumeQuote, Refuse,
                RefuseOnramp, RefuseOfframp, TurnAway,
                ReuseAccount, SettleQuote
  <2>2. \A s \in Requests \ {r} : stage'[s] = stage[s] BY <1>3, MoveStep, Moved
  <2>. QED BY <2>1, <2>2 DEF AccountsHaveRamps, TypeOK
<1>4. ASSUME NEW r \in Requests, Throw(r) \/ Lose(r)
      PROVE  AccountsHaveRamps'
  BY <1>4, FaultsAssumption DEF Throw, Lose, AccountsHaveRamps, TypeOK
<1>5. ASSUME NEW r \in Requests, Send(r) \/ Release(r)
      PROVE  AccountsHaveRamps'
  <2>1. /\ stored' = stored /\ accounts' = accounts /\ faults' = faults
        /\ stage[r] # "store"
        /\ \A s \in Requests \ {r} : stage'[s] = stage[s]
    BY <1>5, SendMoves, ReleaseMoves, Moved DEF Send, Release
  <2>. QED BY <2>1 DEF AccountsHaveRamps, TypeOK
<1>6. CASE (\E k \in Kinds \X Ids : KeyExpires(k)) \/ (\E q \in Quotes : QuoteExpires(q))
  BY <1>6 DEF KeyExpires, QuoteExpires, AccountsHaveRamps
<1>7. CASE UNCHANGED vars BY <1>7 DEF AccountsHaveRamps, vars
<1>. QED BY <1>1, <1>2, <1>3, <1>4, <1>5, <1>6, <1>7 DEF Next, Handle

\* Only a stored onramp takes an onramp's quote away.
LEMMA KeptStep ==
    ASSUME TypeOK, WayInv, RowInv, OnrampQuoteIsKept, [Next]_vars
    PROVE  OnrampQuoteIsKept'
<1>1. ASSUME NEW r \in Requests, ConsumeQuote(r)
      PROVE  OnrampQuoteIsKept'
  <2>1. \A q \in consumed' \ consumed : QuoteKind[q] # "onramp"
    BY <1>1 DEF ConsumeQuote, Usable, WayInv
  <2>. QED BY <1>1, <2>1 DEF ConsumeQuote, OnrampQuoteIsKept
<1>2. ASSUME NEW r \in Requests, SettleQuote(r)
      PROVE  OnrampQuoteIsKept'
  <2>1. r \in stored /\ body[r].kind = "onramp"
    BY <1>2 DEF SettleQuote, RowInv, WayInv
  <2>. QED BY <1>2, <2>1 DEF SettleQuote, OnrampQuoteIsKept
<1>3. ASSUME NEW r \in Requests,
             Send(r) \/ Lookup(r) \/ CheckQuote(r) \/ Refuse(r) \/ Provision(r)
                \/ ReuseAccount(r) \/ Store(r) \/ Release(r) \/ Throw(r) \/ Lose(r)
      PROVE  OnrampQuoteIsKept'
  <2>1. consumed' = consumed /\ body' = body /\ stored \subseteq stored'
    BY <1>3 DEF Send, Lookup, CheckQuote, Refuse,
                RefuseOnramp, RefuseOfframp, TurnAway,
                Provision, ProvisionWallet,
                ProvisionBankAccount, OpenAccount, ReuseAccount, Store,
                Release, Throw, Lose
  <2>. QED BY <2>1 DEF OnrampQuoteIsKept
<1>4. CASE (\E k \in Kinds \X Ids : KeyExpires(k)) \/ (\E q \in Quotes : QuoteExpires(q))
  BY <1>4 DEF KeyExpires, QuoteExpires, OnrampQuoteIsKept
<1>5. CASE UNCHANGED vars BY <1>5 DEF OnrampQuoteIsKept, vars
<1>. QED BY <1>1, <1>2, <1>3, <1>4, <1>5 DEF Next, Handle

\* A duplicate is refused for a key some other request has left in Redis.
LEMMA DuplicateStep ==
    ASSUME TypeOK, KeyOwnerInv, [Next]_vars, NEW r \in Requests,
           stage[r] = "new", stage'[r] = "duplicate"
    PROVE  \E s \in Requests \ {r} :
              /\ Key(body[s]) = Key(body[r])
              /\ stage[s] \in InFlight \union {"created", "lost"}
<1>1. Send(r)
  <2>1. ASSUME NEW s \in Requests,
               Lookup(s) \/ CheckQuote(s) \/ ConsumeQuote(s) \/ Refuse(s) \/ Provision(s)
                  \/ ReuseAccount(s) \/ Store(s) \/ SettleQuote(s) \/ Throw(s) \/ Lose(s)
        PROVE  FALSE
    BY <2>1, MoveStep, Moved DEF InFlight
  <2>2. ASSUME NEW s \in Requests, Release(s)
        PROVE  FALSE
    BY <2>2, ReleaseMoves, Moved
  <2>3. ASSUME NEW s \in Requests, Send(s)
        PROVE  Send(r)
    BY <2>3, SendMoves, Moved
  <2>4. CASE (\E k \in Kinds \X Ids : KeyExpires(k)) \/ (\E q \in Quotes : QuoteExpires(q))
    BY <2>4 DEF KeyExpires, QuoteExpires
  <2>. QED BY <2>1, <2>2, <2>3, <2>4 DEF Next, Handle, vars
<1>2. Key(body[r]) \in keys BY <1>1 DEF Send, Goto, TypeOK
<1>. QED BY <1>2 DEF KeyOwnerInv, InFlight
-----------------------------------------------------------------------------
(* The theorems. *)

LEMMA InitSound == Init => IInv
<1>. SUFFICES ASSUME Init PROVE IInv
  OBVIOUS
<1>1. TypeOK BY FaultsAssumption DEF Init, TypeOK, Stages
<1>2. QuoteInv BY DEF Init, QuoteInv, Holds
<1>3. KeyInv /\ KeyOwnerInv BY DEF Init, KeyInv, KeyOwnerInv, InFlight
<1>4. WayInv /\ RowInv BY DEF Init, WayInv, RowInv
<1>5. AccountsHaveRamps /\ OnrampQuoteIsKept
  BY DEF Init, AccountsHaveRamps, OnrampQuoteIsKept
<1>. QED BY <1>1, <1>2, <1>3, <1>4, <1>5 DEF IInv

LEMMA Inductive == IInv /\ [Next]_vars => IInv'
BY TypeStep, QuoteStep, KeyStep, WayStep, RowStep, AccountStep, KeptStep DEF IInv

LEMMA Invariance == Spec => []IInv
BY InitSound, Inductive, PTL DEF Spec

\* The type invariant (RampCreation's TypeOK).
THEOREM TypeCorrect == Spec => []TypeOK
BY Invariance, PTL DEF IInv

\* One locked rate is given to one offramp, for any number of requests that
\* overlap, are lost or fail: consumeRampQuote is conditional.
THEOREM OneOfframpPerQuote == Spec => []OfframpQuoteOnce
<1>1. IInv => OfframpQuoteOnce
  BY DEF IInv, TypeOK, QuoteInv, Holds, OfframpQuoteOnce, QuoteOnce
<1>. QED BY <1>1, Invariance, PTL

\* If nothing is lost, an account at the provider belongs to a ramp: the Redis
\* key excludes the equal requests that the lookup could miss.
THEOREM NoStrayAccount == Spec => []AccountsHaveRamps
BY Invariance, PTL DEF IInv

\* An onramp that could not be created has not used up its quote.
THEOREM QuoteSurvivesFailure == Spec => []OnrampQuoteIsKept
BY Invariance, PTL DEF IInv

\* A request is turned away only for an equal one that is being served, was
\* served or was lost: failures release the key.
THEOREM OnlyDuplicatesRefused == Spec => DuplicateIsJustified
<1>1. IInv /\ [Next]_vars
        => [ \A r \in Requests :
               stage[r] = "new" /\ stage'[r] = "duplicate"
                 => \E s \in Requests \ {r} :
                       /\ Key(body[s]) = Key(body[r])
                       /\ stage[s] \in InFlight \union {"created", "lost"} ]_vars
  BY DuplicateStep DEF IInv
<1>. QED BY <1>1, Invariance, PTL DEF Spec, DuplicateIsJustified
=============================================================================
