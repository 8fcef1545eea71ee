--------------------------- MODULE PayoutAccounts ---------------------------
(***************************************************************************)
(* Offramp accounts: where a business is paid out.  POST, PUT and DELETE of *)
(* /users/:id/accounts, and the gate on the business's KYB.                 *)
(*                                                                          *)
(* A destination is kept in canonical form: wire keys of other providers    *)
(* (swift_code, iban ...) are promoted and removed (Normalize), a PUT lays  *)
(* a partial destination over the stored one (Merge), and either is checked *)
(* against the fields the LP's corridor requires at that moment, which are  *)
(* stored beside it (requirementsSnapshot).  Accounts opened before the     *)
(* normalisation existed may still hold such keys.                          *)
(***************************************************************************)
EXTENDS PartnerWebhooks, FiniteSets

CONSTANTS
    Handlers,      \* the requests the API processes may be serving at one time
    Ids,           \* account ids, each given out once
    Values,        \* what a field of a destination may hold
    Inputs,        \* the destinations clients send
    OldOnes,       \* the destinations of accounts opened before normalisation
    Requirements,  \* the sets of fields the LP's corridor may require
    MaxUpdates,    \* bound: PUTs begun
    MaxFaults      \* bound: crashes

ASSUME PayoutAssumption == MaxUpdates \in Nat /\ MaxFaults \in Nat

VARIABLES
    rows,      \* the accounts table
    handler,   \* what each request in flight has read and is about to do
    kyb,       \* whether the user, and the rail, is approved
    required,  \* the fields the LP's corridor requires now
    updates,   \* how many PUTs have begun
    faults     \* how many processes have died

vars == <<rows, handler, kyb, required, updates, faults, events, configured>>
-----------------------------------------------------------------------------
None == "none"

\* The wire keys that stand for each canonical field, in the order they are
\* looked at; `extras.swift_code` is looked at before the other aliases.
BankCodeAliases == <<"bank_code", "extras.swift_code", "swift_code", "routing_number">>

AccountNumberAliases == <<"account_number", "iban">>

PhoneAliases == <<"beneficiary.phone_number", "beneficiary.phone">>

Canonical == {"bank_code", "extras.swift_code", "account_number", "beneficiary.phone_number"}

Stripped == {"swift_code", "routing_number", "iban", "beneficiary.phone", "country"}

Keys == Canonical \cup Stripped

\* A key a destination has may be null or an empty string, which is not the
\* same as not having it.
Null == "null"

\* A destination gives each key it has a value.
Destinations == [Keys -> Values \cup {None, Null}]

\* Clients send destinations; the LP's corridors name canonical fields.
ASSUME InputsAssumption ==
    /\ Values \cap {None, Null} = {}
    /\ Inputs \subseteq Destinations
    /\ OldOnes \subseteq Destinations
    /\ Requirements \subseteq SUBSET Canonical

\* str
Given(value) == value \notin {None, Null}

\* firstAliasValue
FirstOf(d, aliases) ==
    LET given == {i \in DOMAIN aliases : Given(d[aliases[i]])}
    IN  IF given = {} THEN None
        ELSE d[aliases[CHOOSE i \in given : \A j \in given : i <= j]]

\* The canonical key takes the first value given; if none is, it stays as it is.
Promoted(d, key, aliases) ==
    IF FirstOf(d, aliases) # None THEN FirstOf(d, aliases) ELSE d[key]

\* (Mutant of Normalize: promotes the aliases but keeps them.)
NormalizeKeeping(d) ==
    [d EXCEPT !["bank_code"] = Promoted(d, "bank_code", BankCodeAliases),
              !["account_number"] = Promoted(d, "account_number", AccountNumberAliases),
              !["beneficiary.phone_number"] =
                  Promoted(d, "beneficiary.phone_number", PhoneAliases)]

\* normalizePalremitDestination
Normalize(d) ==
    [k \in Keys |->
        CASE k = "bank_code" -> Promoted(d, k, BankCodeAliases)
          [] k = "account_number" -> Promoted(d, k, AccountNumberAliases)
          [] k = "beneficiary.phone_number" -> Promoted(d, k, PhoneAliases)
          [] k \in Stripped -> None
          [] OTHER -> d[k]]

\* mergePalremitDestination: what the patch has replaces what was there, a null
\* included.
Merge(base, patch) == [k \in Keys |-> IF patch[k] # None THEN patch[k] ELSE base[k]]

\* validateDestinationAgainstCorridorFields
Meets(d, fields) == \A k \in fields : Given(d[k])

Nowhere == [k \in Keys |-> None]

\* An account and the requirements its destination was checked against; `old`
\* until a request of today's code has stored it.  `vetted` is history: whether
\* the business or its rail was approved at some time during the request that
\* opened it.
Row ==
    [state : {"unborn", "live", "deleted"}, dest : Destinations,
     snapshot : SUBSET Canonical, old : BOOLEAN, vetted : BOOLEAN]

Unborn ==
    [state |-> "unborn", dest |-> Nowhere, snapshot |-> {}, old |-> FALSE,
     vetted |-> FALSE]

OldRow(d) ==
    [state |-> "live", dest |-> d, snapshot |-> {}, old |-> TRUE, vetted |-> TRUE]

\* A request in flight: the account it is about, the destination it is to
\* store, the corridor's fields it fetched, whether the user it read was
\* approved, and (history) whether anything was while it ran.
Handler ==
    [pc : {"idle", "corridor", "rails", "insert", "fetch", "write"},
     id : Ids \cup {None}, dest : Destinations, fields : SUBSET Canonical,
     approved : BOOLEAN, vetted : BOOLEAN]

Idle ==
    [pc |-> "idle", id |-> None, dest |-> Nowhere, fields |-> {},
     approved |-> FALSE, vetted |-> FALSE]

Init ==
    /\ rows \in [Ids -> {Unborn} \cup {OldRow(d) : d \in OldOnes}]
    /\ handler = [h \in Handlers |-> Idle]
    /\ kyb = [user |-> FALSE, rail |-> FALSE]
    /\ required \in Requirements
    /\ updates = 0
    /\ faults = 0
    /\ OutboxInit

Live(a) == rows[a].state = "live"

At(h, pc) == handler[h].pc = pc

Run(h, r) == At(h, "idle") /\ handler' = [handler EXCEPT ![h] = r]

Finish(h) == handler' = [handler EXCEPT ![h] = Idle]
-----------------------------------------------------------------------------
(* POST: createAccount, rail offramp. *)

\* The user is read, the destination of the request is normalised.  (Bound:
\* while there are ids to give out.)
Create(h, d) ==
    /\ \E a \in Ids : rows[a].state = "unborn"
    /\ Run(h, [Idle EXCEPT !.pc = "corridor", !.dest = Normalize(d), !.approved = kyb.user,
                           !.vetted = kyb.user \/ kyb.rail])
    /\ UNCHANGED <<rows, kyb, required, updates, faults, events, configured>>

\* The LP's corridor is fetched: it is unknown or unavailable, or the
\* destination does not meet it, or it does.
Fetch(h, pc, next) ==
    /\ At(h, pc)
    /\ \/ Finish(h)
       \/ /\ Meets(handler[h].dest, required)
          /\ handler' = [handler EXCEPT ![h].pc = next, ![h].fields = required]

CheckCorridor(h) ==
    /\ Fetch(h, "corridor", "rails")
    /\ UNCHANGED <<rows, kyb, required, updates, faults, events, configured>>

\* (Mutant of Allowed: the gate of the onramp, which asks nothing.)
AllowedAlways(approved, rail) == TRUE

\* The user as it was at the start, or the rail as it is now.
Allowed(approved, rail) == approved \/ rail

CheckKyb(h) ==
    /\ At(h, "rails")
    /\ IF Allowed(handler[h].approved, kyb.rail)
       THEN handler' = [handler EXCEPT ![h].pc = "insert"] ELSE Finish(h)
    /\ UNCHANGED <<rows, kyb, required, updates, faults, events, configured>>

Insert(h) ==
    LET c == handler[h] IN
    /\ At(h, "insert")
    /\ \E a \in Ids :
         /\ rows[a].state = "unborn"
         /\ rows' = [rows EXCEPT ![a] = [state |-> "live", dest |-> c.dest,
                                         snapshot |-> c.fields, old |-> FALSE,
                                         vetted |-> c.vetted]]
         /\ Schedule("account.created", a, None)
    /\ Finish(h)
    /\ UNCHANGED <<kyb, required, updates, faults, configured>>
-----------------------------------------------------------------------------
(* PUT and DELETE. *)

\* updateAccount reads the row, merges and normalises ...
Update(h, a, patch) ==
    /\ Live(a)
    /\ updates < MaxUpdates
    /\ updates' = updates + 1
    /\ Run(h, [Idle EXCEPT !.pc = "fetch", !.id = a,
                           !.dest = Normalize(Merge(rows[a].dest, patch))])
    /\ UNCHANGED <<rows, kyb, required, faults, events, configured>>

\* ... checks the result against the corridor ...
Recheck(h) ==
    /\ Fetch(h, "fetch", "write")
    /\ UNCHANGED <<rows, kyb, required, updates, faults, events, configured>>

Rewritten(r, c) == [r EXCEPT !.dest = c.dest, !.snapshot = c.fields, !.old = FALSE]

\* ... and replaces the whole of providerPayout, if the account is still there.
Write(h) ==
    LET c == handler[h] IN
    /\ At(h, "write")
    /\ Finish(h)
    /\ IF Live(c.id)
       THEN /\ rows' = [rows EXCEPT ![c.id] = Rewritten(@, c)]
            /\ Schedule("account.updated", c.id, None)
       ELSE UNCHANGED <<rows, events>>
    /\ UNCHANGED <<kyb, required, updates, faults, configured>>

\* hasPendingTransactions answers false, whatever offramps wait for the account.
HasPendingTransactions(a) == FALSE

Delete(a) ==
    /\ Live(a)
    /\ ~HasPendingTransactions(a)
    /\ rows' = [rows EXCEPT ![a].state = "deleted"]
    /\ Schedule("account.deleted", a, None)
    /\ UNCHANGED <<handler, kyb, required, updates, faults, configured>>
-----------------------------------------------------------------------------
(* What goes on around the accounts. *)

\* The provider decides, or a submission puts back under review: see Kyb.
KybChanges(who) ==
    /\ kyb' = [kyb EXCEPT ![who] = ~@]
    /\ handler' = [h \in Handlers |->
         [handler[h] EXCEPT !.vetted = @ \/ (handler[h].pc # "idle" /\ kyb'[who])]]
    /\ UNCHANGED <<rows, required, updates, faults, events, configured>>

\* The LP changes what its corridor requires (external).
CorridorChanges ==
    /\ required' \in Requirements \ {required}
    /\ UNCHANGED <<rows, handler, kyb, updates, faults, events, configured>>

Crash ==
    /\ faults < MaxFaults
    /\ faults' = faults + 1
    /\ handler' = [h \in Handlers |-> Idle]
    /\ events' = Abandoned
    /\ UNCHANGED <<rows, kyb, required, updates, configured>>

Outbox(i) ==
    /\ Deliver(i)
    /\ UNCHANGED <<rows, handler, kyb, required, updates, faults>>

Serve(h) == CheckCorridor(h) \/ CheckKyb(h) \/ Insert(h) \/ Recheck(h) \/ Write(h)

Next ==
    \/ \E h \in Handlers :
         \/ Serve(h)
         \/ \E d \in Inputs : Create(h, d) \/ \E a \in Ids : Update(h, a, d)
    \/ \E a \in Ids : Delete(a)
    \/ \E who \in {"user", "rail"} : KybChanges(who)
    \/ \E i \in DOMAIN events : Outbox(i)
    \/ CorridorChanges \/ Crash

\* An event that is being sent is not left standing.
Spec == Init /\ [][Next]_vars /\ \A i \in Followed : WF_vars(Outbox(i))
-----------------------------------------------------------------------------
(* Properties. *)

TypeOK ==
    /\ rows \in [Ids -> Row]
    /\ handler \in [Handlers -> Handler]
    /\ kyb \in [user : BOOLEAN, rail : BOOLEAN]
    /\ required \in SUBSET Canonical
    /\ updates \in 0 .. MaxUpdates
    /\ faults \in 0 .. MaxFaults
    /\ OutboxTypeOK

\* "Stored accounts may still carry those keys" (normalizePalremitDestination.ts),
\* but not once a POST or a PUT has stored the account: whatever a patch is laid
\* over, whatever it sets to null, whichever of two racing PUTs was the last to
\* write and however the corridor changed meanwhile, the destination is in
\* canonical form and meets the requirements stored with it.
DestinationIsCanonical ==
    \A a \in Ids : rows[a].state # "unborn" /\ ~rows[a].old =>
        /\ Normalize(rows[a].dest) = rows[a].dest
        /\ \A k \in Stripped : rows[a].dest[k] = None
        /\ Meets(rows[a].dest, rows[a].snapshot)

\* A payout account is opened only for a business that was approved, itself or
\* for the rail, at some time while the request ran, though the two approvals
\* are read at different times and may be revoked in between.
PayoutAccountIsVetted == \A a \in Ids : rows[a].state # "unborn" => rows[a].vetted
=============================================================================
