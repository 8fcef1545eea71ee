------------------------ MODULE PayoutAccountsProofs ------------------------
(***************************************************************************)
(* What PayoutAccounts promises about the destinations a business is paid  *)
(* out to, proved for any handlers and ids, any accounts stored before, any *)
(* inputs of clients, any required fields, any number of updates and faults. *)
(*                                                                         *)
(* Two facts carry it.  Normalize is idempotent, so what is stored need not *)
(* be normalised again when it is read.  And a request carries, from its    *)
(* check to its write, both the destination that was checked and the fields *)
(* it was checked against, so that the row says the truth of itself however *)
(* the corridor changes and whoever wrote in between.                       *)
(***************************************************************************)
EXTENDS PayoutAccounts, TLAPS

USE DEF None
-----------------------------------------------------------------------------
(* Normalisation. *)

\* The value looked at first.
LEMMA FirstAlias ==
    ASSUME NEW d, NEW aliases, DOMAIN aliases \subseteq Nat,
           NEW i \in DOMAIN aliases, Given(d[aliases[i]]),
           \A j \in DOMAIN aliases : j < i => ~Given(d[aliases[j]])
    PROVE FirstOf(d, aliases) = d[aliases[i]]
  <1> DEFINE given == {j \in DOMAIN aliases : Given(d[aliases[j]])}
             Least(j) == j \in given /\ \A k \in given : j <= k
  <1>1. Least(i)
    OBVIOUS
  <1>2. Least(CHOOSE j \in given : \A k \in given : j <= k)
    BY <1>1
  <1>3. (CHOOSE j \in given : \A k \in given : j <= k) = i
    BY <1>1, <1>2
  <1> QED
    BY <1>1, <1>3 DEF FirstOf

LEMMA NoAlias ==
    ASSUME NEW d, NEW aliases, \A j \in DOMAIN aliases : ~Given(d[aliases[j]])
    PROVE FirstOf(d, aliases) = None
  BY DEF FirstOf

\* Which of its wire keys a canonical field is read from.
LEMMA BankCodeOf ==
    ASSUME NEW d
    PROVE FirstOf(d, BankCodeAliases) =
            IF Given(d["bank_code"]) THEN d["bank_code"]
            ELSE IF Given(d["extras.swift_code"]) THEN d["extras.swift_code"]
            ELSE IF Given(d["swift_code"]) THEN d["swift_code"]
            ELSE IF Given(d["routing_number"]) THEN d["routing_number"]
            ELSE None
  <1>1. /\ DOMAIN BankCodeAliases = 1 .. 4
        /\ BankCodeAliases[1] = "bank_code"
        /\ BankCodeAliases[2] = "extras.swift_code"
        /\ BankCodeAliases[3] = "swift_code"
        /\ BankCodeAliases[4] = "routing_number"
    BY DEF BankCodeAliases
  <1>2. CASE Given(d["bank_code"])
    <2>1. /\ 1 \in DOMAIN BankCodeAliases /\ DOMAIN BankCodeAliases \subseteq Nat
          /\ Given(d[BankCodeAliases[1]])
          /\ \A j \in DOMAIN BankCodeAliases : j < 1 => ~Given(d[BankCodeAliases[j]])
      BY <1>1, <1>2
    <2>2. FirstOf(d, BankCodeAliases) = d[BankCodeAliases[1]]
      BY <2>1, FirstAlias
    <2> QED
      BY <1>1, <1>2, <2>2
  <1>3. CASE /\ ~Given(d["bank_code"])
             /\ Given(d["extras.swift_code"])
    <2>1. /\ 2 \in DOMAIN BankCodeAliases /\ DOMAIN BankCodeAliases \subseteq Nat
          /\ Given(d[BankCodeAliases[2]])
          /\ \A j \in DOMAIN BankCodeAliases : j < 2 => ~Given(d[BankCodeAliases[j]])
      BY <1>1, <1>3
    <2>2. FirstOf(d, BankCodeAliases) = d[BankCodeAliases[2]]
      BY <2>1, FirstAlias
    <2> QED
      BY <1>1, <1>3, <2>2
  <1>4. CASE /\ ~Given(d["bank_code"])
             /\ ~Given(d["extras.swift_code"])
             /\ Given(d["swift_code"])
    <2>1. /\ 3 \in DOMAIN BankCodeAliases /\ DOMAIN BankCodeAliases \subseteq Nat
          /\ Given(d[BankCodeAliases[3]])
          /\ \A j \in DOMAIN BankCodeAliases : j < 3 => ~Given(d[BankCodeAliases[j]])
      BY <1>1, <1>4
    <2>2. FirstOf(d, BankCodeAliases) = d[BankCodeAliases[3]]
      BY <2>1, FirstAlias
    <2> QED
      BY <1>1, <1>4, <2>2
  <1>5. CASE /\ ~Given(d["bank_code"])
             /\ ~Given(d["extras.swift_code"])
             /\ ~Given(d["swift_code"])
             /\ Given(d["routing_number"])
    <2>1. /\ 4 \in DOMAIN BankCodeAliases /\ DOMAIN BankCodeAliases \subseteq Nat
          /\ Given(d[BankCodeAliases[4]])
          /\ \A j \in DOMAIN BankCodeAliases : j < 4 => ~Given(d[BankCodeAliases[j]])
      BY <1>1, <1>5
    <2>2. FirstOf(d, BankCodeAliases) = d[BankCodeAliases[4]]
      BY <2>1, FirstAlias
    <2> QED
      BY <1>1, <1>5, <2>2
  <1>6. CASE /\ ~Given(d["bank_code"])
             /\ ~Given(d["extras.swift_code"])
             /\ ~Given(d["swift_code"])
             /\ ~Given(d["routing_number"])
    <2>1. \A j \in DOMAIN BankCodeAliases : ~Given(d[BankCodeAliases[j]])
      BY <1>1, <1>6
    <2>2. FirstOf(d, BankCodeAliases) = None
      BY <2>1, NoAlias
    <2> QED
      BY <1>6, <2>2
  <1> QED
    BY <1>2, <1>3, <1>4, <1>5, <1>6

LEMMA AccountNumberOf ==
    ASSUME NEW d
    PROVE FirstOf(d, AccountNumberAliases) =
            IF Given(d["account_number"]) THEN d["account_number"]
            ELSE IF Given(d["iban"]) THEN d["iban"]
            ELSE None
  <1>1. /\ DOMAIN AccountNumberAliases = 1 .. 2
        /\ AccountNumberAliases[1] = "account_number"
        /\ AccountNumberAliases[2] = "iban"
    BY DEF AccountNumberAliases
  <1>2. CASE Given(d["account_number"])
    <2>1. /\ 1 \in DOMAIN AccountNumberAliases /\ DOMAIN AccountNumberAliases \subseteq Nat
          /\ Given(d[AccountNumberAliases[1]])
          /\ \A j \in DOMAIN AccountNumberAliases : j < 1 => ~Given(d[AccountNumberAliases[j]])
      BY <1>1, <1>2
    <2>2. FirstOf(d, AccountNumberAliases) = d[AccountNumberAliases[1]]
      BY <2>1, FirstAlias
    <2> QED
      BY <1>1, <1>2, <2>2
  <1>3. CASE /\ ~Given(d["account_number"])
             /\ Given(d["iban"])
    <2>1. /\ 2 \in DOMAIN AccountNumberAliases /\ DOMAIN AccountNumberAliases \subseteq Nat
          /\ Given(d[AccountNumberAliases[2]])
          /\ \A j \in DOMAIN AccountNumberAliases : j < 2 => ~Given(d[AccountNumberAliases[j]])
      BY <1>1, <1>3
    <2>2. FirstOf(d, AccountNumberAliases) = d[AccountNumberAliases[2]]
      BY <2>1, FirstAlias
    <2> QED
      BY <1>1, <1>3, <2>2
  <1>4. CASE /\ ~Given(d["account_number"])
             /\ ~Given(d["iban"])
    <2>1. \A j \in DOMAIN AccountNumberAliases : ~Given(d[AccountNumberAliases[j]])
      BY <1>1, <1>4
    <2>2. FirstOf(d, AccountNumberAliases) = None
      BY <2>1, NoAlias
    <2> QED
      BY <1>4, <2>2
  <1> QED
    BY <1>2, <1>3, <1>4

LEMMA PhoneOf ==
    ASSUME NEW d
    PROVE FirstOf(d, PhoneAliases) =
            IF Given(d["beneficiary.phone_number"]) THEN d["beneficiary.phone_number"]
            ELSE IF Given(d["beneficiary.phone"]) THEN d["beneficiary.phone"]
            ELSE None
  <1>1. /\ DOMAIN PhoneAliases = 1 .. 2
        /\ PhoneAliases[1] = "beneficiary.phone_number"
        /\ PhoneAliases[2] = "beneficiary.phone"
    BY DEF PhoneAliases
  <1>2. CASE Given(d["beneficiary.phone_number"])
    <2>1. /\ 1 \in DOMAIN PhoneAliases /\ DOMAIN PhoneAliases \subseteq Nat
          /\ Given(d[PhoneAliases[1]])
          /\ \A j \in DOMAIN PhoneAliases : j < 1 => ~Given(d[PhoneAliases[j]])
      BY <1>1, <1>2
    <2>2. FirstOf(d, PhoneAliases) = d[PhoneAliases[1]]
      BY <2>1, FirstAlias
    <2> QED
      BY <1>1, <1>2, <2>2
  <1>3. CASE /\ ~Given(d["beneficiary.phone_number"])
             /\ Given(d["beneficiary.phone"])
    <2>1. /\ 2 \in DOMAIN PhoneAliases /\ DOMAIN PhoneAliases \subseteq Nat
          /\ Given(d[PhoneAliases[2]])
          /\ \A j \in DOMAIN PhoneAliases : j < 2 => ~Given(d[PhoneAliases[j]])
      BY <1>1, <1>3
    <2>2. FirstOf(d, PhoneAliases) = d[PhoneAliases[2]]
      BY <2>1, FirstAlias
    <2> QED
      BY <1>1, <1>3, <2>2
  <1>4. CASE /\ ~Given(d["beneficiary.phone_number"])
             /\ ~Given(d["beneficiary.phone"])
    <2>1. \A j \in DOMAIN PhoneAliases : ~Given(d[PhoneAliases[j]])
      BY <1>1, <1>4
    <2>2. FirstOf(d, PhoneAliases) = None
      BY <2>1, NoAlias
    <2> QED
      BY <1>4, <2>2
  <1> QED
    BY <1>2, <1>3, <1>4

\* What normalisation leaves at each key.
LEMMA NormalizedAt ==
    ASSUME NEW d \in Destinations
    PROVE /\ Normalize(d) \in Destinations
          /\ Normalize(d)["bank_code"] = Promoted(d, "bank_code", BankCodeAliases)
          /\ Normalize(d)["extras.swift_code"] = d["extras.swift_code"]
          /\ Normalize(d)["account_number"] =
                 Promoted(d, "account_number", AccountNumberAliases)
          /\ Normalize(d)["beneficiary.phone_number"] =
                 Promoted(d, "beneficiary.phone_number", PhoneAliases)
          /\ \A k \in Stripped : Normalize(d)[k] = None
  <1>1. /\ FirstOf(d, BankCodeAliases) \in Values \cup {None, Null}
        /\ FirstOf(d, AccountNumberAliases) \in Values \cup {None, Null}
        /\ FirstOf(d, PhoneAliases) \in Values \cup {None, Null}
    BY BankCodeOf, AccountNumberOf, PhoneOf DEF Destinations, Keys, Canonical, Stripped
  <1>2. /\ Promoted(d, "bank_code", BankCodeAliases) \in Values \cup {None, Null}
        /\ Promoted(d, "account_number", AccountNumberAliases) \in Values \cup {None, Null}
        /\ Promoted(d, "beneficiary.phone_number", PhoneAliases)
              \in Values \cup {None, Null}
    BY <1>1 DEF Promoted, Destinations, Keys, Canonical
  <1> QED
    BY <1>2 DEF Normalize, Destinations, Keys, Canonical, Stripped

\* A destination in canonical form.
InForm(d) ==
    /\ d \in Destinations
    /\ Normalize(d) = d
    /\ \A k \in Stripped : d[k] = None

\* Normalising twice is normalising once (normalizePalremitDestination).
THEOREM NormalizeIsIdempotent ==
    ASSUME NEW d \in Destinations
    PROVE InForm(Normalize(d))
  <1> DEFINE n == Normalize(d)
  <1>1. n \in Destinations /\ \A k \in Stripped : n[k] = None
    BY NormalizedAt
  <1>2. ~Given(n["bank_code"]) => ~Given(n["extras.swift_code"])
    BY NormalizedAt, BankCodeOf DEF Promoted, Given
  <1>3. /\ ~Given(n["swift_code"]) /\ ~Given(n["routing_number"]) /\ ~Given(n["iban"])
        /\ ~Given(n["beneficiary.phone"])
    BY <1>1 DEF Stripped, Given
  <1> HIDE DEF n
  <1>4. /\ Promoted(n, "bank_code", BankCodeAliases) = n["bank_code"]
        /\ Promoted(n, "account_number", AccountNumberAliases) = n["account_number"]
        /\ Promoted(n, "beneficiary.phone_number", PhoneAliases)
              = n["beneficiary.phone_number"]
    BY <1>2, <1>3, BankCodeOf, AccountNumberOf, PhoneOf DEF Promoted, Given
  <1>5. \A k \in Keys : Normalize(n)[k] = n[k]
    BY <1>1, <1>4, NormalizedAt DEF Keys, Canonical, Stripped
  <1>6. Normalize(n) = n
    BY <1>1, <1>5, NormalizedAt DEF Destinations
  <1> QED
    BY <1>1, <1>6 DEF InForm, n

LEMMA MergedIsDestination ==
    ASSUME NEW d \in Destinations, NEW e \in Destinations
    PROVE Merge(d, e) \in Destinations
  BY DEF Merge, Destinations
-----------------------------------------------------------------------------
(* The invariant. *)

Types ==
    /\ rows \in [Ids -> Row]
    /\ handler \in [Handlers -> Handler]
    /\ kyb \in [user : BOOLEAN, rail : BOOLEAN]
    /\ required \in SUBSET Canonical

\* A row that a request has stored says the truth of itself.
RowSound(r) ==
    r.state # "unborn" =>
        /\ ~r.old => InForm(r.dest) /\ Meets(r.dest, r.snapshot)
        /\ r.vetted

\* What a request carries: a destination in form, once it is checked the fields
\* it meets, and while an account is being opened whatever approval there was.
Carries(c) ==
    /\ c.pc # "idle" => InForm(c.dest)
    /\ c.pc \in {"rails", "insert", "write"} => Meets(c.dest, c.fields)
    /\ c.pc \in {"corridor", "rails"} /\ (c.approved \/ kyb.user \/ kyb.rail) => c.vetted
    /\ c.pc = "insert" => c.vetted
    /\ c.pc \in {"fetch", "write"} => c.id \in Ids

PInv ==
    /\ Types
    /\ \A a \in Ids : RowSound(rows[a])
    /\ \A h \in Handlers : Carries(handler[h])

LEMMA NowhereInForm == Nowhere \in Destinations
  BY DEF Nowhere, Destinations

LEMMA IdleCarries == Idle \in Handler /\ Idle.pc = "idle" /\ Carries(Idle)
  BY NowhereInForm DEF Idle, Handler, Carries

LEMMA InitInv == Init => PInv
  <1> SUFFICES ASSUME Init PROVE PInv
    OBVIOUS
  <1>1. Unborn \in Row /\ RowSound(Unborn)
    BY NowhereInForm DEF Unborn, Row, RowSound
  <1>2. \A d \in OldOnes : OldRow(d) \in Row /\ RowSound(OldRow(d))
    BY InputsAssumption DEF OldRow, Row, RowSound
  <1>3. Types
    BY <1>1, <1>2, IdleCarries, InputsAssumption DEF Init, Types
  <1> QED
    BY <1>1, <1>2, <1>3, IdleCarries DEF Init, PInv

\* One handler moves to a state that carries what it must.
LEMMA MoveInv ==
    ASSUME PInv, NEW h \in Handlers, NEW c \in Handler, Carries(c),
           handler' = [handler EXCEPT ![h] = c], UNCHANGED <<rows, kyb, required>>
    PROVE PInv'
  <1>1. /\ handler' \in [Handlers -> Handler]
        /\ \A g \in Handlers : handler'[g] = IF g = h THEN c ELSE handler[g]
    BY DEF PInv, Types
  <1>2. \A d : Carries(d) <=> Carries(d)'
    BY DEF Carries
  <1>3. Types'
    BY <1>1 DEF PInv, Types
  <1>4. \A g \in Handlers : Carries(handler[g])'
    BY <1>1, <1>2 DEF PInv, Carries
  <1>5. \A a \in Ids : RowSound(rows[a])'
    BY DEF PInv, RowSound
  <1> QED
    BY <1>3, <1>4, <1>5 DEF PInv

LEMMA FinishInv ==
    ASSUME PInv, NEW h \in Handlers, Finish(h), UNCHANGED <<rows, kyb, required>>
    PROVE PInv'
  BY MoveInv, IdleCarries DEF Finish

\* One row is stored, sound, and the handler that stored it is done.
LEMMA StoreInv ==
    ASSUME PInv, NEW h \in Handlers, Finish(h), NEW a \in Ids, NEW r \in Row, RowSound(r),
           rows' = [rows EXCEPT ![a] = r], UNCHANGED <<kyb, required>>
    PROVE PInv'
  <1>1. /\ handler' \in [Handlers -> Handler]
        /\ \A g \in Handlers : handler'[g] = IF g = h THEN Idle ELSE handler[g]
    BY IdleCarries DEF PInv, Types, Finish
  <1>2. /\ rows' \in [Ids -> Row]
        /\ \A b \in Ids : rows'[b] = IF b = a THEN r ELSE rows[b]
    BY DEF PInv, Types
  <1>3. Types'
    BY <1>1, <1>2 DEF PInv, Types
  <1>4. \A g \in Handlers : Carries(handler[g])'
    BY <1>1, IdleCarries DEF PInv, Carries
  <1>5. \A b \in Ids : RowSound(rows[b])'
    BY <1>2 DEF PInv, RowSound
  <1> QED
    BY <1>3, <1>4, <1>5 DEF PInv

LEMMA CreateInv ==
    ASSUME PInv, NEW h \in Handlers, NEW d \in Inputs, Create(h, d)
    PROVE PInv'
  <1> DEFINE n == Normalize(d)
             c == [Idle EXCEPT !.pc = "corridor", !.dest = n, !.approved = kyb.user,
                               !.vetted = kyb.user \/ kyb.rail]
  <1>1. InForm(n) /\ n \in Destinations
    BY InputsAssumption, NormalizeIsIdempotent DEF InForm
  <1> HIDE DEF n
  <1>2. kyb.user \in BOOLEAN /\ kyb.rail \in BOOLEAN
    BY DEF PInv, Types
  <1>3. /\ c \in Handler /\ c.pc = "corridor" /\ c.dest = n /\ c.approved = kyb.user
        /\ c.vetted = (kyb.user \/ kyb.rail)
    BY <1>1, <1>2, NowhereInForm DEF Idle, Handler
  <1>4. Carries(c)
    BY <1>1, <1>3 DEF Carries
  <1>5. handler' = [handler EXCEPT ![h] = c] /\ UNCHANGED <<rows, kyb, required>>
    BY DEF Create, Run, n
  <1> HIDE DEF c
  <1> QED
    BY <1>3, <1>4, <1>5, MoveInv

\* The corridor is fetched and the destination checked against it.
LEMMA FetchInv ==
    ASSUME PInv, NEW h \in Handlers,
           NEW pc \in {"corridor", "fetch"}, NEW next \in {"rails", "write"},
           pc = "corridor" <=> next = "rails",
           Fetch(h, pc, next), UNCHANGED <<rows, kyb, required>>
    PROVE PInv'
  <1>1. CASE Finish(h)
    BY <1>1, FinishInv
  <1>2. CASE /\ Meets(handler[h].dest, required)
             /\ handler' = [handler EXCEPT ![h].pc = next, ![h].fields = required]
    <2> DEFINE c == [handler[h] EXCEPT !.pc = next, !.fields = required]
    <2>1. /\ handler[h] \in Handler /\ Carries(handler[h]) /\ handler[h].pc = pc
          /\ required \in SUBSET Canonical
      BY DEF PInv, Types, Fetch, At
    <2>2. /\ c \in Handler /\ c.pc = next /\ c.fields = required /\ c.id = handler[h].id
          /\ c.dest = handler[h].dest /\ c.approved = handler[h].approved
          /\ c.vetted = handler[h].vetted
      BY <2>1 DEF Handler
    <2>3. handler' = [handler EXCEPT ![h] = c]
      BY <1>2
    <2> HIDE DEF c
    <2>4. Carries(c)
      BY <1>2, <2>1, <2>2 DEF Carries
    <2> QED
      BY <2>2, <2>3, <2>4, MoveInv
  <1> QED
    BY <1>1, <1>2 DEF Fetch

LEMMA CheckKybInv ==
    ASSUME PInv, NEW h \in Handlers, CheckKyb(h)
    PROVE PInv'
  <1>1. CASE ~Allowed(handler[h].approved, kyb.rail)
    BY <1>1, FinishInv DEF CheckKyb
  <1>2. CASE Allowed(handler[h].approved, kyb.rail)
    <2> DEFINE c == [handler[h] EXCEPT !.pc = "insert"]
    <2>1. handler[h] \in Handler /\ Carries(handler[h]) /\ handler[h].pc = "rails"
      BY DEF PInv, Types, CheckKyb, At
    <2>2. /\ c \in Handler /\ c.pc = "insert" /\ c.dest = handler[h].dest
          /\ c.fields = handler[h].fields /\ c.vetted = handler[h].vetted
      BY <2>1 DEF Handler
    <2>3. handler' = [handler EXCEPT ![h] = c] /\ UNCHANGED <<rows, kyb, required>>
      BY <1>2 DEF CheckKyb
    <2> HIDE DEF c
    <2>4. Carries(c)
      BY <1>2, <2>1, <2>2 DEF Carries, Allowed
    <2> QED
      BY <2>2, <2>3, <2>4, MoveInv
  <1> QED
    BY <1>1, <1>2

LEMMA InsertInv ==
    ASSUME PInv, NEW h \in Handlers, Insert(h)
    PROVE PInv'
  <1> DEFINE c == handler[h]
             r == [state |-> "live", dest |-> c.dest, snapshot |-> c.fields,
                   old |-> FALSE, vetted |-> c.vetted]
  <1>1. c \in Handler /\ Carries(c) /\ c.pc = "insert"
    BY DEF PInv, Types, Insert, At
  <1>2. r \in Row /\ RowSound(r)
    BY <1>1 DEF Handler, Row, RowSound, Carries
  <1>3. PICK a \in Ids : rows' = [rows EXCEPT ![a] = r]
    BY DEF Insert
  <1>4. Finish(h) /\ UNCHANGED <<kyb, required>>
    BY DEF Insert
  <1> HIDE DEF r
  <1> QED
    BY <1>2, <1>3, <1>4, StoreInv

LEMMA UpdateInv ==
    ASSUME PInv, NEW h \in Handlers, NEW a \in Ids, NEW d \in Inputs, Update(h, a, d)
    PROVE PInv'
  <1> DEFINE n == Normalize(Merge(rows[a].dest, d))
             c == [Idle EXCEPT !.pc = "fetch", !.id = a, !.dest = n]
  <1>1. rows[a].dest \in Destinations /\ d \in Destinations
    BY InputsAssumption DEF PInv, Types, Row
  <1>2. InForm(n) /\ n \in Destinations
    BY <1>1, MergedIsDestination, NormalizeIsIdempotent DEF InForm
  <1> HIDE DEF n
  <1>3. c \in Handler /\ c.pc = "fetch" /\ c.dest = n /\ c.id = a
    BY <1>2, NowhereInForm DEF Idle, Handler
  <1>4. Carries(c)
    BY <1>2, <1>3 DEF Carries
  <1>5. handler' = [handler EXCEPT ![h] = c] /\ UNCHANGED <<rows, kyb, required>>
    BY DEF Update, Run, n
  <1> HIDE DEF c
  <1> QED
    BY <1>3, <1>4, <1>5, MoveInv

\* A racing PUT may have written the row meanwhile: it is replaced whole.
LEMMA WriteInv ==
    ASSUME PInv, NEW h \in Handlers, Write(h)
    PROVE PInv'
  <1> DEFINE c == handler[h]
             r == Rewritten(rows[c.id], c)
  <1>1. /\ c \in Handler /\ Carries(c) /\ c.pc = "write" /\ c.id \in Ids
        /\ Finish(h) /\ UNCHANGED <<kyb, required>>
    BY DEF PInv, Types, Write, At, Carries
  <1>2. CASE ~Live(c.id)
    BY <1>1, <1>2, FinishInv DEF Write
  <1>3. CASE Live(c.id)
    <2>1. rows[c.id] \in Row /\ RowSound(rows[c.id]) /\ rows[c.id].state = "live"
      BY <1>1, <1>3 DEF PInv, Types, Live
    <2>2. r \in Row /\ RowSound(r)
      BY <1>1, <2>1 DEF Rewritten, Row, Handler, RowSound, Carries
    <2>3. rows' = [rows EXCEPT ![c.id] = r]
      BY <1>3 DEF Write
    <2> HIDE DEF r
    <2> QED
      BY <1>1, <2>2, <2>3, StoreInv
  <1> QED
    BY <1>2, <1>3

LEMMA DeleteInv ==
    ASSUME PInv, NEW a \in Ids, Delete(a)
    PROVE PInv'
  <1>1. /\ rows \in [Ids -> Row] /\ RowSound(rows[a]) /\ rows[a].state = "live"
        /\ rows' = [rows EXCEPT ![a].state = "deleted"]
        /\ UNCHANGED <<handler, kyb, required>>
    BY DEF PInv, Types, Delete, Live
  <1>2. rows' \in [Ids -> Row] /\ RowSound(rows'[a])
    BY <1>1 DEF Row, RowSound
  <1>3. \A b \in Ids \ {a} : rows'[b] = rows[b]
    BY <1>1
  <1>4. \A b \in Ids : RowSound(rows'[b])
    BY <1>2, <1>3 DEF PInv
  <1>5. Types'
    BY <1>1, <1>2 DEF PInv, Types
  <1>6. \A g \in Handlers : Carries(handler[g])'
    BY <1>1 DEF PInv, Carries
  <1> QED
    BY <1>4, <1>5, <1>6 DEF PInv, RowSound

\* An approval that comes while an account is being opened is remembered.
LEMMA KybChangesInv ==
    ASSUME PInv, NEW who \in {"user", "rail"}, KybChanges(who)
    PROVE PInv'
  <1>1. /\ kyb' = [kyb EXCEPT ![who] = ~kyb[who]]
        /\ handler' = [h \in Handlers |->
             [handler[h] EXCEPT !.vetted = handler[h].vetted \/
                                           (handler[h].pc # "idle" /\ kyb'[who])]]
        /\ UNCHANGED <<rows, required>>
    BY DEF KybChanges
  <1>2. /\ kyb' \in [user : BOOLEAN, rail : BOOLEAN]
        /\ kyb'.user => kyb.user \/ kyb'[who]
        /\ kyb'.rail => kyb.rail \/ kyb'[who]
        /\ kyb'[who] \in BOOLEAN
    BY <1>1 DEF PInv, Types
  <1>3. ASSUME NEW h \in Handlers
        PROVE handler'[h] \in Handler /\ Carries(handler[h])'
    <2>1. handler[h] \in Handler /\ Carries(handler[h])
      BY DEF PInv, Types
    <2>2. /\ handler'[h] \in Handler
          /\ handler'[h].pc = handler[h].pc /\ handler'[h].dest = handler[h].dest
          /\ handler'[h].fields = handler[h].fields /\ handler'[h].id = handler[h].id
          /\ handler'[h].approved = handler[h].approved
          /\ handler'[h].vetted = (handler[h].vetted \/ (handler[h].pc # "idle" /\ kyb'[who]))
      BY <1>1, <1>2, <2>1 DEF Handler
    <2> QED
      BY <1>2, <2>1, <2>2 DEF Carries
  <1>4. Types'
    BY <1>1, <1>2, <1>3 DEF PInv, Types
  <1>5. \A a \in Ids : RowSound(rows[a])'
    BY <1>1 DEF PInv, RowSound
  <1> QED
    BY <1>3, <1>4, <1>5 DEF PInv

LEMMA CrashInv ==
    ASSUME PInv, Crash
    PROVE PInv'
  <1>1. handler' = [h \in Handlers |-> Idle] /\ UNCHANGED <<rows, kyb, required>>
    BY DEF Crash
  <1>2. Types'
    BY <1>1, IdleCarries DEF PInv, Types
  <1>3. \A h \in Handlers : Carries(handler[h])'
    BY <1>1, IdleCarries DEF Carries
  <1>4. \A a \in Ids : RowSound(rows[a])'
    BY <1>1 DEF PInv, RowSound
  <1> QED
    BY <1>2, <1>3, <1>4 DEF PInv

LEMMA CorridorChangesInv ==
    ASSUME PInv, required' \in SUBSET Canonical, UNCHANGED <<rows, handler, kyb>>
    PROVE PInv'
  <1>1. Types'
    BY DEF PInv, Types
  <1>2. \A h \in Handlers : Carries(handler[h])'
    BY DEF PInv, Carries
  <1>3. \A a \in Ids : RowSound(rows[a])'
    BY DEF PInv, RowSound
  <1> QED
    BY <1>1, <1>2, <1>3 DEF PInv

LEMMA StepInv == PInv /\ [Next]_vars => PInv'
  <1> SUFFICES ASSUME PInv, [Next]_vars PROVE PInv'
    OBVIOUS
  <1>0. required \in SUBSET Canonical
    BY DEF PInv, Types
  <1>1. ASSUME NEW h \in Handlers, Serve(h)
        PROVE PInv'
    <2>1. CASE CheckCorridor(h)
      BY <2>1, FetchInv DEF CheckCorridor
    <2>2. CASE Recheck(h)
      BY <2>2, FetchInv DEF Recheck
    <2> QED
      BY <1>1, <2>1, <2>2, CheckKybInv, InsertInv, WriteInv DEF Serve
  <1>2. ASSUME NEW h \in Handlers, NEW d \in Inputs, Create(h, d)
        PROVE PInv'
    BY <1>2, CreateInv
  <1>3. ASSUME NEW h \in Handlers, NEW d \in Inputs, NEW a \in Ids, Update(h, a, d)
        PROVE PInv'
    BY <1>3, UpdateInv
  <1>4. ASSUME NEW a \in Ids, Delete(a)
        PROVE PInv'
    BY <1>4, DeleteInv
  <1>5. ASSUME NEW who \in {"user", "rail"}, KybChanges(who)
        PROVE PInv'
    BY <1>5, KybChangesInv
  <1>6. ASSUME NEW i \in DOMAIN events, Outbox(i)
        PROVE PInv'
    BY <1>0, <1>6, CorridorChangesInv DEF Outbox
  <1>7. CASE CorridorChanges
    BY <1>7, CorridorChangesInv, InputsAssumption DEF CorridorChanges
  <1>8. CASE Crash
    BY <1>8, CrashInv
  <1>9. CASE UNCHANGED vars
    BY <1>0, <1>9, CorridorChangesInv DEF vars
  <1> QED
    BY <1>1, <1>2, <1>3, <1>4, <1>5, <1>6, <1>7, <1>8, <1>9 DEF Next

LEMMA Invariance == Spec => []PInv
  BY InitInv, StepInv, PTL DEF Spec
-----------------------------------------------------------------------------
\* Whatever clients send, whatever was stored before, and however POSTs, PUTs and
\* changes of the corridor race, a destination (providerPayout) that a request has
\* stored is in canonical form and meets the requirements snapshot beside it.
THEOREM StoredIsCanonical == Spec => []DestinationIsCanonical
  <1>1. PInv => DestinationIsCanonical
    BY DEF PInv, RowSound, InForm, DestinationIsCanonical
  <1> QED
    BY <1>1, Invariance, PTL

\* A payout account is never opened for a business that was not approved, itself
\* or for the rail, at any time while its request ran (createAccount).
THEOREM NeverUnvetted == Spec => []PayoutAccountIsVetted
  <1>1. PInv => PayoutAccountIsVetted
    BY DEF PInv, RowSound, PayoutAccountIsVetted
  <1> QED
    BY <1>1, Invariance, PTL
=============================================================================
