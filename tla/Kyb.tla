-------------------------------- MODULE Kyb --------------------------------
(***************************************************************************)
(* Business users and their KYB: POST /users, the KYB draft, documents and  *)
(* submission, the provider's kyb.* webhooks, and what GET /kyb/status      *)
(* makes of them.                                                           *)
(*                                                                          *)
(* A user is created in one transaction that holds an advisory lock on the  *)
(* business e-mail; the unique indexes on the requestId and on the e-mail   *)
(* catch what the lock does not.  Everything after that is unlocked: the    *)
(* submission and the webhook each read the user, write its kybStatus, and  *)
(* then upsert a row per rail, one await after another.                     *)
(***************************************************************************)
EXTENDS PartnerWebhooks, FiniteSets

CONSTANTS
    Handlers,    \* the requests the API processes may be serving at one time
    RequestIds,  \* requestId headers of POST /users: each makes at most one user
    Emails,      \* business e-mails, normalised; they stand for the payload too
    Rails,       \* the rails a business may apply for
    Decisions,   \* the kyb.* events the provider sends, each once
    MaxFaults,   \* bound: crashes
    MaxSignUps,     \* bound: sign-ups begun
    MaxSubmissions  \* bound: submissions begun

None == "none"

KybStatuses ==
    {"not_started", "incomplete", "under_review", "approved", "rejected", "suspended"}

\* The kybStatus of an event is any word, in lower case; "other" stands for the
\* words that are no KYB status.
Other == "other"

Words == KybStatuses \cup {Other}

EventTypes == {"kyb.status_updated", "kyb.approved", "kyb.rejected"}

ASSUME KybAssumption ==
    /\ {MaxFaults, MaxSignUps, MaxSubmissions} \subseteq Nat
    /\ "none" \notin Emails
    /\ \A d \in Decisions :
         d.user \in RequestIds /\ d.rails \subseteq Rails
         /\ d.type \in EventTypes /\ d.status \in Words \cup {None}

VARIABLES
    users,        \* the users table, by creationRequestId
    rails,        \* the KybRailStatus rows of each user
    submissions,  \* how many KYB submissions are stored for each user
    profile,      \* whether a KYB draft or documents are stored: nothing here reads them
    begun,        \* how many sign-ups and submissions have begun
    handler,      \* what each request in flight has read and is about to do
    claimed,      \* the kyb.* events in the webhook dedupe ledger
    faults        \* how many processes have died

kybVars == <<rails, submissions, profile, begun>>
vars == <<users, rails, submissions, profile, begun, handler, claimed, faults, events, configured>>
-----------------------------------------------------------------------------
User == [email : Emails \cup {None}, kyb : KybStatuses]

NoUser == [email |-> None, kyb |-> "not_started"]

\* A request in flight: the user it is about, the kybStatus it read, the status
\* it is about to store for the user, and the word it is about to store for the
\* rails that are left.
Handler ==
    [pc : {"idle", "lock", "insert", "raced", "greet", "submit", "record", "rails",
           "decide"},
     req : RequestIds \cup {None}, email : Emails \cup {None},
     seen : KybStatuses, got : KybStatuses, word : Words, left : SUBSET Rails]

Idle ==
    [pc |-> "idle", req |-> None, email |-> None, seen |-> "not_started",
     got |-> "not_started", word |-> "not_started", left |-> {}]

Init ==
    /\ users = [q \in RequestIds |-> NoUser]
    /\ rails = [q \in RequestIds |-> [r \in Rails |-> None]]
    /\ submissions = [q \in RequestIds |-> 0]
    /\ profile = [q \in RequestIds |-> FALSE]
    /\ begun = [signUps |-> 0, submissions |-> 0]
    /\ handler = [h \in Handlers |-> Idle]
    /\ claimed = {}
    /\ faults = 0
    /\ OutboxInit

Exists(q) == users[q].email # None

At(h, pc) == handler[h].pc = pc

Run(h, r) == At(h, "idle") /\ handler' = [handler EXCEPT ![h] = r]

Go(h, pc) == handler' = [handler EXCEPT ![h].pc = pc]

Finish(h) == handler' = [handler EXCEPT ![h] = Idle]
-----------------------------------------------------------------------------
(* POST /users: createBusinessUser and user.repo's createUser. *)

SignUp(h, q, e) ==
    /\ begun.signUps < MaxSignUps
    /\ begun' = [begun EXCEPT !.signUps = @ + 1]
    /\ Run(h, [Idle EXCEPT !.pc = "lock", !.req = q, !.email = e])
    /\ UNCHANGED <<users, rails, submissions, profile, claimed, faults, events, configured>>

\* pg_advisory_xact_lock on the e-mail, held while the transaction is open.
Locked(e) == \E g \in Handlers : At(g, "insert") /\ handler[g].email = e

\* The transaction looks for the requestId, then for the e-mail: a user found
\* by either is the answer, 200 or 409.
LookUp(h) ==
    LET c == handler[h] IN
    /\ At(h, "lock")
    /\ ~Locked(c.email)
    /\ IF Exists(c.req) \/ \E q \in RequestIds : users[q].email = c.email
       THEN Finish(h) ELSE Go(h, "insert")
    /\ UNCHANGED <<users, kybVars, claimed, faults, events, configured>>

\* The insert meets the unique indexes, the transaction commits.
Insert(h) ==
    LET c == handler[h] IN
    /\ At(h, "insert")
    /\ IF Exists(c.req) \/ \E q \in RequestIds : users[q].email = c.email
       THEN Go(h, "raced") /\ UNCHANGED users
       ELSE /\ users' = [users EXCEPT ![c.req] = [NoUser EXCEPT !.email = c.email]]
            /\ Go(h, "greet")
    /\ UNCHANGED <<kybVars, claimed, faults, events, configured>>

\* (Mutant of Raced: takes the user it finds for one it created.)
RacedAsCreated(h) ==
    /\ At(h, "raced")
    /\ Go(h, "greet")
    /\ UNCHANGED <<users, kybVars, claimed, faults, events, configured>>

\* After P2002 the user is looked up again and is the answer, not created.
Raced(h) ==
    /\ At(h, "raced")
    /\ Finish(h)
    /\ UNCHANGED <<users, kybVars, claimed, faults, events, configured>>

Greet(h) ==
    /\ At(h, "greet")
    /\ Schedule("user.created", handler[h].req, "not_started")
    /\ Finish(h)
    /\ UNCHANGED <<users, kybVars, claimed, faults, configured>>
-----------------------------------------------------------------------------
(* POST /users/:id/kyb and /kyb/documents. *)

Stored(q) ==
    /\ profile' = [profile EXCEPT ![q] = TRUE]
    /\ UNCHANGED <<users, rails, submissions, begun, handler, claimed, faults, events, configured>>

\* The draft is upserted, and nobody is told.
Draft(q) == Exists(q) /\ Stored(q)

\* Documents are stored in one transaction, if the user and their files exist;
\* neither is ever deleted.
AttachDocuments(q) == Exists(q) /\ Stored(q)
-----------------------------------------------------------------------------
(* POST /users/:id/kyb/submissions: submitKybApplication. *)

\* The user is read.
Submit(h, q, rs) ==
    /\ Exists(q)
    /\ begun.submissions < MaxSubmissions
    /\ begun' = [begun EXCEPT !.submissions = @ + 1]
    /\ Run(h, [Idle EXCEPT !.pc = "submit", !.req = q, !.seen = users[q].kyb, !.left = rs])
    /\ UNCHANGED <<users, rails, submissions, profile, claimed, faults,
                   events, configured>>

\* (Mutant of Reviewable: only a first submission is reviewed.)
ReviewableOnce(s) == s = "incomplete"

Reviewable(s) == s \in {"not_started", "incomplete"}

\* What was read decides whether the status becomes under_review.
WriteReview(h) ==
    LET c == handler[h] IN
    /\ At(h, "submit")
    /\ IF Reviewable(c.seen)
       THEN /\ users' = [users EXCEPT ![c.req].kyb = "under_review"]
            /\ Schedule("kyb.status_updated", c.req, "under_review")
       ELSE UNCHANGED <<users, events>>
    /\ Go(h, "record")
    /\ UNCHANGED <<kybVars, claimed, faults, configured>>

\* createKybSubmission: the submission, and then its rails.
Record(h) ==
    LET c == handler[h] IN
    /\ At(h, "record")
    /\ submissions' = [submissions EXCEPT ![c.req] = @ + 1]
    /\ handler' = [handler EXCEPT ![h].pc = "rails", ![h].word = "under_review"]
    /\ UNCHANGED <<users, rails, profile, begun, claimed, faults,
                   events, configured>>

\* A rail is upserted: by a submission in any order (Promise.all), by a webhook
\* one after the other (updateKybRailStatuses).
StoreRail(h) ==
    LET c == handler[h] IN
    /\ At(h, "rails")
    /\ IF c.left = {}
       THEN Finish(h) /\ UNCHANGED rails
       ELSE \E r \in c.left :
              /\ rails' = [rails EXCEPT ![c.req][r] = c.word]
              /\ handler' = [handler EXCEPT ![h].left = @ \ {r}]
    /\ UNCHANGED <<users, submissions, profile, begun, claimed, faults,
                   events, configured>>
-----------------------------------------------------------------------------
(* The kyb.* webhooks. *)

\* The status an event has: its own word, or else what its type says.
Said(d) ==
    IF d.status # None THEN d.status
    ELSE IF d.type = "kyb.approved" THEN "approved"
    ELSE IF d.type = "kyb.rejected" THEN "rejected"
    ELSE None

\* toKybStatus: a word that is no status counts as under_review.
ToKybStatus(word) == IF word \in KybStatuses THEN word ELSE "under_review"

\* What the rails of an event are given: what its type says, or else its own
\* word as it came.
RailWord(d) ==
    IF d.type = "kyb.approved" THEN "approved"
    ELSE IF d.type = "kyb.rejected" THEN "rejected"
    ELSE IF d.status # None THEN d.status
    ELSE "under_review"

\* The event is claimed and its user read; without the user nothing is done, and
\* without a status only the rails are written.
Decide(h, d) ==
    /\ d \notin claimed
    /\ claimed' = claimed \cup {d}
    /\ LET c == [Idle EXCEPT !.req = d.user, !.seen = users[d.user].kyb,
                             !.word = RailWord(d), !.left = d.rails]
       IN  CASE ~Exists(d.user) -> At(h, "idle") /\ UNCHANGED handler
             [] Exists(d.user) /\ Said(d) = None -> Run(h, [c EXCEPT !.pc = "rails"])
             [] Exists(d.user) /\ Said(d) # None ->
                  Run(h, [c EXCEPT !.pc = "decide", !.got = ToKybStatus(Said(d))])
    /\ UNCHANGED <<users, kybVars, faults, events, configured>>

\* (Mutant of ToldOf: whenever the provider says anything.)
ToldOfAny(seen, got) == TRUE

\* A change is told when it is one with respect to what was read.
ToldOf(seen, got) == seen # got

WriteDecision(h) ==
    LET c == handler[h] IN
    /\ At(h, "decide")
    /\ users' = [users EXCEPT ![c.req].kyb = c.got]
    /\ IF ToldOf(c.seen, c.got)
       THEN Schedule("kyb.status_updated", c.req, c.got) ELSE UNCHANGED events
    /\ Go(h, "rails")
    /\ UNCHANGED <<kybVars, claimed, faults, configured>>

\* The API process dies and starts again; an open transaction is rolled back.
Crash ==
    /\ faults < MaxFaults
    /\ faults' = faults + 1
    /\ handler' = [h \in Handlers |-> Idle]
    /\ events' = Abandoned
    /\ UNCHANGED <<users, kybVars, claimed, configured>>

Outbox(i) ==
    /\ Deliver(i)
    /\ UNCHANGED <<users, kybVars, claimed, faults, handler>>

Serve(h) ==
    \/ LookUp(h) \/ Insert(h) \/ Raced(h) \/ Greet(h)
    \/ WriteReview(h) \/ Record(h) \/ StoreRail(h) \/ WriteDecision(h)

Next ==
    \/ \E h \in Handlers :
         \/ Serve(h)
         \/ \E q \in RequestIds, e \in Emails : SignUp(h, q, e)
         \/ \E q \in RequestIds, rs \in SUBSET Rails \ {{}} : Submit(h, q, rs)
         \/ \E d \in Decisions : Decide(h, d)
    \/ \E q \in RequestIds : Draft(q) \/ AttachDocuments(q)
    \/ \E i \in DOMAIN events : Outbox(i)
    \/ Crash

\* A request being served is not left standing, nor is an event being sent.
Fairness ==
    /\ \A h \in Handlers : WF_vars(Serve(h))
    /\ \A i \in Followed : WF_vars(Outbox(i))

Spec == Init /\ [][Next]_vars /\ Fairness
-----------------------------------------------------------------------------
\* getKybRailStatuses
RailStatuses(q) == {rails[q][r] : r \in Rails} \ {None}

\* GET /users/:id/kyb/status: deriveOverallStatus over the rails there are, or
\* the user's own status when there are none.
OverallStatus(q) ==
    LET ss == RailStatuses(q) IN
    IF ss = {} THEN users[q].kyb
    ELSE IF ss = {"approved"} THEN "approved"
    ELSE IF "rejected" \in ss THEN "rejected"
    ELSE IF "under_review" \in ss THEN "under_review"
    ELSE IF "approved" \in ss THEN "approved"
    ELSE IF "incomplete" \in ss THEN "incomplete"
    ELSE "not_started"
-----------------------------------------------------------------------------
(* Properties. *)

TypeOK ==
    /\ users \in [RequestIds -> User]
    /\ rails \in [RequestIds -> [Rails -> Words \cup {None}]]
    /\ submissions \in [RequestIds -> 0 .. MaxSubmissions]
    /\ profile \in [RequestIds -> BOOLEAN]
    /\ begun \in [signUps : 0 .. MaxSignUps, submissions : 0 .. MaxSubmissions]
    /\ handler \in [Handlers -> Handler]
    /\ claimed \subseteq Decisions
    /\ faults \in 0 .. MaxFaults
    /\ OutboxTypeOK

\* A partner is told of a user once, and of users that exist, however many
\* times and from however many processes the user is created.
UserIsToldOnce ==
    \A i \in DOMAIN events : events[i].type = "user.created" =>
        /\ Exists(events[i].about)
        /\ \A j \in DOMAIN events :
             events[j].type = "user.created" /\ events[j].about = events[i].about => j = i

\* The provider itself said something that GET /kyb/status shows as not having
\* applied: not_started, suspended or a word deriveOverallStatus does not know.
Hidden(q) ==
    \E d \in claimed : d.user = q /\ Said(d) \in {"not_started", "suspended", Other}

\* A business with a submission on record, or a rail that has a status, is not
\* shown as not having applied, whichever of the submission and the provider's
\* events wrote last and even if the process died midway, unless the provider
\* said so.
SubmissionShows ==
    \A q \in RequestIds :
        submissions[q] > 0 \/ (\E r \in Rails : rails[q][r] # None) =>
            OverallStatus(q) # "not_started" \/ Hidden(q)
=============================================================================
