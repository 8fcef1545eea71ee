------------------------------- MODULE KybProofs -------------------------------
(***************************************************************************)
(* Sign-up, KYB and the outbox proved, for any number of requests, users,  *)
(* rails, decisions, crashes and delivery attempts.                        *)
(*                                                                         *)
(* The outbox.  What an event's outcome says is true of its deliveries     *)
(* from before it is logged (EventHonest), so logging it, late or not at   *)
(* all, cannot make the log false.                                         *)
(*                                                                         *)
(* Users.  UserIsToldOnce is not inductive: two requests about to greet    *)
(* the same user would break it.  The one that greets is the one whose     *)
(* insert found neither row (Greeted): nobody else is about to greet that  *)
(* user, and no event about it is scheduled.                               *)
(*                                                                         *)
(* Submissions and rails.  A submission is stored by a request that found   *)
(* or made the user's status something, and the rails get words that show  *)
(* (HandlerSound); a status is taken back only by an event the provider    *)
(* has sent, and such an event stays claimed (UsersMove), however the      *)
(* requests interleave or die.                                             *)
(***************************************************************************)
EXTENDS Kyb, SequenceTheorems, TLAPS

-----------------------------------------------------------------------------
(* The outbox. *)

EventRecord ==
    [type : {"user.created", "kyb.status_updated"}, about : RequestIds, value : KybStatuses,
     phase : {"scheduled", "sending", "answered", "done", "gone"},
     log : {"none", "pending"} \cup Outcomes, result : {"none"} \cup Outcomes,
     attempts : 0 .. MaxAttempts, received : BOOLEAN]

(* What an event's outcome says, before and once it is logged.             *)
EventHonest(e, set) ==
    /\ e.phase \in {"scheduled", "sending"} => e.result = "none" /\ e.attempts < MaxAttempts
    /\ e.phase # "done" => e.log \in {"none", "pending"}
    /\ e.log \in Outcomes => e.log = e.result
    /\ e.result = "delivered" => e.received
    /\ e.result = "failed" => e.attempts = MaxAttempts
    /\ e.result = "skipped" => ~e.received
    /\ ~set => ~e.received

OutboxInv ==
    /\ events \in Seq(EventRecord)
    /\ configured \in BOOLEAN
    /\ \A i \in DOMAIN events : EventHonest(events[i], configured)

(* The events when one of them has moved, and when one is scheduled.       *)
LEMMA OneMoved ==
    ASSUME OutboxInv, NEW i \in DOMAIN events, NEW e \in EventRecord,
           events' = [events EXCEPT ![i] = e]
    PROVE /\ events' \in Seq(EventRecord) /\ DOMAIN events' = DOMAIN events
          /\ events'[i] = e /\ \A j \in DOMAIN events : j # i => events'[j] = events[j]
<1>1. Len(events) \in Nat /\ DOMAIN events = 1 .. Len(events)
  BY LenProperties DEF OutboxInv
<1>2. events \in [1 .. Len(events) -> EventRecord]
  BY <1>1, LenProperties, ElementOfSeq DEF OutboxInv
<1>3. events' \in [1 .. Len(events) -> EventRecord]
  BY <1>1, <1>2
<1> QED
  BY <1>1, <1>2, <1>3, SeqDef

LEMMA OneScheduled ==
    ASSUME OutboxInv, NEW type \in {"user.created", "kyb.status_updated"},
           NEW about \in RequestIds, NEW value \in KybStatuses, Schedule(type, about, value),
           configured' = configured
    PROVE /\ OutboxInv'
          /\ DOMAIN events' = DOMAIN events \cup {Len(events) + 1}
          /\ Len(events) + 1 \notin DOMAIN events
          /\ events'[Len(events) + 1].type = type /\ events'[Len(events) + 1].about = about
          /\ \A j \in DOMAIN events : events'[j] = events[j]
<1> DEFINE e == [type |-> type, about |-> about, value |-> value, phase |-> "scheduled",
                 log |-> "none", result |-> "none", attempts |-> 0, received |-> FALSE]
<1>1. Len(events) \in Nat /\ DOMAIN events = 1 .. Len(events)
  BY LenProperties DEF OutboxInv
<1>2. e \in EventRecord /\ EventHonest(e, configured') /\ e.type = type /\ e.about = about
  BY AttemptsAssumption DEF EventRecord, EventHonest, Outcomes
<1>3. events' = Append(events, e)
  BY DEF Schedule, Scheduled
<1> HIDE DEF e
<1>4. /\ events' \in Seq(EventRecord) /\ Len(events') = Len(events) + 1
      /\ \A j \in 1 .. Len(events) : events'[j] = events[j]
      /\ events'[Len(events) + 1] = e
  BY <1>2, <1>3, AppendProperties DEF OutboxInv
<1>5. DOMAIN events' = 1 .. Len(events) + 1
  BY <1>1, <1>4, LenProperties
<1>6. \A j \in DOMAIN events' : j \in DOMAIN events \/ j = Len(events) + 1
  BY <1>1, <1>5
<1>7. \A j \in DOMAIN events' : EventHonest(events'[j], configured')
  BY <1>1, <1>2, <1>4, <1>6 DEF OutboxInv, EventHonest
<1> QED
  BY <1>1, <1>2, <1>4, <1>5, <1>7 DEF OutboxInv

LEMMA DeliverKeeps ==
    ASSUME OutboxInv, NEW i \in DOMAIN events, Deliver(i)
    PROVE /\ OutboxInv' /\ DOMAIN events' = DOMAIN events
          /\ \A j \in DOMAIN events :
               events'[j].type = events[j].type /\ events'[j].about = events[j].about
<1> PICK c : c = events[i]
  OBVIOUS
<1>1. c \in EventRecord /\ EventHonest(c, configured) /\ configured \in BOOLEAN
  BY ElementOfSeq, LenProperties DEF OutboxInv
<1>2. configured' = configured
  BY DEF Deliver, Store, Skip, Post, Finalize, Step
<1>3. ASSUME NEW e \in EventRecord, EventHonest(e, configured), e.type = c.type, e.about = c.about,
             events' = [events EXCEPT ![i] = e]
      PROVE /\ OutboxInv' /\ DOMAIN events' = DOMAIN events
            /\ \A j \in DOMAIN events :
                 events'[j].type = events[j].type /\ events'[j].about = events[j].about
  <2>1. /\ events' \in Seq(EventRecord) /\ DOMAIN events' = DOMAIN events
        /\ events'[i] = e /\ \A j \in DOMAIN events : j # i => events'[j] = events[j]
    BY <1>3, OneMoved
  <2>2. \A j \in DOMAIN events' : EventHonest(events'[j], configured')
    BY <1>2, <1>3, <2>1 DEF OutboxInv, EventHonest
  <2> QED
    BY <1>2, <1>3, <2>1, <2>2 DEF OutboxInv
<1>4. CASE Store(i)
  <2>1. PICK log \in {"pending", "none"} :
          events' = [events EXCEPT ![i].phase = "sending", ![i].log = log]
    BY <1>4 DEF Store
  <2> PICK e : e = [c EXCEPT !.phase = "sending", !.log = log]
    OBVIOUS
  <2>2. e \in EventRecord /\ e.type = c.type /\ e.about = c.about
    BY <1>1 DEF EventRecord, Outcomes
  <2>3. EventHonest(e, configured)
    BY <1>1, <1>4 DEF EventRecord, EventHonest, Outcomes, Store, Step
  <2>4. events' = [events EXCEPT ![i] = e]
    BY <2>1
  <2> QED
    BY <1>3, <2>2, <2>3, <2>4
<1>5. CASE Skip(i)
  <2> PICK e : e = [c EXCEPT !.phase = "answered", !.result = "skipped"]
    OBVIOUS
  <2>2. e \in EventRecord /\ e.type = c.type /\ e.about = c.about
    BY <1>1 DEF EventRecord, Outcomes
  <2>3. EventHonest(e, configured)
    BY <1>1, <1>5 DEF EventRecord, EventHonest, Outcomes, Skip, Step
  <2>4. events' = [events EXCEPT ![i] = e]
    BY <1>5 DEF Skip
  <2> QED
    BY <1>3, <2>2, <2>3, <2>4
<1>6. CASE Post(i)
  <2>1. PICK reached \in BOOLEAN, accepted \in BOOLEAN :
          LET e == [c EXCEPT !.attempts = @ + 1, !.received = @ \/ reached]
          IN  /\ accepted => reached
              /\ events' = [events EXCEPT ![i] =
                   CASE accepted -> [e EXCEPT !.phase = "answered", !.result = "delivered"]
                     [] ~accepted /\ e.attempts = MaxAttempts -> Failed(e)
                     [] OTHER -> e]
    BY <1>6 DEF Post
  <2>g. PICK got \in BOOLEAN : got = (c.received \/ reached)
    OBVIOUS
  <2>e. PICK e : e = [c EXCEPT !.attempts = @ + 1, !.received = got]
    OBVIOUS
  <2>2. c.phase = "sending" /\ configured
    BY <1>6 DEF Post, Step
  <2>3. c.result = "none" /\ c.attempts < MaxAttempts /\ c.log \in {"none", "pending"}
    BY <1>1, <2>2 DEF EventHonest
  <2>4. /\ e \in EventRecord /\ e.type = c.type /\ e.about = c.about
        /\ e.phase = "sending" /\ e.result = "none" /\ e.log = c.log /\ e.received = got
    <3>1. c.attempts + 1 \in 0 .. MaxAttempts
      BY <1>1, <2>3, AttemptsAssumption DEF EventRecord
    <3> QED
      BY <1>1, <2>2, <2>3, <2>e, <3>1 DEF EventRecord
  <2>5. /\ accepted => reached
        /\ events' = [events EXCEPT ![i] =
             CASE accepted -> [e EXCEPT !.phase = "answered", !.result = "delivered"]
               [] ~accepted /\ e.attempts = MaxAttempts -> Failed(e)
               [] OTHER -> e]
    BY <2>1, <2>g, <2>e
  <2>6. CASE accepted
    <3> PICK d : d = [e EXCEPT !.phase = "answered", !.result = "delivered"]
      OBVIOUS
    <3>1. /\ d \in EventRecord /\ d.type = c.type /\ d.about = c.about
          /\ d.phase = "answered" /\ d.result = "delivered" /\ d.log = c.log
          /\ d.received = got
      BY <2>4 DEF EventRecord, Outcomes
    <3>2. got
      BY <2>5, <2>6, <2>g
    <3>3. EventHonest(d, configured)
      BY <2>2, <2>3, <3>1, <3>2 DEF EventHonest, Outcomes
    <3>4. events' = [events EXCEPT ![i] = d]
      BY <2>5, <2>6
    <3> QED
      BY <1>3, <3>1, <3>3, <3>4
  <2>7. CASE ~accepted /\ e.attempts = MaxAttempts
    <3> PICK d : d = [e EXCEPT !.phase = "answered", !.result = "failed"]
      OBVIOUS
    <3>1. /\ d \in EventRecord /\ d.type = c.type /\ d.about = c.about
          /\ d.phase = "answered" /\ d.result = "failed" /\ d.log = c.log
          /\ d.attempts = MaxAttempts
      BY <2>4, <2>7 DEF EventRecord, Outcomes
    <3>2. EventHonest(d, configured)
      BY <2>2, <2>3, <3>1 DEF EventHonest, Outcomes
    <3>3. events' = [events EXCEPT ![i] = d]
      BY <2>5, <2>7 DEF Failed
    <3> QED
      BY <1>3, <3>1, <3>2, <3>3
  <2>8. CASE ~accepted /\ e.attempts # MaxAttempts
    <3>1. e.attempts < MaxAttempts
      <4>1. e.attempts \in 0 .. MaxAttempts
        BY <2>4 DEF EventRecord
      <4> QED
        BY <2>8, <4>1, AttemptsAssumption
    <3>2. EventHonest(e, configured)
      BY <2>2, <2>3, <2>4, <3>1 DEF EventHonest, Outcomes
    <3>3. events' = [events EXCEPT ![i] = e]
      BY <2>5, <2>8
    <3> QED
      BY <1>3, <2>4, <3>2, <3>3
  <2> QED
    BY <2>6, <2>7, <2>8
<1>7. CASE Finalize(i)
  <2>1. PICK stored \in BOOLEAN :
          events' = [events EXCEPT ![i].phase = "done",
                                   ![i].log = IF @ = "pending" /\ stored
                                              THEN events[i].result ELSE @]
    BY <1>7 DEF Finalize
  <2> PICK log : log = IF c.log = "pending" /\ stored THEN c.result ELSE c.log
    OBVIOUS
  <2> PICK e : e = [c EXCEPT !.phase = "done", !.log = log]
    OBVIOUS
  <2>2. log \in {"none", "pending"} \cup Outcomes
    BY <1>1 DEF EventRecord
  <2>3. e \in EventRecord /\ e.type = c.type /\ e.about = c.about
    BY <1>1, <2>2 DEF EventRecord
  <2>4. EventHonest(e, configured)
    BY <1>1, <1>7 DEF EventRecord, EventHonest, Outcomes, Finalize, Step
  <2>5. events' = [events EXCEPT ![i] = e]
    <3> PICK one : one = [events EXCEPT ![i].phase = "done"]
      OBVIOUS
    <3> PICK f : f = [c EXCEPT !.phase = "done"]
      OBVIOUS
    <3>1. one[i] = f /\ f.log = c.log /\ i \in DOMAIN one
      BY <1>1 DEF EventRecord
    <3>2. events' = [one EXCEPT ![i].log = IF @ = "pending" /\ stored THEN c.result ELSE @]
      BY <2>1
    <3>3. events' = [one EXCEPT ![i] = [f EXCEPT !.log = log]]
      BY <3>1, <3>2
    <3>4. e = [f EXCEPT !.log = log]
      OBVIOUS
    <3> QED
      BY <3>3, <3>4
  <2> QED
    BY <1>3, <2>3, <2>4, <2>5
<1> QED
  BY <1>4, <1>5, <1>6, <1>7 DEF Deliver

LEMMA AbandonedKeeps ==
    ASSUME OutboxInv, events' = Abandoned, configured' = configured
    PROVE /\ OutboxInv' /\ DOMAIN events' = DOMAIN events
          /\ \A j \in DOMAIN events :
               events'[j].type = events[j].type /\ events'[j].about = events[j].about
<1>1. Len(events) \in Nat /\ DOMAIN events = 1 .. Len(events)
  BY LenProperties DEF OutboxInv
<1>2. \A j \in DOMAIN events : events[j] \in EventRecord /\ EventHonest(events[j], configured)
  BY <1>1, ElementOfSeq DEF OutboxInv
<1>3. \A j \in DOMAIN events :
        /\ events'[j] \in EventRecord
        /\ events'[j].type = events[j].type /\ events'[j].about = events[j].about
        /\ EventHonest(events'[j], configured)
  <2> SUFFICES ASSUME NEW j \in DOMAIN events
               PROVE /\ events'[j] \in EventRecord
                     /\ events'[j].type = events[j].type /\ events'[j].about = events[j].about
                     /\ EventHonest(events'[j], configured)
    OBVIOUS
  <2> PICK c, d : c = events[j] /\ d = events'[j]
    OBVIOUS
  <2>1. d = [c EXCEPT !.phase = IF @ = "done" THEN @ ELSE "gone"]
    BY DEF Abandoned
  <2> QED
    BY <1>2, <2>1 DEF EventRecord, EventHonest
<1>4. events' \in [1 .. Len(events) -> EventRecord] /\ DOMAIN events' = DOMAIN events
  BY <1>1, <1>3 DEF Abandoned
<1>5. events' \in Seq(EventRecord)
  BY <1>1, <1>4, SeqDef
<1> QED
  BY <1>3, <1>4, <1>5 DEF OutboxInv, EventHonest
-----------------------------------------------------------------------------
(* The users and the requests in flight. *)

(* The words GET /kyb/status shows for a rail, and the users of whom the    *)
(* provider has said one that it does not.                                 *)
Showing == {"incomplete", "under_review", "approved", "rejected"}

HiddenBy(cl, q) ==
    \E d \in cl : d.user = q /\ Said(d) \in {"not_started", "suspended", Other}

(* What a request has read and is about to do, against the users' table    *)
(* and the events claimed.                                                 *)
HandlerSound(c, us, cl) ==
    /\ c.pc # "idle" => c.req \in RequestIds
    /\ c.pc \in {"lock", "insert"} => c.email \in Emails
    /\ c.pc \in {"greet", "submit", "record", "rails", "decide"} => us[c.req].email # None
    /\ \/ c.pc = "record"
       \/ c.pc = "submit" /\ ~Reviewable(c.seen)
       => us[c.req].kyb # "not_started" \/ HiddenBy(cl, c.req)
    /\ c.pc = "decide" => c.got # "not_started" \/ HiddenBy(cl, c.req)
    /\ c.pc \in {"decide", "rails"} => c.word \in Showing \/ HiddenBy(cl, c.req)

BooksSound ==
    \A q \in RequestIds :
        /\ users[q].email = None => users[q].kyb = "not_started"
        /\ submissions[q] > 0 => users[q].kyb # "not_started" \/ HiddenBy(claimed, q)
        /\ \A r \in Rails : rails[q][r] # None =>
             rails[q][r] \in Showing \/ HiddenBy(claimed, q)

(* The partner is told by one request, and only by one.                    *)
Greeted ==
    /\ UserIsToldOnce
    /\ \A i \in DOMAIN events, h \in Handlers :
         events[i].type = "user.created" /\ At(h, "greet") => handler[h].req # events[i].about
    /\ \A g, h \in Handlers :
         At(g, "greet") /\ At(h, "greet") /\ handler[g].req = handler[h].req => g = h

KybTypes ==
    /\ users \in [RequestIds -> User]
    /\ rails \in [RequestIds -> [Rails -> Words \cup {None}]]
    /\ submissions \in [RequestIds -> Nat]
    /\ handler \in [Handlers -> Handler]

KybInv ==
    /\ KybTypes /\ OutboxInv
    /\ \A h \in Handlers : HandlerSound(handler[h], users, claimed)
    /\ BooksSound /\ Greeted

(* A user is never taken back, nor is an event that was claimed, nor a     *)
(* status once there is one unless the provider has said so.               *)
UsersMove ==
    /\ users' \in [RequestIds -> User]
    /\ claimed \subseteq claimed'
    /\ \A q \in RequestIds :
         /\ users[q].email # None => users'[q].email # None
         /\ users[q].kyb # "not_started" =>
              users'[q].kyb # "not_started" \/ HiddenBy(claimed', q)
         /\ users'[q].email = None => users'[q].kyb = "not_started"

LEMMA HiddenStays ==
    ASSUME NEW q, NEW cl, NEW more, cl \subseteq more, HiddenBy(cl, q) PROVE HiddenBy(more, q)
BY DEF HiddenBy

LEMMA SameUsers == ASSUME KybInv, users' = users, claimed \subseteq claimed' PROVE UsersMove
BY DEF KybInv, KybTypes, BooksSound, UsersMove

LEMMA IdleSound == Idle \in Handler /\ \A us, cl : HandlerSound(Idle, us, cl)
BY DEF Idle, Handler, KybStatuses, Words, HandlerSound

LEMMA HandlersMove ==
    ASSUME KybInv, UsersMove, NEW h \in Handlers, NEW d \in Handler, HandlerSound(d, users', claimed'),
           handler' = [handler EXCEPT ![h] = d]
    PROVE /\ handler' \in [Handlers -> Handler]
          /\ \A g \in Handlers : HandlerSound(handler'[g], users', claimed')
          /\ handler'[h] = d /\ \A g \in Handlers : g # h => handler'[g] = handler[g]
<1>1. /\ handler' \in [Handlers -> Handler]
      /\ handler'[h] = d /\ \A g \in Handlers : g # h => handler'[g] = handler[g]
  BY DEF KybInv, KybTypes
<1>2. ASSUME NEW g \in Handlers PROVE HandlerSound(handler[g], users', claimed')
  <2> PICK c : c = handler[g]
    OBVIOUS
  <2>1. HandlerSound(c, users, claimed)
    BY DEF KybInv
  <2>2. c.req \in RequestIds /\ HiddenBy(claimed, c.req) => HiddenBy(claimed', c.req)
    BY HiddenStays DEF UsersMove
  <2>3. HandlerSound(c, users', claimed')
    BY <2>1, <2>2 DEF HandlerSound, UsersMove
  <2> QED
    BY <2>3
<1> QED
  BY <1>1, <1>2

LEMMA SameBooks ==
    ASSUME KybInv, UsersMove, rails' = rails, submissions' = submissions
    PROVE BooksSound'
<1>1. \A q \in RequestIds : HiddenBy(claimed, q) => HiddenBy(claimed', q)
  BY HiddenStays DEF UsersMove
<1> QED
  BY <1>1 DEF KybInv, BooksSound, UsersMove

(* No request comes to greet, and no user.created is scheduled.            *)
LEMMA SameGreetings ==
    ASSUME KybInv, UsersMove, OutboxInv',
           \A h \in Handlers : At(h, "greet")' => At(h, "greet") /\ handler'[h].req = handler[h].req,
           \A i \in DOMAIN events' : events'[i].type = "user.created" =>
             /\ i \in DOMAIN events /\ events[i].type = "user.created"
             /\ events'[i].about = events[i].about
    PROVE Greeted'
<1>1. \A i \in DOMAIN events : events[i].about \in RequestIds
  <2>1. \A i \in DOMAIN events : events[i] \in EventRecord
    BY ElementOfSeq, LenProperties DEF KybInv, OutboxInv
  <2> QED
    BY <2>1 DEF EventRecord
<1>2. Greeted
  BY DEF KybInv
<1>3. UserIsToldOnce'
  BY <1>1, <1>2 DEF Greeted, UserIsToldOnce, Exists, UsersMove
<1> QED
  BY <1>2, <1>3 DEF Greeted

LEMMA MovesKeep ==
    ASSUME KybInv, UsersMove, NEW h \in Handlers, NEW d \in Handler, HandlerSound(d, users', claimed'),
           handler' = [handler EXCEPT ![h] = d], d.pc # "greet",
           rails' = rails, submissions' = submissions, events' = events, configured' = configured
    PROVE KybInv'
<1>1. /\ handler' \in [Handlers -> Handler]
      /\ \A g \in Handlers : HandlerSound(handler'[g], users', claimed')
      /\ handler'[h] = d /\ \A g \in Handlers : g # h => handler'[g] = handler[g]
  BY HandlersMove
<1>2. OutboxInv'
  BY DEF KybInv, OutboxInv
<1>3. \A g \in Handlers : At(g, "greet")' => At(g, "greet") /\ handler'[g].req = handler[g].req
  BY <1>1 DEF At
<1>4. Greeted' /\ BooksSound'
  BY <1>2, <1>3, SameGreetings, SameBooks
<1> QED
  BY <1>1, <1>2, <1>4 DEF KybInv, KybTypes, UsersMove

(* Requests begin, and look up. *)
LEMMA BeginKeeps ==
    ASSUME KybInv, NEW h \in Handlers,
           \/ \E q \in RequestIds, e \in Emails : SignUp(h, q, e)
           \/ \E q \in RequestIds, rs \in SUBSET Rails : Submit(h, q, rs)
           \/ \E d \in Decisions : Decide(h, d)
           \/ LookUp(h) \/ Raced(h)
    PROVE KybInv'
<1>1. /\ users' = users /\ rails' = rails /\ submissions' = submissions
      /\ events' = events /\ configured' = configured /\ claimed \subseteq claimed'
  BY DEF SignUp, Submit, Decide, LookUp, Raced, kybVars
<1>2. UsersMove
  BY <1>1, SameUsers
<1>3. ASSUME NEW d \in Handler, HandlerSound(d, users, claimed'), d.pc # "greet",
             handler' = [handler EXCEPT ![h] = d]
      PROVE KybInv'
  BY <1>1, <1>2, <1>3, MovesKeep
<1>4. ASSUME NEW q \in RequestIds, NEW e \in Emails, SignUp(h, q, e) PROVE KybInv'
  <2> PICK d : d = [Idle EXCEPT !.pc = "lock", !.req = q, !.email = e]
    OBVIOUS
  <2>1. d \in Handler /\ HandlerSound(d, users, claimed') /\ d.pc # "greet"
    BY DEF Idle, Handler, KybStatuses, Words, HandlerSound
  <2> QED
    BY <1>3, <1>4, <2>1 DEF SignUp, Run
<1>5. ASSUME NEW q \in RequestIds, NEW rs \in SUBSET Rails, Submit(h, q, rs) PROVE KybInv'
  <2>0. PICK d : d = [Idle EXCEPT !.pc = "submit", !.req = q, !.seen = users[q].kyb, !.left = rs]
    OBVIOUS
  <2>1. users[q].kyb \in KybStatuses /\ users[q].email # None
    BY <1>5 DEF Submit, Exists, KybInv, KybTypes, User
  <2>2. d \in Handler /\ d.pc = "submit" /\ d.req = q /\ d.seen = users[q].kyb
    BY <2>0, <2>1 DEF Idle, Handler, KybStatuses, Words
  <2>3. HandlerSound(d, users, claimed')
    BY <2>1, <2>2 DEF HandlerSound, Reviewable
  <2> QED
    BY <1>3, <1>5, <2>0, <2>2, <2>3 DEF Submit, Run
<1>6. ASSUME NEW p \in Decisions, Decide(h, p) PROVE KybInv'
  <2>1. /\ p.user \in RequestIds /\ p.rails \subseteq Rails
        /\ p.type \in EventTypes /\ p.status \in Words \cup {None}
    BY KybAssumption
  <2> PICK s : s = Said(p)
    OBVIOUS
  <2> PICK w : w = RailWord(p)
    OBVIOUS
  <2>2. /\ s \in Words \cup {None} /\ w \in Words
        /\ w \notin Showing => s \in {"not_started", "suspended", Other}
    BY <2>1 DEF Said, RailWord, Words, KybStatuses, Showing, EventTypes, None, Other
  <2>3. s \in {"not_started", "suspended", Other} => HiddenBy(claimed', p.user)
    BY <1>6 DEF Decide, HiddenBy
  <2>4. CASE ~Exists(p.user)
    <3>1. handler' = [handler EXCEPT ![h] = handler[h]] /\ handler[h] \in Handler
          /\ handler[h].pc = "idle"
      BY <1>6, <2>4 DEF Decide, At, KybInv, KybTypes
    <3>2. HandlerSound(handler[h], users, claimed')
      BY <3>1 DEF HandlerSound
    <3> QED
      BY <1>3, <3>1, <3>2
  <2>5. CASE Exists(p.user)
    <3>1. users[p.user].kyb \in KybStatuses /\ users[p.user].email # None
      BY <2>1, <2>5 DEF Exists, KybInv, KybTypes, User
    <3> PICK c : c = [Idle EXCEPT !.req = p.user, !.seen = users[p.user].kyb,
                                  !.word = w, !.left = p.rails]
      OBVIOUS
    <3>2. c \in Handler /\ c.req = p.user /\ c.word = w
      BY <2>1, <2>2, <3>1 DEF Idle, Handler, KybStatuses, Words
    <3>3. CASE s = None
      <4>0. PICK d : d = [c EXCEPT !.pc = "rails"]
        OBVIOUS
      <4>1. d \in Handler /\ d.pc = "rails" /\ d.req = p.user /\ d.word = w
        BY <3>2, <4>0 DEF Handler
      <4>2. HandlerSound(d, users, claimed')
        BY <2>1, <2>2, <2>3, <3>1, <4>1 DEF HandlerSound
      <4>3. handler' = [handler EXCEPT ![h] = d]
        BY <1>6, <2>5, <3>3, <4>0 DEF Decide, Run
      <4> QED
        BY <1>3, <4>1, <4>2, <4>3
    <3>4. CASE s # None
      <4>0. PICK d : d = [c EXCEPT !.pc = "decide", !.got = ToKybStatus(s)]
        OBVIOUS
      <4>1. /\ ToKybStatus(s) \in KybStatuses
            /\ ToKybStatus(s) = "not_started" => s = "not_started"
        BY DEF ToKybStatus, KybStatuses
      <4>2. /\ d \in Handler /\ d.pc = "decide" /\ d.req = p.user /\ d.word = w
            /\ d.got = ToKybStatus(s)
        BY <3>2, <4>0, <4>1 DEF Handler
      <4>3. HandlerSound(d, users, claimed')
        BY <2>1, <2>2, <2>3, <3>1, <4>1, <4>2 DEF HandlerSound
      <4>4. handler' = [handler EXCEPT ![h] = d]
        BY <1>6, <2>5, <3>4, <4>0 DEF Decide, Run
      <4> QED
        BY <1>3, <4>2, <4>3, <4>4
    <3> QED
      BY <3>3, <3>4
  <2> QED
    BY <2>4, <2>5
<1>7. CASE LookUp(h) \/ Raced(h)
  <2>1. CASE Finish(h)
    BY <1>3, <2>1, IdleSound DEF Finish, Idle
  <2>2. CASE LookUp(h) /\ Go(h, "insert")
    <3> PICK c : c = handler[h]
      OBVIOUS
    <3>0. PICK d : d = [c EXCEPT !.pc = "insert"]
      OBVIOUS
    <3>1. c \in Handler /\ c.pc = "lock" /\ HandlerSound(c, users, claimed)
      BY <2>2 DEF LookUp, At, KybInv, KybTypes
    <3>2. d \in Handler /\ d.pc = "insert" /\ d.req = c.req /\ d.email = c.email
      BY <3>0, <3>1 DEF Handler
    <3>3. HandlerSound(d, users, claimed')
      BY <3>1, <3>2 DEF HandlerSound
    <3>4. handler' = [handler EXCEPT ![h] = d]
      BY <2>2, <3>0 DEF Go
    <3> QED
      BY <1>3, <3>2, <3>3, <3>4
  <2> QED
    BY <1>7, <2>1, <2>2 DEF LookUp, Raced
<1> QED
  BY <1>4, <1>5, <1>6, <1>7

LEMMA InsertKeeps ==
    ASSUME KybInv, NEW h \in Handlers, Insert(h) PROVE KybInv'
<1>0. PICK c : c = handler[h]
  OBVIOUS
<1>1. c \in Handler /\ c.pc = "insert" /\ HandlerSound(c, users, claimed)
  BY <1>0 DEF Insert, At, KybInv, KybTypes
<1>2. c.req \in RequestIds /\ c.email \in Emails /\ c.email # None
  BY <1>1, KybAssumption DEF HandlerSound, None
<1>3. /\ rails' = rails /\ submissions' = submissions /\ events' = events
      /\ configured' = configured /\ claimed' = claimed
  BY DEF Insert, kybVars
<1>4. CASE users' = users /\ Go(h, "raced")
  <2>0. PICK d : d = [c EXCEPT !.pc = "raced"]
    OBVIOUS
  <2>1. d \in Handler /\ d.pc = "raced" /\ d.req = c.req
    BY <1>1, <2>0 DEF Handler
  <2>2. HandlerSound(d, users, claimed)
    BY <1>2, <2>1 DEF HandlerSound
  <2>3. handler' = [handler EXCEPT ![h] = d]
    BY <1>0, <1>4, <2>0 DEF Go
  <2> QED
    BY <1>3, <1>4, <2>1, <2>2, <2>3, SameUsers, MovesKeep
<1>5. CASE /\ ~Exists(c.req) /\ Go(h, "greet")
           /\ users' = [users EXCEPT ![c.req] = [NoUser EXCEPT !.email = c.email]]
  <2>0. PICK d : d = [c EXCEPT !.pc = "greet"]
    OBVIOUS
  <2>1. d \in Handler /\ d.pc = "greet" /\ d.req = c.req
    BY <1>1, <2>0 DEF Handler
  <2>2. PICK u : u = [NoUser EXCEPT !.email = c.email]
    OBVIOUS
  <2>3. u \in User /\ u.email # None /\ u.kyb = "not_started"
    BY <1>2, <2>2 DEF NoUser, User, KybStatuses
  <2>4. users' \in [RequestIds -> User] /\ users'[c.req] = u
        /\ \A q \in RequestIds : q # c.req => users'[q] = users[q]
    BY <1>2, <1>5, <2>2, <2>3 DEF KybInv, KybTypes
  <2>5. users[c.req].email = None /\ users[c.req].kyb = "not_started"
    BY <1>2, <1>5 DEF Exists, KybInv, BooksSound
  <2>6. UsersMove
    BY <1>3, <2>3, <2>4, <2>5 DEF UsersMove, KybInv, BooksSound
  <2>7. HandlerSound(d, users', claimed')
    BY <1>2, <2>1, <2>3, <2>4 DEF HandlerSound
  <2>8. handler' = [handler EXCEPT ![h] = d]
    BY <1>0, <1>5, <2>0 DEF Go
  <2>9. /\ handler' \in [Handlers -> Handler]
        /\ \A g \in Handlers : HandlerSound(handler'[g], users', claimed')
        /\ handler'[h] = d /\ \A g \in Handlers : g # h => handler'[g] = handler[g]
    BY <2>1, <2>6, <2>7, <2>8, HandlersMove
  <2>10. OutboxInv' /\ BooksSound'
    BY <1>3, <2>6, SameBooks DEF KybInv, OutboxInv
  <2>11. \A g \in Handlers : At(g, "greet") => handler[g].req # c.req
    BY <2>5 DEF KybInv, HandlerSound, At
  <2>12. \A i \in DOMAIN events : events[i].type = "user.created" => events[i].about # c.req
    BY <1>5 DEF KybInv, Greeted, UserIsToldOnce
  <2>13. \A g \in Handlers : At(g, "greet")' =>
           \/ g = h /\ handler'[g].req = c.req
           \/ g # h /\ At(g, "greet") /\ handler'[g].req = handler[g].req
    BY <2>1, <2>9 DEF At
  <2>14. \A i \in DOMAIN events : events[i].about \in RequestIds
    <3>1. \A i \in DOMAIN events : events[i] \in EventRecord
      BY ElementOfSeq, LenProperties DEF KybInv, OutboxInv
    <3> QED
      BY <3>1 DEF EventRecord
  <2>15. UserIsToldOnce'
    BY <1>3, <2>6, <2>14 DEF KybInv, Greeted, UserIsToldOnce, Exists, UsersMove
  <2>16. \A i \in DOMAIN events, g \in Handlers :
           events[i].type = "user.created" /\ At(g, "greet")' => handler'[g].req # events[i].about
    BY <2>12, <2>13 DEF KybInv, Greeted
  <2>17. \A f, g \in Handlers :
           At(f, "greet")' /\ At(g, "greet")' /\ handler'[f].req = handler'[g].req => f = g
    BY <2>11, <2>13 DEF KybInv, Greeted
  <2>18. Greeted'
    BY <1>3, <2>15, <2>16, <2>17 DEF Greeted
  <2> QED
    BY <1>3, <2>4, <2>9, <2>10, <2>18 DEF KybInv, KybTypes
<1> QED
  BY <1>0, <1>4, <1>5 DEF Insert

LEMMA GreetKeeps ==
    ASSUME KybInv, NEW h \in Handlers, Greet(h) PROVE KybInv'
<1>0. PICK q : q = handler[h].req
  OBVIOUS
<1>1. /\ q \in RequestIds /\ Exists(q) /\ At(h, "greet")
      /\ Schedule("user.created", q, "not_started")
  BY <1>0 DEF Greet, At, KybInv, HandlerSound, Exists
<1>2. /\ rails' = rails /\ submissions' = submissions /\ users' = users
      /\ configured' = configured /\ handler' = [handler EXCEPT ![h] = Idle]
      /\ claimed' = claimed
  BY DEF Greet, kybVars, Finish
<1>3. UsersMove
  BY <1>2, SameUsers
<1>4. /\ OutboxInv'
      /\ DOMAIN events' = DOMAIN events \cup {Len(events) + 1}
      /\ Len(events) + 1 \notin DOMAIN events
      /\ events'[Len(events) + 1].type = "user.created"
      /\ events'[Len(events) + 1].about = q
      /\ \A j \in DOMAIN events : events'[j] = events[j]
  BY <1>1, <1>2, OneScheduled DEF KybInv, KybStatuses
<1>5. /\ handler' \in [Handlers -> Handler]
      /\ \A g \in Handlers : HandlerSound(handler'[g], users', claimed')
      /\ handler'[h] = Idle /\ \A g \in Handlers : g # h => handler'[g] = handler[g]
  BY <1>2, <1>3, IdleSound, HandlersMove
<1>6. \A g \in Handlers : At(g, "greet")' =>
        g # h /\ At(g, "greet") /\ handler'[g].req = handler[g].req /\ handler[g].req # q
  BY <1>0, <1>1, <1>5 DEF At, Idle, KybInv, Greeted
<1>7. \A i \in DOMAIN events : events[i].type = "user.created" => events[i].about # q
  BY <1>0, <1>1 DEF KybInv, Greeted
<1>8. UserIsToldOnce'
  <2>1. \A i \in DOMAIN events : events[i].type = "user.created" => Exists(events[i].about)
    BY DEF KybInv, Greeted, UserIsToldOnce
  <2>2. \A i, j \in DOMAIN events :
          events[i].type = "user.created" /\ events[j].type = "user.created"
          /\ events[j].about = events[i].about => j = i
    BY DEF KybInv, Greeted, UserIsToldOnce
  <2>3. \A i \in DOMAIN events' : events'[i].type = "user.created" => Exists(events'[i].about)
    BY <1>1, <1>4, <2>1
  <2>4. \A i, j \in DOMAIN events' :
          events'[i].type = "user.created" /\ events'[j].type = "user.created"
          /\ events'[j].about = events'[i].about => j = i
    BY <1>4, <1>7, <2>2
  <2> QED
    BY <1>2, <2>3, <2>4 DEF UserIsToldOnce, Exists
<1>9. \A i \in DOMAIN events', g \in Handlers :
        events'[i].type = "user.created" /\ At(g, "greet")' => handler'[g].req # events'[i].about
  BY <1>4, <1>6 DEF KybInv, Greeted
<1>10. Greeted'
  BY <1>6, <1>8, <1>9 DEF KybInv, Greeted
<1> QED
  BY <1>2, <1>3, <1>4, <1>5, <1>10, SameBooks DEF KybInv, KybTypes

(* A status is written, and told or not. *)
LEMMA StatusKeeps ==
    ASSUME KybInv, NEW h \in Handlers, NEW c, c = handler[h],
           c.pc \in {"submit", "decide"}, NEW s \in KybStatuses, NEW pc \in {"record", "rails"},
           s # "not_started" \/ HiddenBy(claimed, c.req),
           pc = "rails" => c.word \in Showing \/ HiddenBy(claimed, c.req),
           handler' = [handler EXCEPT ![h].pc = pc],
           \/ users' = [users EXCEPT ![c.req].kyb = s]
           \/ /\ users' = users
              /\ users[c.req].kyb # "not_started" \/ HiddenBy(claimed, c.req),
           Schedule("kyb.status_updated", c.req, s) \/ events' = events,
           rails' = rails, submissions' = submissions, configured' = configured,
           claimed' = claimed
    PROVE KybInv'
<1>1. c \in Handler /\ HandlerSound(c, users, claimed)
  BY DEF KybInv, KybTypes
<1>2. c.req \in RequestIds /\ users[c.req].email # None
  BY <1>1 DEF HandlerSound
<1>3. PICK d : d = [c EXCEPT !.pc = pc]
  OBVIOUS
<1>4. d \in Handler /\ d.pc = pc /\ d.req = c.req /\ d.word = c.word
  BY <1>1, <1>3 DEF Handler
<1>5. handler' = [handler EXCEPT ![h] = d]
  BY <1>3
<1>6. /\ users' \in [RequestIds -> User]
      /\ users'[c.req].email = users[c.req].email
      /\ users'[c.req].kyb # "not_started" \/ HiddenBy(claimed', c.req)
      /\ \A q \in RequestIds : q # c.req => users'[q] = users[q]
  <2>1. users[c.req] \in User
    BY <1>2 DEF KybInv, KybTypes
  <2>2. CASE /\ users' = users
             /\ users[c.req].kyb # "not_started" \/ HiddenBy(claimed, c.req)
    BY <1>2, <2>2 DEF KybInv, KybTypes
  <2>3. CASE users' = [users EXCEPT ![c.req].kyb = s]
    <3> PICK u : u = [users[c.req] EXCEPT !.kyb = s]
      OBVIOUS
    <3>1. u \in User /\ u.email = users[c.req].email /\ u.kyb = s
      BY <2>1 DEF User
    <3>2. users' = [users EXCEPT ![c.req] = u]
      BY <2>3
    <3> QED
      BY <1>2, <3>1, <3>2 DEF KybInv, KybTypes
  <2> QED
    BY <2>2, <2>3
<1>7. UsersMove
  BY <1>2, <1>6 DEF UsersMove, KybInv, BooksSound
<1>8. HandlerSound(d, users', claimed')
  BY <1>2, <1>4, <1>6 DEF HandlerSound
<1>9. /\ handler' \in [Handlers -> Handler]
      /\ \A g \in Handlers : HandlerSound(handler'[g], users', claimed')
      /\ handler'[h] = d /\ \A g \in Handlers : g # h => handler'[g] = handler[g]
  BY <1>4, <1>5, <1>7, <1>8, HandlersMove
<1>10. /\ OutboxInv'
       /\ \A i \in DOMAIN events' : events'[i].type = "user.created" =>
            /\ i \in DOMAIN events /\ events[i].type = "user.created"
            /\ events'[i].about = events[i].about
  <2>1. CASE events' = events
    BY <2>1 DEF KybInv, OutboxInv
  <2>2. CASE Schedule("kyb.status_updated", c.req, s)
    <3>2. /\ OutboxInv'
          /\ DOMAIN events' = DOMAIN events \cup {Len(events) + 1}
          /\ events'[Len(events) + 1].type = "kyb.status_updated"
          /\ \A j \in DOMAIN events : events'[j] = events[j]
      BY <1>2, <2>2, OneScheduled DEF KybInv
    <3> QED
      BY <3>2
  <2> QED
    BY <2>1, <2>2
<1>11. \A g \in Handlers : At(g, "greet")' => At(g, "greet") /\ handler'[g].req = handler[g].req
  BY <1>4, <1>9 DEF At
<1>12. Greeted' /\ BooksSound'
  BY <1>7, <1>10, <1>11, SameGreetings, SameBooks
<1> QED
  BY <1>6, <1>9, <1>10, <1>12 DEF KybInv, KybTypes

LEMMA WritesKeep ==
    ASSUME KybInv, NEW h \in Handlers, WriteReview(h) \/ WriteDecision(h) PROVE KybInv'
<1>0. PICK c : c = handler[h]
  OBVIOUS
<1>1. c \in Handler /\ HandlerSound(c, users, claimed) /\ h \in DOMAIN handler
  BY <1>0 DEF KybInv, KybTypes
<1>2. rails' = rails /\ submissions' = submissions /\ configured' = configured
      /\ claimed' = claimed
  BY DEF WriteReview, WriteDecision, kybVars
<1>3. CASE WriteReview(h)
  <2>1. c.pc = "submit" /\ handler' = [handler EXCEPT ![h].pc = "record"]
    BY <1>0, <1>3 DEF WriteReview, At, Go
  <2>2. CASE Reviewable(c.seen)
    BY <1>0, <1>2, <1>3, <2>1, <2>2, StatusKeeps DEF WriteReview, KybStatuses
  <2>3. CASE ~Reviewable(c.seen)
    <3>1. users[c.req].kyb # "not_started" \/ HiddenBy(claimed, c.req)
      BY <1>1, <2>1, <2>3 DEF HandlerSound
    <3>2. "under_review" \in KybStatuses
      BY DEF KybStatuses
    <3> QED
      BY <1>0, <1>2, <1>3, <2>1, <2>3, <3>1, <3>2, StatusKeeps DEF WriteReview
  <2> QED
    BY <2>2, <2>3
<1>4. CASE WriteDecision(h)
  <2>1. c.pc = "decide" /\ handler' = [handler EXCEPT ![h].pc = "rails"]
    BY <1>0, <1>4 DEF WriteDecision, At, Go
  <2>2. /\ c.got \in KybStatuses
        /\ c.got # "not_started" \/ HiddenBy(claimed, c.req)
        /\ c.word \in Showing \/ HiddenBy(claimed, c.req)
    BY <1>1, <2>1 DEF Handler, HandlerSound
  <2> QED
    BY <1>0, <1>2, <1>4, <2>1, <2>2, StatusKeeps DEF WriteDecision
<1> QED
  BY <1>3, <1>4

(* The submission and the rails are stored. *)
LEMMA BooksMove ==
    ASSUME KybInv, NEW h \in Handlers, NEW d \in Handler, HandlerSound(d, users, claimed),
           handler' = [handler EXCEPT ![h] = d], d.pc # "greet",
           users' = users, events' = events, configured' = configured, claimed' = claimed,
           submissions' \in [RequestIds -> Nat],
           rails' \in [RequestIds -> [Rails -> Words \cup {None}]], BooksSound'
    PROVE KybInv'
<1>1. UsersMove
  BY SameUsers
<1>2. /\ handler' \in [Handlers -> Handler]
      /\ \A g \in Handlers : HandlerSound(handler'[g], users', claimed')
      /\ handler'[h] = d /\ \A g \in Handlers : g # h => handler'[g] = handler[g]
  BY <1>1, HandlersMove
<1>3. OutboxInv'
  BY DEF KybInv, OutboxInv
<1>4. \A g \in Handlers : At(g, "greet")' => At(g, "greet") /\ handler'[g].req = handler[g].req
  BY <1>2 DEF At
<1>5. Greeted'
  BY <1>1, <1>3, <1>4, SameGreetings
<1> QED
  BY <1>1, <1>2, <1>3, <1>5 DEF KybInv, KybTypes, UsersMove

LEMMA StoresKeep ==
    ASSUME KybInv, NEW h \in Handlers, Record(h) \/ StoreRail(h) PROVE KybInv'
<1>0. PICK c : c = handler[h]
  OBVIOUS
<1>1. c \in Handler /\ HandlerSound(c, users, claimed) /\ h \in DOMAIN handler
  BY <1>0 DEF KybInv, KybTypes
<1>2. users' = users /\ events' = events /\ configured' = configured /\ claimed' = claimed
  BY DEF Record, StoreRail
<1>3. c.pc \in {"record", "rails"}
  BY <1>0 DEF Record, StoreRail, At
<1>4. /\ c.req \in RequestIds /\ users[c.req].email # None
      /\ c.pc = "record" => users[c.req].kyb # "not_started" \/ HiddenBy(claimed, c.req)
      /\ c.pc = "rails" => c.word \in Showing \/ HiddenBy(claimed, c.req)
  BY <1>1, <1>3 DEF HandlerSound
<1>5. CASE Record(h)
  <2>0. PICK d : d = [c EXCEPT !.pc = "rails", !.word = "under_review"]
    OBVIOUS
  <2>1. d \in Handler /\ d.pc = "rails" /\ d.req = c.req /\ d.word = "under_review"
    BY <1>1, <2>0 DEF Handler, Words, KybStatuses
  <2>2. HandlerSound(d, users, claimed)
    BY <1>4, <2>1 DEF HandlerSound, Showing
  <2>3. handler' = [handler EXCEPT ![h] = d]
    BY <1>0, <1>5, <2>0 DEF Record
  <2>4. rails' = rails /\ submissions' = [submissions EXCEPT ![c.req] = @ + 1]
    BY <1>0, <1>5 DEF Record
  <2>5. submissions' \in [RequestIds -> Nat]
        /\ \A q \in RequestIds : q # c.req => submissions'[q] = submissions[q]
    BY <1>4, <2>4 DEF KybInv, KybTypes
  <2>6. BooksSound'
    BY <1>0, <1>2, <1>4, <1>5, <2>4, <2>5 DEF Record, At, KybInv, BooksSound
  <2> QED
    BY <1>2, <2>1, <2>2, <2>3, <2>4, <2>5, <2>6, BooksMove DEF KybInv, KybTypes
<1>6. CASE StoreRail(h)
  <2>1. c.pc = "rails" /\ submissions' = submissions
    BY <1>0, <1>6 DEF StoreRail, At
  <2>2. CASE Finish(h) /\ UNCHANGED rails
    <3>1. BooksSound'
      BY <1>2, <2>1, <2>2 DEF KybInv, BooksSound
    <3> QED
      BY <1>2, <2>1, <2>2, <3>1, IdleSound, BooksMove DEF Finish, Idle, KybInv, KybTypes
  <2>3. ASSUME NEW r \in c.left, rails' = [rails EXCEPT ![c.req][r] = c.word],
               handler' = [handler EXCEPT ![h].left = @ \ {r}]
        PROVE KybInv'
    <3>0. PICK d : d = [c EXCEPT !.left = @ \ {r}]
      OBVIOUS
    <3>1. /\ d \in Handler /\ d.pc = "rails" /\ d.req = c.req /\ d.word = c.word
      BY <1>1, <2>1, <3>0 DEF Handler
    <3>2. HandlerSound(d, users, claimed)
      BY <1>4, <2>1, <3>1 DEF HandlerSound
    <3>3. handler' = [handler EXCEPT ![h] = d]
      BY <1>0, <1>1, <2>3, <3>0
    <3>4. r \in Rails /\ c.word \in Words
      BY <1>1 DEF Handler
    <3>5. rails' \in [RequestIds -> [Rails -> Words \cup {None}]]
          /\ \A q \in RequestIds, s \in Rails :
               rails'[q][s] = rails[q][s] \/ (q = c.req /\ rails'[q][s] = c.word)
      BY <1>4, <2>3, <3>4 DEF KybInv, KybTypes
    <3>6. BooksSound'
      BY <1>2, <1>4, <2>1, <3>5 DEF KybInv, BooksSound
    <3> QED
      BY <1>2, <2>1, <3>1, <3>2, <3>3, <3>5, <3>6, BooksMove DEF KybInv, KybTypes
  <2> QED
    BY <1>0, <1>6, <2>2, <2>3 DEF StoreRail
<1> QED
  BY <1>5, <1>6

(* The outbox, a crash, and what nobody is told of. *)
LEMMA OutboxKeeps ==
    ASSUME KybInv, users' = users, claimed' = claimed, rails' = rails, submissions' = submissions,
           handler' = handler \/ handler' = [h \in Handlers |-> Idle],
           OutboxInv', DOMAIN events' = DOMAIN events,
           \A j \in DOMAIN events :
             events'[j].type = events[j].type /\ events'[j].about = events[j].about
    PROVE KybInv'
<1>1. UsersMove
  BY SameUsers
<1>2. /\ handler' \in [Handlers -> Handler]
      /\ \A g \in Handlers : HandlerSound(handler'[g], users', claimed')
      /\ \A g \in Handlers : At(g, "greet")' => At(g, "greet") /\ handler'[g].req = handler[g].req
  <2>1. CASE handler' = handler
    BY <2>1 DEF KybInv, KybTypes, At
  <2>2. CASE handler' = [h \in Handlers |-> Idle]
    BY <2>2, IdleSound DEF At, Idle
  <2> QED
    BY <2>1, <2>2
<1>3. Greeted' /\ BooksSound'
  BY <1>1, <1>2, SameGreetings, SameBooks
<1> QED
  BY <1>1, <1>2, <1>3 DEF KybInv, KybTypes, UsersMove

LEMMA KybStep == KybInv /\ [Next]_vars => KybInv'
<1> SUFFICES ASSUME KybInv, [Next]_vars PROVE KybInv'
  OBVIOUS
<1>1. ASSUME NEW h \in Handlers, Serve(h) PROVE KybInv'
  BY <1>1, BeginKeeps, InsertKeeps, GreetKeeps, WritesKeep, StoresKeep DEF Serve
<1>2. ASSUME NEW h \in Handlers,
             \/ \E q \in RequestIds, e \in Emails : SignUp(h, q, e)
             \/ \E q \in RequestIds, rs \in SUBSET Rails \ {{}} : Submit(h, q, rs)
             \/ \E d \in Decisions : Decide(h, d)
      PROVE KybInv'
  BY <1>2, BeginKeeps
<1>3. CASE (\E q \in RequestIds : Draft(q) \/ AttachDocuments(q)) \/ UNCHANGED vars
  <2>1. /\ users' = users /\ rails' = rails /\ submissions' = submissions
        /\ handler' = handler /\ events' = events /\ configured' = configured
        /\ claimed' = claimed
    BY <1>3 DEF Draft, AttachDocuments, Stored, vars
  <2>2. OutboxInv'
    BY <2>1 DEF KybInv, OutboxInv
  <2> QED
    BY <2>1, <2>2, OutboxKeeps
<1>4. ASSUME NEW i \in DOMAIN events, Outbox(i) PROVE KybInv'
  <2>1. users' = users /\ rails' = rails /\ submissions' = submissions /\ handler' = handler
        /\ claimed' = claimed /\ Deliver(i)
    BY <1>4 DEF Outbox, kybVars
  <2> QED
    BY <2>1, DeliverKeeps, OutboxKeeps DEF KybInv
<1>5. CASE Crash
  <2>1. /\ users' = users /\ rails' = rails /\ submissions' = submissions
        /\ handler' = [h \in Handlers |-> Idle] /\ events' = Abandoned
        /\ configured' = configured /\ claimed' = claimed
    BY <1>5 DEF Crash, kybVars
  <2> QED
    BY <2>1, AbandonedKeeps, OutboxKeeps DEF KybInv
<1> QED
  BY <1>1, <1>2, <1>3, <1>4, <1>5 DEF Next

LEMMA KybInvHolds == Spec => []KybInv
<1>1. Init => KybInv
  <2> SUFFICES ASSUME Init PROVE KybInv
    OBVIOUS
  <2>1. events = << >> /\ << >> \in Seq(EventRecord) /\ DOMAIN events = {}
        /\ configured \in BOOLEAN
    BY EmptySeq DEF Init, OutboxInit
  <2>2. OutboxInv /\ UserIsToldOnce
    BY <2>1 DEF OutboxInv, UserIsToldOnce
  <2>3. KybTypes
    BY IdleSound DEF Init, KybTypes, NoUser, User, KybStatuses
  <2>4. \A h \in Handlers : handler[h] = Idle /\ HandlerSound(handler[h], users, claimed)
    BY IdleSound DEF Init
  <2>5. Greeted
    BY <2>1, <2>2, <2>4 DEF Greeted, At, Idle
  <2>6. BooksSound
    BY DEF Init, BooksSound, NoUser
  <2> QED
    BY <2>2, <2>3, <2>4, <2>5, <2>6 DEF KybInv
<1> QED
  BY <1>1, KybStep, PTL DEF Spec

(* UserIsToldOnce (Kyb): a partner is told of a user once, and only of     *)
(* users that exist, however many requests race to create the user and     *)
(* wherever a process dies.                                                *)
THEOREM NewUserIsToldOnce == Spec => []UserIsToldOnce
<1>1. KybInv => UserIsToldOnce
  BY DEF KybInv, Greeted
<1> QED
  BY <1>1, KybInvHolds, PTL

(* SubmissionShows (Kyb): GET /kyb/status never says that a business has   *)
(* not applied once a submission or a rail of it is on record, whichever   *)
(* of a submission and the provider's events wrote last, whatever status   *)
(* and rails those carry and wherever a process died, unless the provider  *)
(* itself sent not_started, suspended or a word that is no status.         *)
THEOREM SubmissionsShow == Spec => []SubmissionShows
<1>1. ASSUME KybInv PROVE SubmissionShows
  <2> SUFFICES ASSUME NEW q \in RequestIds, ~HiddenBy(claimed, q),
                      submissions[q] > 0 \/ (\E r \in Rails : rails[q][r] # None)
               PROVE OverallStatus(q) # "not_started"
    BY DEF SubmissionShows, Hidden, HiddenBy
  <2>0. PICK ss : ss = RailStatuses(q)
    OBVIOUS
  <2>1. ss \subseteq Showing
    BY <1>1, <2>0 DEF KybInv, BooksSound, RailStatuses
  <2>2. ss = {} => users[q].kyb # "not_started"
    BY <1>1, <2>0 DEF KybInv, BooksSound, RailStatuses
  <2> QED
    BY <2>0, <2>1, <2>2 DEF OverallStatus, Showing
<1> QED
  BY <1>1, KybInvHolds, PTL

(* LogIsHonest (PartnerWebhooks): an event logged as delivered was         *)
(* received, one logged as failed was tried every time it could be, and    *)
(* one logged as skipped was never received.                               *)
THEOREM OutboundLogIsHonest == Spec => []LogIsHonest
<1>1. KybInv => LogIsHonest
  BY DEF KybInv, OutboxInv, EventHonest, LogIsHonest, Outcomes
<1> QED
  BY <1>1, KybInvHolds, PTL
================================================================================
