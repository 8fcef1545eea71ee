-------------------------- MODULE PartnerWebhooks --------------------------
(***************************************************************************)
(* The events the API tells a partner.  A handler calls                     *)
(* schedulePartnerWebhook and does not wait: an event is stored as a        *)
(* `pending` row of the outbound log, then posted up to three times by the  *)
(* process that stored it, and at last the row is given the outcome.        *)
(* Nothing picks up a row again, so an event dies with its process.         *)
(***************************************************************************)
EXTENDS Naturals, Sequences

CONSTANTS
    Followed,     \* bound: the events, by their order, whose delivery is followed
    MaxAttempts   \* MAX_ATTEMPTS: 3 in the code

ASSUME AttemptsAssumption == MaxAttempts \in Nat \ {0}

VARIABLES
    events,      \* the events, in the order they were scheduled
    configured   \* whether PARTNER_WEBHOOK_URL and PARTNER_WEBHOOK_SECRET are set

outboxVars == <<events, configured>>

Outcomes == {"delivered", "failed", "skipped"}

\* `phase` is where the process is with the event (gone: the process died),
\* `result` what it will store, `log` the outcome of the outbound row and
\* `received` whether the partner has been posted the event.
Delivery ==
    [phase : {"scheduled", "sending", "answered", "done", "gone"},
     log : {"none", "pending"} \cup Outcomes,
     result : {"none"} \cup Outcomes,
     attempts : 0 .. MaxAttempts,
     received : BOOLEAN]

OutboxInit ==
    /\ events = << >>
    /\ configured \in BOOLEAN

\* What a handler that schedules an event makes of the events.
Scheduled(type, about, value) ==
    Append(events, [type |-> type, about |-> about, value |-> value,
                    phase |-> "scheduled", log |-> "none", result |-> "none",
                    attempts |-> 0, received |-> FALSE])

Schedule(type, about, value) == events' = Scheduled(type, about, value)

Step(i, phase) ==
    /\ i \in Followed \cap DOMAIN events
    /\ events[i].phase = phase
    /\ UNCHANGED configured

\* createPending: whether or not the row could be stored, the event is sent.
Store(i) ==
    /\ Step(i, "scheduled")
    /\ \E log \in {"pending", "none"} :
         events' = [events EXCEPT ![i].phase = "sending", ![i].log = log]

\* Without a URL or a secret nothing is posted.
Skip(i) ==
    /\ Step(i, "sending")
    /\ ~configured
    /\ events' = [events EXCEPT ![i].phase = "answered", ![i].result = "skipped"]

\* (Mutant of Failed: gives the event up as delivered.)
DeliveredAnyway(e) == [e EXCEPT !.phase = "answered", !.result = "delivered"]

\* What becomes of an event after MAX_ATTEMPTS posts without a 2xx.
Failed(e) == [e EXCEPT !.phase = "answered", !.result = "failed"]

\* One post.  It is answered by a 2xx, or the partner got it and the answer
\* is not a 2xx or came too late, or it never reached the partner.
Post(i) ==
    /\ Step(i, "sending")
    /\ configured
    /\ \E reached, accepted \in BOOLEAN :
         LET e == [events[i] EXCEPT !.attempts = @ + 1,
                                    !.received = @ \/ reached]
         IN  /\ accepted => reached
             /\ events' = [events EXCEPT ![i] =
                  CASE accepted -> [e EXCEPT !.phase = "answered", !.result = "delivered"]
                    [] ~accepted /\ e.attempts = MaxAttempts -> Failed(e)
                    [] OTHER -> e]

\* finalize, which may fail and is then only logged.
Finalize(i) ==
    /\ Step(i, "answered")
    /\ \E stored \in BOOLEAN :
         events' = [events EXCEPT ![i].phase = "done",
                                  ![i].log = IF @ = "pending" /\ stored
                                             THEN events[i].result ELSE @]

Deliver(i) == Store(i) \/ Skip(i) \/ Post(i) \/ Finalize(i)

\* The process dies with what it had in memory.
Abandoned ==
    [i \in DOMAIN events |->
        [events[i] EXCEPT !.phase = IF @ = "done" THEN @ ELSE "gone"]]

OutboxTypeOK ==
    /\ configured \in BOOLEAN
    /\ \A i \in DOMAIN events :
         [f \in {"phase", "log", "result", "attempts", "received"} |-> events[i][f]]
            \in Delivery

\* The outbound log can be believed: what it calls delivered the partner has
\* received, what it calls failed was tried three times, and what it calls
\* skipped was never posted.
LogIsHonest ==
    \A i \in DOMAIN events :
        /\ events[i].log = "delivered" => events[i].received
        /\ events[i].log = "failed" => events[i].attempts = MaxAttempts
        /\ events[i].log = "skipped" => ~events[i].received
=============================================================================
