------------------------------ MODULE Settings ------------------------------
(***************************************************************************)
(* What operators set on the dashboard: the markup of each currency and     *)
(* side (Rates tab) and the name transfers are sent under (Sender info).    *)
(* A setting is a row; saving or removing one reads the row, writes it,     *)
(* records the change in the audit trail and, for a markup, reloads the     *)
(* rules that the answering instance prices with: four awaits.              *)
(*                                                                          *)
(* Every instance keeps those rules in memory (pairMarkupStore).  A load    *)
(* runs every 30 seconds and after every edit made on the instance; loads   *)
(* overlap, and only the ticket each takes when it starts keeps an older    *)
(* one from replacing the rules of a newer one.                             *)
(***************************************************************************)
EXTENDS Naturals, Sequences, FiniteSets

CONSTANTS
    Instances,    \* the API instances whose rules are followed
    MarkupKeys,   \* the pairs (fiat, side) that may have a markup
    SenderKeys,   \* the triples (ramp type, currency, rail) that may have a name
    Values,       \* the markups, in units of 1/Scale; for a name, its identity
    ConfigRules,  \* PAIR_MARKUP_RULES: also the rows the migration seeds
    Edits,        \* the edits operators make, each once
    MaxLoads,     \* bound: loads of one instance under way at a time
    MaxFaults,    \* bound: restarts and audit records that cannot be stored
    None          \* stands for an absent value

Keys == MarkupKeys \cup SenderKeys

ASSUME SettingsAssumption ==
    /\ None \notin Values \cup Edits \cup Instances \cup Keys
    /\ "seed" \notin Edits
    /\ ConfigRules \in [MarkupKeys -> Values \cup {None}]
    /\ MaxLoads \in Nat /\ MaxFaults \in Nat

VARIABLES
    table,   \* the rows, and (history) how many writes made them what they are
    audit,   \* the AdminAction rows about settings
    editor,  \* what each edit has read and is about to do
    rules,   \* the rules each instance prices with
    loads,   \* the loads of each instance under way, oldest ticket first
    acked,   \* history: the newest write an instance has answered for, reloaded
    faults   \* how many restarts and failed audit records there were

settingsVars == <<table, audit, editor, rules, loads, acked, faults>>
-----------------------------------------------------------------------------
Version == 0 .. Cardinality(Edits)

Row == [value : Values \cup {None}, id : Edits \cup {"seed", None}]

NoRow == [value |-> None, id |-> None]

\* Markups as a load reads them; `version` is the table's at that time.
Rules == [markup : [MarkupKeys -> Values \cup {None}], version : Version]

\* An edit: the key it is about, what it is to be set to (None: removed), the
\* row id and value it read, the instance that serves it and its write.
Edit ==
    [pc : {"todo", "read", "find", "write", "remove", "audit", "reload", "wait", "done"},
     at : Instances \cup {None}, key : Keys \cup {None}, to : Values \cup {None},
     id : Edits \cup {"seed", None}, seen : Values \cup {None}, wrote : Version]

Todo ==
    [pc |-> "todo", at |-> None, key |-> None, to |-> None, id |-> None,
     seen |-> None, wrote |-> 0]

Done == [Todo EXCEPT !.pc = "done"]

\* A load: for an edit or for the job (None); what it has read; `stale` when a
\* load with a newer ticket has been applied.
Load == [by : Edits \cup {None}, read : {<< >>} \cup {<<r>> : r \in Rules}, stale : BOOLEAN]

SettingsInit ==
    /\ table = [rows |-> [k \in Keys |->
                  IF k \in MarkupKeys /\ ConfigRules[k] # None
                  THEN [value |-> ConfigRules[k], id |-> "seed"] ELSE NoRow],
                version |-> 0]
    /\ audit = {}
    /\ editor = [e \in Edits |-> Todo]
    /\ rules = [i \in Instances |-> [markup |-> ConfigRules, version |-> 0]]
    /\ loads = [i \in Instances |-> << >>]
    /\ acked = [i \in Instances |-> 0]
    /\ faults = 0

At(e, pc) == editor[e].pc = pc

Go(e, pc) == editor' = [editor EXCEPT ![e] = IF pc = "done" THEN Done ELSE [@ EXCEPT !.pc = pc]]

Fault == faults < MaxFaults /\ faults' = faults + 1

Markup == [k \in MarkupKeys |-> table.rows[k].value]
-----------------------------------------------------------------------------
(* Edits. *)

\* PUT.  A blank name is a request to remove it; a markup is never blank.
Save(e, i, k, v) ==
    /\ At(e, "todo")
    /\ v = None => k \in SenderKeys
    /\ editor' = [editor EXCEPT ![e] = [Todo EXCEPT !.pc = "read", !.at = i, !.key = k, !.to = v]]
    /\ UNCHANGED <<table, audit, rules, loads, acked, faults>>

\* DELETE, of the row that the operator's list shows.
Delete(e, i, k) ==
    /\ At(e, "todo")
    /\ table.rows[k] # NoRow
    /\ editor' = [editor EXCEPT ![e] = [Todo EXCEPT !.pc = "find", !.at = i, !.key = k,
                                                    !.id = table.rows[k].id]]
    /\ UNCHANGED <<table, audit, rules, loads, acked, faults>>

\* A sender name saved as blank is removed.
Blank(c) == c.to = None

\* The row of the key.  One that says the same already is not written again,
\* and one that is not there need not be removed.
Read(e) ==
    LET c == editor[e]
        row == table.rows[c.key]
    IN
    /\ At(e, "read")
    /\ editor' = [editor EXCEPT ![e] =
         IF c.to = row.value THEN Done
         ELSE [c EXCEPT !.pc = IF Blank(c) THEN "remove" ELSE "write",
                        !.seen = row.value, !.id = row.id]]
    /\ UNCHANGED <<table, audit, rules, loads, acked, faults>>

\* The row of the id, if there still is one.
Find(e) ==
    LET row == table.rows[editor[e].key] IN
    /\ At(e, "find")
    /\ editor' = [editor EXCEPT ![e] =
         IF row.id = @.id THEN [@ EXCEPT !.pc = "remove", !.seen = row.value]
                          ELSE Done]
    /\ UNCHANGED <<table, audit, rules, loads, acked, faults>>

Written(e, row) ==
    /\ table' = [rows |-> [table.rows EXCEPT ![editor[e].key] = row],
                 version |-> table.version + 1]
    /\ editor' = [editor EXCEPT ![e].pc = "audit", ![e].wrote = table.version + 1, ![e].id = None]

Upsert(e) ==
    LET c == editor[e] IN
    /\ At(e, "write")
    /\ Written(e, [value |-> c.to,
                   id |-> IF table.rows[c.key] = NoRow THEN e ELSE table.rows[c.key].id])
    /\ UNCHANGED <<audit, rules, loads, acked, faults>>

\* Removing a row that is gone throws, and the request ends.
Remove(e) ==
    /\ At(e, "remove")
    /\ IF table.rows[editor[e].key].id = editor[e].id
       THEN Written(e, NoRow) ELSE Go(e, "done") /\ UNCHANGED table
    /\ UNCHANGED <<audit, rules, loads, acked, faults>>

\* (Mutant of Recorded: describes the setting that was read.)
RecordedAsRead(c) == [key |-> c.key, to |-> c.seen]

\* What was read is recorded too; no property looks at it.
Recorded(c) == [key |-> c.key, to |-> c.to]

\* createAdminAction.  Only markups are held in memory.
Record(e) ==
    LET c == editor[e] IN
    /\ At(e, "audit")
    /\ audit' = audit \cup {Recorded(c)}
    /\ editor' = [editor EXCEPT ![e] =
         IF c.key \in MarkupKeys
         THEN [Todo EXCEPT !.pc = "reload", !.at = c.at, !.wrote = c.wrote] ELSE Done]
    /\ UNCHANGED <<table, rules, loads, acked, faults>>

\* It throws: the operator sees an error, the row is written, nothing reloads.
RecordFails(e) ==
    /\ At(e, "audit")
    /\ Fault
    /\ Go(e, "done")
    /\ UNCHANGED <<table, audit, rules, loads, acked>>
-----------------------------------------------------------------------------
(* The rules in memory. *)

Start(i, by) ==
    loads' = [loads EXCEPT ![i] = Append(@, [by |-> by, read |-> << >>, stale |-> FALSE])]

Reload(e) ==
    /\ At(e, "reload")
    /\ Start(editor[e].at, e)
    /\ Go(e, "wait")
    /\ UNCHANGED <<table, audit, rules, acked, faults>>

\* (Mutant of Tick: an instance that has loaded once relies on its edits.)
TickUntilLoaded(i) ==
    /\ rules[i].version = 0
    /\ Len(loads[i]) < MaxLoads
    /\ Start(i, None)
    /\ UNCHANGED <<table, audit, editor, rules, acked, faults>>

\* Every 30 seconds, whatever is still under way.
Tick(i) ==
    /\ Len(loads[i]) < MaxLoads
    /\ Start(i, None)
    /\ UNCHANGED <<table, audit, editor, rules, acked, faults>>

\* listPairMarkupSettings
Query(i, n) ==
    /\ n \in DOMAIN loads[i]
    /\ loads[i][n].read = << >>
    /\ loads' = [loads EXCEPT ![i][n].read = <<[markup |-> Markup, version |-> table.version]>>]
    /\ UNCHANGED <<table, audit, editor, rules, acked, faults>>

Without(s, n) == SubSeq(s, 1, n - 1) \o SubSeq(s, n + 1, Len(s))

\* The edit that waited for load n of instance i is answered.
Answered(i, n) ==
    editor' = [e \in Edits |->
        IF e = loads[i][n].by THEN Done ELSE editor[e]]

\* (Mutant of Outdated: whoever comes last wins.)
NeverOutdated(load) == FALSE

\* ticket < newestApplied
Outdated(load) == load.stale

\* newestApplied = ticket
Overtaken(s, n) == [m \in DOMAIN s |-> [s[m] EXCEPT !.stale = @ \/ m < n]]

\* A load is applied, or dropped because a newer one was.
Apply(i, n) ==
    /\ n \in DOMAIN loads[i]
    /\ loads[i][n].read # << >>
    /\ LET load == loads[i][n] IN
       /\ IF Outdated(load)
          THEN /\ loads' = [loads EXCEPT ![i] = Without(@, n)]
               /\ UNCHANGED rules
          ELSE /\ rules' = [rules EXCEPT ![i] = load.read[1]]
               /\ loads' = [loads EXCEPT ![i] = Without(Overtaken(@, n), n)]
       /\ acked' = IF load.by # None /\ editor[load.by].wrote > acked[i]
                   THEN [acked EXCEPT ![i] = editor[load.by].wrote] ELSE acked
    /\ Answered(i, n)
    /\ UNCHANGED <<table, audit, faults>>

\* The query fails: the rules stay, and the edit is answered as a success.
LoadFails(i, n) ==
    /\ n \in DOMAIN loads[i]
    /\ loads' = [loads EXCEPT ![i] = Without(@, n)]
    /\ Answered(i, n)
    /\ UNCHANGED <<table, audit, rules, acked, faults>>

\* The instance restarts: it prices by the built-in rules until its first load.
Restart(i) ==
    /\ Fault
    /\ editor' = [e \in Edits |->
         IF editor[e].at = i THEN Done ELSE editor[e]]
    /\ rules' = [rules EXCEPT ![i] = [markup |-> ConfigRules, version |-> 0]]
    /\ loads' = [loads EXCEPT ![i] = << >>]
    /\ acked' = [acked EXCEPT ![i] = 0]
    /\ UNCHANGED <<table, audit>>

EditStep(e) == Read(e) \/ Find(e) \/ Upsert(e) \/ Remove(e) \/ Record(e) \/ Reload(e)

SettingsWork ==
    \/ \E e \in Edits :
         \/ EditStep(e) \/ RecordFails(e)
         \/ \E i \in Instances, k \in Keys :
              Delete(e, i, k) \/ \E v \in Values \cup {None} : Save(e, i, k, v)
    \/ \E i \in Instances :
         \/ Tick(i)
         \/ \E n \in 1 .. MaxLoads + Cardinality(Edits) :
              Query(i, n) \/ Apply(i, n) \/ LoadFails(i, n)

SettingsNext == SettingsWork \/ \E i \in Instances : Restart(i)

\* The job keeps ticking and its queries are answered; the database does not
\* refuse every one of them for ever.
SettingsFairness ==
    \A i \in Instances :
        LET Positions == 1 .. MaxLoads + Cardinality(Edits) IN
        /\ WF_settingsVars(Tick(i))
        /\ SF_settingsVars(\E n \in Positions : Query(i, n))
        /\ SF_settingsVars(\E n \in Positions : Apply(i, n))
-----------------------------------------------------------------------------
(* Properties. *)

SettingsTypeOK ==
    /\ table \in [rows : [Keys -> Row], version : Version]
    /\ audit \subseteq [key : Keys, to : Values \cup {None}]
    /\ editor \in [Edits -> Edit]
    /\ rules \in [Instances -> Rules]
    /\ \A i \in Instances : \A n \in DOMAIN loads[i] : loads[i][n] \in Load
    /\ acked \in [Instances -> Version]
    /\ faults \in 0 .. MaxFaults

\* An instance that has answered an edit after reloading never prices by rules
\* older than that edit again, however its loads overlap, until it restarts.
EditStays == \A i \in Instances : acked[i] <= rules[i].version

\* Whatever a setting says was recorded as set by somebody, or is about to be,
\* whoever else saved and removed it meanwhile, as long as no record failed.
SettingIsOnRecord ==
    faults = 0 =>
        \A k \in Keys :
            LET row == table.rows[k]
                Named(r) == r.key = k /\ r.to = row.value
            IN  \/ row.id = "seed" /\ k \in MarkupKeys /\ row.value = ConfigRules[k]
                \/ row = NoRow /\ (k \in MarkupKeys => ConfigRules[k] = None)
                \/ \E r \in audit : Named(r)
                \/ \E e \in Edits : At(e, "audit") /\ Named(Recorded(editor[e]))

\* In the end every instance prices by what the table says, although loads
\* fail and instances restart.
EditReachesAll == <>[](\A i \in Instances : rules[i].markup = Markup)
=============================================================================
