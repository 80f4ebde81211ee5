------------------------------- MODULE Ledger --------------------------------
(***************************************************************************)
(* The realized-outcome ledger: SqliteStore (src/polyarb/sinks/store.py)   *)
(* written by the scanner's emission (engine/scanner.py) and by            *)
(* poll_settlements (engine/settlement.py), which runs inside the scanner  *)
(* on a slow cadence and in the separate process of `polyarb settle`.      *)
(*                                                                         *)
(* Each store method is one committed transaction, hence one action.  A    *)
(* poll is not: it reads its batch, awaits Gamma, and then writes entry by *)
(* entry, awaiting an alert now and then, while the other process goes on. *)
(***************************************************************************)
EXTENDS Settlement, FiniteSets

CONSTANTS
    Tokens, Markets,
    TokensOf,       \* the two outcome tokens of a market, YES first
    Opportunities,  \* opportunities that may be recorded
    YesPrices,      \* prices a YES token can close at; NO closes at the rest
    Pollers,        \* processes that may settle
    Scanner,        \* the one among them that also detects
    BatchLimit,     \* batch_limit of poll_settlements
    MaxRecords,     \* bound: calls of record and record_shadow
    MaxAborts       \* bound: polls that end in an exception or a killed process

ASSUME LedgerAssumption ==
    /\ Opportunities \subseteq Opportunity(Tokens, Markets)
    /\ TokensOf \in [Markets -> Tokens \X Tokens]
    /\ YesPrices \subseteq 0 .. 100
    /\ Scanner \in Pollers
    /\ BatchLimit \in Nat \ {0}
    /\ MaxRecords \in Nat
    /\ MaxAborts \in Nat

VARIABLES
    closing,   \* external: token -> price its market closed at
    events,    \* economic_events: fingerprint -> row
    raw,       \* opportunities: per fingerprint, the number of its rows
    records,   \* record and record_shadow calls so far; orders first_detected_at
    pc,        \* per poller: "idle", "asked", "settling" or "alerting"
    batch,     \* per poller: fingerprint -> opportunity, entries still to settle
    resolved,  \* per poller: token_resolution_map of Gamma's answer
    alarm,     \* per poller: the fingerprint it is posting an alert for
    alerts,    \* per fingerprint: audit alerts posted
    aborts     \* how much of MaxAborts is used

pollVars == <<pc, batch, resolved, alarm>>
vars == <<closing, events, raw, records, pollVars, alerts, aborts>>

Fingerprints == {EconomicFingerprint(o) : o \in Opportunities}

Pending == [status |-> "pending"]

NoAlarm == [status |-> "none"]

\* A partial function with one argument set, or with only some arguments left.
Put(f, x, v) == [y \in DOMAIN f \cup {x} |-> IF y = x THEN v ELSE f[y]]

Only(f, S) == [x \in DOMAIN f \cap S |-> f[x]]

-----------------------------------------------------------------------------
Init ==
    /\ closing = <<>>
    /\ events = <<>>
    /\ raw = [f \in Fingerprints |-> 0]
    /\ records = 0
    /\ pc = [p \in Pollers |-> "idle"]
    /\ batch = [p \in Pollers |-> <<>>]
    /\ resolved = [p \in Pollers |-> <<>>]
    /\ alarm = [p \in Pollers |-> NoAlarm]
    /\ alerts = [f \in Fingerprints |-> 0]
    /\ aborts = 0

-----------------------------------------------------------------------------
\* A market closes and its outcome prices settle (external).
Close(m, yes) ==
    LET pair == TokensOf[m]
    IN  /\ pair[1] \notin DOMAIN closing /\ pair[2] \notin DOMAIN closing
        /\ closing' = Put(Put(closing, pair[1], yes), pair[2], 100 - yes)
        /\ UNCHANGED <<events, raw, records, pollVars, alerts, aborts>>

-----------------------------------------------------------------------------
(* The scanner's emission.  It never overlaps the scanner's own poll: both *)
(* are awaited in turn by Scanner.run.                                     *)

NewRow(opp, shadow) ==
    [opp |-> opp, outcome |-> Pending, shadow |-> shadow, count |-> 1,
     first |-> records]

\* The row of a re-detection, and of a resolution: the other columns stay.
Counted(row, shadow) ==
    [opp |-> row.opp, outcome |-> row.outcome, shadow |-> shadow,
     count |-> row.count + 1, first |-> row.first]

Resolved(row, result) ==
    [opp |-> row.opp, outcome |-> result, shadow |-> row.shadow,
     count |-> row.count, first |-> row.first]

\* Variant: a re-detection reopens the event.
RecordReopens(opp) ==
    LET f == EconomicFingerprint(opp)
    IN  /\ pc[Scanner] = "idle"
        /\ records < MaxRecords
        /\ records' = records + 1
        /\ raw' = [raw EXCEPT ![f] = @ + 1]
        /\ events' = Put(events, f, NewRow(opp, FALSE))
        /\ UNCHANGED <<closing, pollVars, alerts, aborts>>

\* Variant: a re-detection replaces the opportunity first seen.
RecordReplaces(opp) ==
    LET f == EconomicFingerprint(opp)
    IN  /\ pc[Scanner] = "idle"
        /\ records < MaxRecords
        /\ records' = records + 1
        /\ raw' = [raw EXCEPT ![f] = @ + 1]
        /\ events' = Put(events, f, IF f \in DOMAIN events
                                   THEN [Counted(events[f], FALSE) EXCEPT !.opp = opp]
                                   ELSE NewRow(opp, FALSE))
        /\ UNCHANGED <<closing, pollVars, alerts, aborts>>

\* record: a raw row, and the event inserted or counted.  A known event keeps
\* its opportunity and its outcome; it is real from now on.
Record(opp) ==
    LET f == EconomicFingerprint(opp)
    IN  /\ pc[Scanner] = "idle"
        /\ records < MaxRecords
        /\ records' = records + 1
        /\ raw' = [raw EXCEPT ![f] = @ + 1]
        /\ events' = Put(events, f, IF f \in DOMAIN events THEN Counted(events[f], FALSE)
                                   ELSE NewRow(opp, FALSE))
        /\ UNCHANGED <<closing, pollVars, alerts, aborts>>

\* Variant: the update is not restricted to shadow rows.
RecordShadowUnguarded(opp) ==
    LET f == EconomicFingerprint(opp)
    IN  /\ pc[Scanner] = "idle"
        /\ records < MaxRecords
        /\ records' = records + 1
        /\ events' = Put(events, f, IF f \in DOMAIN events THEN Counted(events[f], TRUE)
                                   ELSE NewRow(opp, TRUE))
        /\ UNCHANGED <<closing, raw, pollVars, alerts, aborts>>

\* record_shadow: no raw row, and a real event is left alone.
RecordShadow(opp) ==
    LET f == EconomicFingerprint(opp)
    IN  /\ pc[Scanner] = "idle"
        /\ records < MaxRecords
        /\ records' = records + 1
        /\ events' = IF f \notin DOMAIN events THEN Put(events, f, NewRow(opp, TRUE))
                     ELSE IF events[f].shadow THEN Put(events, f, Counted(events[f], TRUE))
                     ELSE events
        /\ UNCHANGED <<closing, raw, pollVars, alerts, aborts>>

-----------------------------------------------------------------------------
(* poll_settlements.                                                       *)

\* Variant: shadow rows are pending too.
PendingOrShadow == {f \in DOMAIN events : events[f].outcome = Pending}

PendingEvents == {f \in DOMAIN events : events[f].outcome = Pending /\ ~events[f].shadow}

Older(f, g) == events[f].first < events[g].first

\* The batch: the oldest BatchLimit of the pending events.
PendingBatch ==
    {f \in PendingEvents : Cardinality({g \in PendingEvents : Older(g, f)}) < BatchLimit}

\* The batch is read and Gamma asked; with nothing pending the poll is over.
Poll(p) ==
    /\ pc[p] = "idle"
    /\ PendingBatch # {}
    /\ pc' = [pc EXCEPT ![p] = "asked"]
    /\ batch' = [batch EXCEPT ![p] = [f \in PendingBatch |-> events[f].opp]]
    /\ UNCHANGED <<closing, events, raw, records, resolved, alarm, alerts, aborts>>

\* Tokens of the markets the batch is conditioned on.
Queried(entries) ==
    {TokensOf[m][i] : m \in UNION {entries[f].conditions : f \in DOMAIN entries},
                      i \in {1, 2}}

\* Gamma answers with those of the queried markets that are closed by then.
Answer(p) ==
    /\ pc[p] = "asked"
    /\ pc' = [pc EXCEPT ![p] = "settling"]
    /\ resolved' = [resolved EXCEPT ![p] = Only(closing, Queried(batch[p]))]
    /\ UNCHANGED <<closing, events, raw, records, batch, alarm, alerts, aborts>>

\* The poll goes on without entry f, or returns after its last entry.
Advance(p, f, next) ==
    LET left == Only(batch[p], DOMAIN batch[p] \ {f})
        over == next = "settling" /\ DOMAIN left = {}
    IN  /\ pc' = [pc EXCEPT ![p] = IF over THEN "idle" ELSE next]
        /\ batch' = [batch EXCEPT ![p] = left]
        /\ resolved' = [resolved EXCEPT ![p] = IF over THEN <<>> ELSE @]

\* The entries are taken oldest first.
IsNext(p, f) ==
    /\ pc[p] = "settling"
    /\ f \in DOMAIN batch[p]
    /\ \A g \in DOMAIN batch[p] : ~Older(g, f)

\* Variant: the poll ends at the first entry that is not resolved.
SkipUnresolvedAndRest(p, f) ==
    /\ IsNext(p, f)
    /\ ~FullyResolved(batch[p][f], resolved[p])
    /\ pc' = [pc EXCEPT ![p] = "idle"]
    /\ batch' = [batch EXCEPT ![p] = <<>>]
    /\ resolved' = [resolved EXCEPT ![p] = <<>>]
    /\ UNCHANGED <<closing, events, raw, records, alarm, alerts, aborts>>

\* An entry with an unresolved leg stays pending.
SkipUnresolved(p, f) ==
    /\ IsNext(p, f)
    /\ ~FullyResolved(batch[p][f], resolved[p])
    /\ Advance(p, f, "settling")
    /\ UNCHANGED <<closing, events, raw, records, alarm, alerts, aborts>>

\* Variant: a loss is alerted first and left to a later poll to write.
SettleEntryAlertsUnwritten(p, f) ==
    LET opp == batch[p][f]
        result == Settle(opp, resolved[p])
    IN  /\ IsNext(p, f)
        /\ FullyResolved(opp, resolved[p])
        /\ IF Alarming(opp, result)
           THEN /\ alarm' = [alarm EXCEPT ![p] = f]
                /\ Advance(p, f, "alerting")
                /\ UNCHANGED events
           ELSE /\ events' = Put(events, f, Resolved(events[f], result))
                /\ Advance(p, f, "settling")
                /\ UNCHANGED alarm
        /\ UNCHANGED <<closing, raw, records, alerts, aborts>>

\* record_resolution: the outcome of the entry as read is written to the row,
\* whatever the row's status is by now.  A negative lock is alerted next.
SettleEntry(p, f) ==
    LET opp == batch[p][f]
        result == Settle(opp, resolved[p])
    IN  /\ IsNext(p, f)
        /\ FullyResolved(opp, resolved[p])
        /\ events' = Put(events, f, Resolved(events[f], result))
        /\ IF Alarming(opp, result)
           THEN /\ alarm' = [alarm EXCEPT ![p] = f]
                /\ Advance(p, f, "alerting")
           ELSE /\ UNCHANGED alarm
                /\ Advance(p, f, "settling")
        /\ UNCHANGED <<closing, raw, records, alerts, aborts>>

\* notifier.alert: posted once, its errors swallowed.
Alert(p) ==
    LET over == DOMAIN batch[p] = {}
    IN  /\ pc[p] = "alerting"
        /\ alerts' = [alerts EXCEPT ![alarm[p]] = @ + 1]
        /\ alarm' = [alarm EXCEPT ![p] = NoAlarm]
        /\ pc' = [pc EXCEPT ![p] = IF over THEN "idle" ELSE "settling"]
        /\ resolved' = [resolved EXCEPT ![p] = IF over THEN <<>> ELSE @]
        /\ UNCHANGED <<closing, events, raw, records, batch, aborts>>

\* The Gamma call or a write raises, or the process is killed: the poll is
\* gone, what it has committed stays.
Abort(p) ==
    /\ pc[p] # "idle"
    /\ aborts < MaxAborts
    /\ aborts' = aborts + 1
    /\ pc' = [pc EXCEPT ![p] = "idle"]
    /\ batch' = [batch EXCEPT ![p] = <<>>]
    /\ resolved' = [resolved EXCEPT ![p] = <<>>]
    /\ alarm' = [alarm EXCEPT ![p] = NoAlarm]
    /\ UNCHANGED <<closing, events, raw, records, alerts>>

-----------------------------------------------------------------------------
Emission == \E opp \in Opportunities : Record(opp) \/ RecordShadow(opp)

Settlements ==
    \E p \in Pollers :
        \/ Poll(p) \/ Answer(p) \/ Alert(p) \/ Abort(p)
        \/ \E f \in Fingerprints : SkipUnresolved(p, f) \/ SettleEntry(p, f)

Next ==
    \/ \E m \in Markets, yes \in YesPrices : Close(m, yes)
    \/ Emission
    \/ Settlements

Spec == Init /\ [][Next]_vars

\* The scanner settles again and again (settle_interval_seconds), and a poll
\* that is not aborted goes on.  Nobody need ever run `polyarb settle`.
PollStep(p) ==
    \/ Answer(p) \/ Alert(p)
    \/ \E f \in Fingerprints : SkipUnresolved(p, f) \/ SettleEntry(p, f)

Fairness ==
    /\ WF_vars(Poll(Scanner))
    /\ WF_vars(PollStep(Scanner))

FairSpec == Spec /\ Fairness

-----------------------------------------------------------------------------
\* A function on some of the elements of S.
IsPartial(f, S, T) == DOMAIN f \subseteq S /\ f \in [DOMAIN f -> T]

RowOK(f, row, calls) ==
    /\ DOMAIN row = {"opp", "outcome", "shadow", "count", "first"}
    /\ row.opp \in Opportunities
    /\ EconomicFingerprint(row.opp) = f
    /\ row.outcome = Pending \/ row.outcome.status \in {"resolved", "void"}
    /\ row.shadow \in BOOLEAN
    /\ row.count \in 1 .. calls
    /\ row.first \in 0 .. calls - 1

TableOK(table, calls) ==
    /\ DOMAIN table \subseteq Fingerprints
    /\ \A f \in DOMAIN table : RowOK(f, table[f], calls)

PollerOK(p) ==
    /\ IsPartial(batch[p], Fingerprints, Opportunities)
    /\ IsPartial(resolved[p], Tokens, 0 .. 100)
    /\ alarm[p] \in Fingerprints \cup {NoAlarm}
    /\ (pc[p] = "alerting") <=> (alarm[p] # NoAlarm)

TypeOK ==
    /\ IsPartial(closing, Tokens, 0 .. 100)
    /\ TableOK(events, records)
    /\ raw \in [Fingerprints -> Nat]
    /\ records \in Nat
    /\ pc \in [Pollers -> {"idle", "asked", "settling", "alerting"}]
    /\ DOMAIN batch = Pollers /\ DOMAIN resolved = Pollers /\ DOMAIN alarm = Pollers
    /\ \A p \in Pollers : PollerOK(p)
    /\ alerts \in [Fingerprints -> Nat]
    /\ aborts \in Nat

-----------------------------------------------------------------------------
\* The event life cycle, as the rows show it.
Kind(f) ==
    IF f \notin DOMAIN events THEN "absent"
    ELSE IF events[f].outcome # Pending THEN "settled"
    ELSE IF events[f].shadow THEN "shadow" ELSE "pending"

kindOf == [f \in Fingerprints |-> Kind(f)]

firstOf ==
    [f \in Fingerprints |-> IF f \in DOMAIN events THEN events[f].opp ELSE NoAlarm]

outcomeOf ==
    [f \in Fingerprints |-> IF Kind(f) = "settled" THEN events[f].outcome ELSE NoAlarm]

Lifecycle ==
    INSTANCE EventLifecycle WITH kind <- kindOf, first <- firstOf, outcome <- outcomeOf

\* Two processes that settle the same events from batches read at different
\* times, restarts in the middle of a batch, and re-detections in between leave
\* each event one final outcome, audited against the opportunity first seen and
\* only once all its legs are resolved (settlement.py:87-127, store.py:153-187).
ImplementsLifecycle == Lifecycle!Spec

\* A shadow observation stays out of the raw feed, the settlement and the
\* alerts (store.py:270-276, POLYARB_DOCS.md:149-150), and a real event has at
\* least one detection per raw row: a shadow pass over it removes nothing.
ShadowIsolated ==
    \A f \in Fingerprints :
        /\ Kind(f) = "absent" \/ events[f].shadow =>
             /\ raw[f] = 0 /\ alerts[f] = 0
             /\ \A p \in Pollers : f \notin DOMAIN batch[p] /\ alarm[p] # f
        /\ Kind(f) # "absent" => raw[f] <= events[f].count

\* An alert is posted, or about to be, only for a structural lock whose recorded
\* outcome is a loss (settlement.py:144-148, 177-190).
AlertsAreJustified ==
    \A f \in Fingerprints :
        alerts[f] > 0 \/ (\E p \in Pollers : alarm[p] = f) =>
            /\ Kind(f) = "settled"
            /\ Alarming(events[f].opp, events[f].outcome)

\* The inductive invariant: an outcome is the audit at the closing prices, a batch
\* holds tracked events with the opportunity of their row, an answer holds closing
\* prices.
RowsAccurate ==
    \A f \in DOMAIN events :
        events[f].outcome # Pending =>
            /\ ~events[f].shadow
            /\ FullyResolved(events[f].opp, closing)
            /\ events[f].outcome = Settle(events[f].opp, closing)

BatchesAccurate ==
    \A p \in Pollers : \A f \in DOMAIN batch[p] :
        f \in DOMAIN events /\ ~events[f].shadow /\ batch[p][f] = events[f].opp

AnswersAccurate == \A p \in Pollers : Extends(closing, resolved[p])

IInv ==
    /\ TypeOK
    /\ RowsAccurate
    /\ BatchesAccurate
    /\ AnswersAccurate
    /\ AlertsAreJustified
    /\ ShadowIsolated

\* settlement.py:147-148 "Each event settles exactly once (it leaves the pending
\* set), so it alerts at most once".
AlertsAtMostOnce == \A f \in Fingerprints : alerts[f] <= 1

\* settlement.py:137 "settle any pending ledger event whose legs have all
\* resolved".
ResolvedEventSettles ==
    \A f \in Fingerprints :
        Kind(f) = "pending" /\ FullyResolved(events[f].opp, closing)
            ~> Kind(f) = "settled"
=============================================================================
