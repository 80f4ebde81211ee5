----------------------------- MODULE LedgerProofs -----------------------------
(***************************************************************************)
(* Proofs about Ledger for all opportunities, markets, closing prices and  *)
(* settling processes, and any number of records and aborts.               *)
(***************************************************************************)
EXTENDS Ledger, TLAPS

-----------------------------------------------------------------------------
(* Values.                                                                 *)

\* The fingerprint store.py computes is never the value of "no alert".
LEMMA NoAlarmIsNoFingerprint == NoAlarm \notin Fingerprints
<1> SUFFICES ASSUME NEW o \in Opportunities, EconomicFingerprint(o) = NoAlarm
             PROVE  FALSE
  BY DEF Fingerprints
<1>1. DOMAIN EconomicFingerprint(o) = {"detector", "conditions", "legs"}
  BY DEF EconomicFingerprint
<1>2. DOMAIN NoAlarm = {"status"}
  BY DEF NoAlarm
<1> QED
  BY <1>1, <1>2

\* What settle returns is an outcome and not the pending status.
LEMMA OutcomeStatus ==
    ASSUME NEW opp, NEW prices
    PROVE  /\ Settle(opp, prices).status \in {"resolved", "void"}
           /\ Settle(opp, prices) # Pending
           /\ Pending.status = "pending"
BY DEF Settle, Pending

\* Prices that are final settle an opportunity once and for all: a later answer
\* resolves what an earlier one did, with the same outcome.
LEMMA SettleIsStable ==
    ASSUME NEW opp, NEW old, NEW new, Extends(new, old), FullyResolved(opp, old)
    PROVE  FullyResolved(opp, new) /\ Settle(opp, new) = Settle(opp, old)
<1>1. \A i \in DOMAIN opp.legs : /\ opp.legs[i].token \in DOMAIN new
                                 /\ new[opp.legs[i].token] = old[opp.legs[i].token]
  BY DEF Extends, FullyResolved
<1>2. FullyResolved(opp, new)
  BY <1>1 DEF FullyResolved
<1>3. Receipts(opp, new) = Receipts(opp, old)
  BY <1>1 DEF Receipts
<1>4. Gains(opp, new) = Gains(opp, old)
  BY <1>1 DEF Gains
<1>5. Voided(opp, new) <=> Voided(opp, old)
  BY <1>1 DEF Voided
<1> QED
  BY <1>2, <1>3, <1>4, <1>5 DEF Settle

LEMMA ExtendsIsTransitive ==
    ASSUME NEW a, NEW b, NEW c, Extends(a, b), Extends(b, c)
    PROVE  Extends(a, c)
BY DEF Extends

\* A part of a partial function is one.
LEMMA OnlyIsPartial ==
    ASSUME NEW f, NEW S, NEW T, NEW D, IsPartial(f, S, T)
    PROVE  IsPartial(Only(f, D), S, T)
BY DEF Only, IsPartial

LEMMA PutIsPartial ==
    ASSUME NEW f, NEW S, NEW T, NEW x \in S, NEW v \in T, IsPartial(f, S, T)
    PROVE  IsPartial(Put(f, x, v), S, T)
BY DEF Put, IsPartial

-----------------------------------------------------------------------------
(* Type correctness.                                                       *)

\* A row stays a row while calls are counted, also when it is counted itself.
LEMMA OldRow ==
    ASSUME NEW f, NEW row, NEW n \in Nat, NEW m \in Nat, n <= m, RowOK(f, row, n)
    PROVE  RowOK(f, row, m)
BY DEF RowOK

LEMMA NewRowOK ==
    ASSUME NEW opp \in Opportunities, NEW shadow \in BOOLEAN, records \in Nat
    PROVE  RowOK(EconomicFingerprint(opp), NewRow(opp, shadow), records + 1)
BY DEF RowOK, NewRow

LEMMA CountedRow ==
    ASSUME NEW f, NEW row, NEW n \in Nat, RowOK(f, row, n), NEW s \in BOOLEAN
    PROVE  RowOK(f, Counted(row, s), n + 1)
BY DEF RowOK, Counted

LEMMA SettledRow ==
    ASSUME NEW f, NEW row, NEW n \in Nat, RowOK(f, row, n), NEW result,
           result.status \in {"resolved", "void"}
    PROVE  RowOK(f, Resolved(row, result), n)
BY DEF RowOK, Resolved

LEMMA PutRow ==
    ASSUME NEW table, NEW n \in Nat, NEW m \in Nat, n <= m, TableOK(table, n),
           NEW f \in Fingerprints, NEW row, RowOK(f, row, m)
    PROVE  TableOK(Put(table, f, row), m)
<1>1. DOMAIN Put(table, f, row) = DOMAIN table \cup {f}
  BY DEF Put
<1>2. /\ Put(table, f, row)[f] = row
      /\ \A g \in DOMAIN table : g # f => Put(table, f, row)[g] = table[g]
  BY DEF Put
<1> QED
  BY <1>1, <1>2, OldRow DEF TableOK

LEMMA OldTable ==
    ASSUME NEW table, NEW n \in Nat, NEW m \in Nat, n <= m, TableOK(table, n)
    PROVE  TableOK(table, m)
BY OldRow DEF TableOK

\* The initial state is well typed.
THEOREM InitType == Init => TypeOK
BY DEF Init, TypeOK, TableOK, PollerOK, IsPartial, Fingerprints

LEMMA CloseType ==
    ASSUME TypeOK, NEW m \in Markets, NEW yes \in YesPrices, Close(m, yes)
    PROVE  TypeOK'
<1>1. /\ TokensOf[m][1] \in Tokens /\ TokensOf[m][2] \in Tokens
      /\ yes \in 0 .. 100 /\ 100 - yes \in 0 .. 100
  BY LedgerAssumption
<1>2. IsPartial(closing', Tokens, 0 .. 100)
  BY <1>1, PutIsPartial DEF Close, TypeOK
<1> QED
  BY <1>2 DEF Close, TypeOK, pollVars, PollerOK

LEMMA RecordType ==
    ASSUME TypeOK, NEW opp \in Opportunities, Record(opp)
    PROVE  TypeOK'
<1> DEFINE f == EconomicFingerprint(opp)
           row == IF f \in DOMAIN events THEN Counted(events[f], FALSE) ELSE NewRow(opp, FALSE)
<1>1. f \in Fingerprints
  BY DEF Fingerprints
<1>2. records \in Nat /\ records' = records + 1 /\ records + 1 \in Nat /\ records <= records + 1
  BY DEF Record, TypeOK
<1>3. RowOK(f, row, records + 1)
  <2>1. CASE f \in DOMAIN events
    BY <1>2, <2>1, CountedRow DEF TypeOK, TableOK
  <2>2. CASE f \notin DOMAIN events
    BY <1>2, <2>2, NewRowOK
  <2> QED
    BY <2>1, <2>2
<1>4. events' = Put(events, f, row)
  BY DEF Record
<1>5. raw' \in [Fingerprints -> Nat]
  BY <1>1 DEF Record, TypeOK
<1> HIDE DEF f, row
<1>6. TableOK(events', records')
  BY <1>1, <1>2, <1>3, <1>4, PutRow DEF TypeOK
<1> QED
  BY <1>2, <1>5, <1>6 DEF Record, TypeOK, pollVars, PollerOK

LEMMA RecordShadowType ==
    ASSUME TypeOK, NEW opp \in Opportunities, RecordShadow(opp)
    PROVE  TypeOK'
<1> DEFINE f == EconomicFingerprint(opp)
<1>1. f \in Fingerprints
  BY DEF Fingerprints
<1>2. records \in Nat /\ records' = records + 1 /\ records + 1 \in Nat /\ records <= records + 1
  BY DEF RecordShadow, TypeOK
<1>3. TableOK(events', records')
  <2>1. CASE f \notin DOMAIN events
    <3> DEFINE row == NewRow(opp, TRUE)
    <3>1. events' = Put(events, f, row)
      BY <2>1 DEF RecordShadow
    <3>2. RowOK(f, row, records + 1)
      BY <1>2, NewRowOK
    <3> HIDE DEF f, row
    <3> QED
      BY <1>1, <1>2, <3>1, <3>2, PutRow DEF TypeOK
  <2>2. CASE f \in DOMAIN events /\ events[f].shadow
    <3> DEFINE row == Counted(events[f], TRUE)
    <3>1. events' = Put(events, f, row)
      BY <2>2 DEF RecordShadow
    <3>2. RowOK(f, row, records + 1)
      BY <1>2, <2>2, CountedRow DEF TypeOK, TableOK
    <3> HIDE DEF f, row
    <3> QED
      BY <1>1, <1>2, <3>1, <3>2, PutRow DEF TypeOK
  <2>3. CASE f \in DOMAIN events /\ ~events[f].shadow
    <3>1. events' = events
      BY <2>3 DEF RecordShadow
    <3> QED
      BY <1>2, <3>1, OldTable DEF TypeOK
  <2> QED
    BY <2>1, <2>2, <2>3
<1> QED
  BY <1>2, <1>3 DEF RecordShadow, TypeOK, pollVars, PollerOK

LEMMA PollType ==
    ASSUME TypeOK, NEW p \in Pollers, Poll(p)
    PROVE  TypeOK'
<1>1. PendingBatch \subseteq DOMAIN events
  BY DEF PendingBatch, PendingEvents
<1>2. IsPartial([f \in PendingBatch |-> events[f].opp], Fingerprints, Opportunities)
  BY <1>1 DEF TypeOK, TableOK, RowOK, IsPartial
<1>3. \A q \in Pollers : PollerOK(q)'
  BY <1>2 DEF Poll, TypeOK, PollerOK
<1> QED
  BY <1>3 DEF Poll, TypeOK

LEMMA AnswerType ==
    ASSUME TypeOK, NEW p \in Pollers, Answer(p)
    PROVE  TypeOK'
<1>1. IsPartial(Only(closing, Queried(batch[p])), Tokens, 0 .. 100)
  BY OnlyIsPartial DEF TypeOK
<1>2. \A q \in Pollers : PollerOK(q)'
  BY <1>1 DEF Answer, TypeOK, PollerOK
<1> QED
  BY <1>2 DEF Answer, TypeOK

\* What Advance leaves of a poller's batch and answer.
LEMMA AdvanceType ==
    ASSUME TypeOK, NEW p \in Pollers, NEW f, NEW next \in {"settling", "alerting"},
           Advance(p, f, next)
    PROVE  /\ pc' \in [Pollers -> {"idle", "asked", "settling", "alerting"}]
           /\ pc'[p] = "alerting" <=> next = "alerting"
           /\ DOMAIN batch' = Pollers /\ DOMAIN resolved' = Pollers
           /\ IsPartial(batch'[p], Fingerprints, Opportunities)
           /\ IsPartial(resolved'[p], Tokens, 0 .. 100)
           /\ \A q \in Pollers \ {p} :
                pc'[q] = pc[q] /\ batch'[q] = batch[q] /\ resolved'[q] = resolved[q]
<1> DEFINE left == Only(batch[p], DOMAIN batch[p] \ {f})
<1>1. IsPartial(left, Fingerprints, Opportunities)
  BY OnlyIsPartial DEF TypeOK, PollerOK
<1>2. IsPartial(<<>>, Tokens, 0 .. 100)
  BY DEF IsPartial
<1>3. batch' = [batch EXCEPT ![p] = left]
  BY DEF Advance
<1>4. \/ pc' = [pc EXCEPT ![p] = next] /\ resolved' = [resolved EXCEPT ![p] = @]
      \/ /\ pc' = [pc EXCEPT ![p] = "idle"]
         /\ resolved' = [resolved EXCEPT ![p] = <<>>]
         /\ next = "settling"
  BY DEF Advance, TypeOK
<1> HIDE DEF left
<1> QED
  BY <1>1, <1>2, <1>3, <1>4 DEF TypeOK, PollerOK

LEMMA SkipUnresolvedType ==
    ASSUME TypeOK, NEW p \in Pollers, NEW f \in Fingerprints, SkipUnresolved(p, f)
    PROVE  TypeOK'
<1>1. Advance(p, f, "settling") /\ pc[p] = "settling" /\ alarm' = alarm
  BY DEF SkipUnresolved, IsNext
<1>2. \A q \in Pollers : PollerOK(q)'
  BY <1>1, AdvanceType DEF TypeOK, PollerOK
<1>3. /\ pc' \in [Pollers -> {"idle", "asked", "settling", "alerting"}]
      /\ DOMAIN batch' = Pollers /\ DOMAIN resolved' = Pollers
  BY <1>1, AdvanceType
<1> QED
  BY <1>2, <1>3 DEF SkipUnresolved, TypeOK

\* A batch is made of the opportunities of rows, so that a settled row is one.
LEMMA SettleEntryType ==
    ASSUME TypeOK, BatchesAccurate, NEW p \in Pollers, NEW f \in Fingerprints,
           SettleEntry(p, f)
    PROVE  TypeOK'
<1> DEFINE result == Settle(batch[p][f], resolved[p])
           row == Resolved(events[f], result)
<1>1. f \in DOMAIN batch[p] /\ f \in DOMAIN events /\ pc[p] = "settling"
  BY DEF SettleEntry, IsNext, BatchesAccurate
<1>2. result.status \in {"resolved", "void"}
  BY OutcomeStatus
<1>3. RowOK(f, row, records)
  <2> HIDE DEF result
  <2> QED
    BY <1>1, <1>2, SettledRow DEF TypeOK, TableOK
<1>4. events' = Put(events, f, row)
  BY DEF SettleEntry
<1>5. TableOK(events', records)
  <2> HIDE DEF row
  <2> QED
    BY <1>3, <1>4, PutRow DEF TypeOK
<1>6. \/ alarm' = [alarm EXCEPT ![p] = f] /\ Advance(p, f, "alerting")
      \/ alarm' = alarm /\ Advance(p, f, "settling")
  BY DEF SettleEntry
<1>7. \A q \in Pollers : PollerOK(q)'
  BY <1>1, <1>6, AdvanceType, NoAlarmIsNoFingerprint DEF TypeOK, PollerOK
<1>8. /\ pc' \in [Pollers -> {"idle", "asked", "settling", "alerting"}]
      /\ DOMAIN batch' = Pollers /\ DOMAIN resolved' = Pollers
  BY <1>6, AdvanceType
<1>9. DOMAIN alarm' = Pollers
  BY <1>6 DEF TypeOK
<1> QED
  BY <1>5, <1>7, <1>8, <1>9 DEF SettleEntry, TypeOK

LEMMA AlertType ==
    ASSUME TypeOK, NEW p \in Pollers, Alert(p)
    PROVE  TypeOK'
<1>1. alarm[p] \in Fingerprints
  BY DEF Alert, TypeOK, PollerOK
<1>2. alerts' \in [Fingerprints -> Nat]
  BY <1>1 DEF Alert, TypeOK
<1>3. IsPartial(<<>>, Tokens, 0 .. 100)
  BY DEF IsPartial
<1>4. \A q \in Pollers : PollerOK(q)'
  BY <1>3 DEF Alert, TypeOK, PollerOK
<1> QED
  BY <1>2, <1>4 DEF Alert, TypeOK

LEMMA AbortType ==
    ASSUME TypeOK, NEW p \in Pollers, Abort(p)
    PROVE  TypeOK'
<1>1. IsPartial(<<>>, Tokens, 0 .. 100) /\ IsPartial(<<>>, Fingerprints, Opportunities)
  BY DEF IsPartial
<1>2. \A q \in Pollers : PollerOK(q)'
  BY <1>1 DEF Abort, TypeOK, PollerOK
<1> QED
  BY <1>2 DEF Abort, TypeOK

LEMMA StutterType ==
    ASSUME TypeOK, UNCHANGED vars
    PROVE  TypeOK'
BY DEF TypeOK, vars, pollVars, PollerOK

\* The ledger's tables, polls and answers keep their form, in every step.
THEOREM TypeStep == TypeOK /\ BatchesAccurate /\ [Next]_vars => TypeOK'
<1> SUFFICES ASSUME TypeOK, BatchesAccurate, [Next]_vars
             PROVE  TypeOK'
  OBVIOUS
<1>1. ASSUME NEW m \in Markets, NEW yes \in YesPrices, Close(m, yes)
      PROVE  TypeOK'
  BY <1>1, CloseType
<1>2. ASSUME NEW opp \in Opportunities, Record(opp) \/ RecordShadow(opp)
      PROVE  TypeOK'
  BY <1>2, RecordType, RecordShadowType
<1>3. ASSUME NEW p \in Pollers, Poll(p) \/ Answer(p) \/ Alert(p) \/ Abort(p)
      PROVE  TypeOK'
  BY <1>3, PollType, AnswerType, AlertType, AbortType
<1>4. ASSUME NEW p \in Pollers, NEW f \in Fingerprints,
             SkipUnresolved(p, f) \/ SettleEntry(p, f)
      PROVE  TypeOK'
  BY <1>4, SkipUnresolvedType, SettleEntryType
<1>5. CASE UNCHANGED vars
  BY <1>5, StutterType
<1> QED
  BY <1>1, <1>2, <1>3, <1>4, <1>5 DEF Next, Emission, Settlements

-----------------------------------------------------------------------------
(* The inductive invariant, one lemma per action.                          *)

Accurate ==
    RowsAccurate /\ BatchesAccurate /\ AnswersAccurate /\ AlertsAreJustified /\ ShadowIsolated

\* What a fingerprint's kind says of its row.
LEMMA KindFacts ==
    ASSUME NEW f
    PROVE  /\ Kind(f) = "absent" <=> f \notin DOMAIN events
           /\ Kind(f) = "settled" <=> f \in DOMAIN events /\ events[f].outcome # Pending
BY DEF Kind

LEMMA InitAccurate == Init => Accurate
<1> SUFFICES ASSUME Init PROVE Accurate
  OBVIOUS
<1>1. \A f \in Fingerprints : \A p \in Pollers : alarm[p] # f
  BY NoAlarmIsNoFingerprint DEF Init
<1> QED
  BY <1>1 DEF Init, Accurate, RowsAccurate, BatchesAccurate, AnswersAccurate, Extends,
       AlertsAreJustified, ShadowIsolated, Kind

LEMMA CloseAccurate ==
    ASSUME Accurate, NEW m \in Markets, NEW yes \in YesPrices, Close(m, yes)
    PROVE  Accurate'
<1>1. Extends(closing', closing)
  BY DEF Close, Extends, Put
<1>2. RowsAccurate'
  <2> SUFFICES ASSUME NEW f \in DOMAIN events, events[f].outcome # Pending
               PROVE  /\ ~events[f].shadow
                      /\ FullyResolved(events[f].opp, closing')
                      /\ events[f].outcome = Settle(events[f].opp, closing')
    BY DEF RowsAccurate, Close
  <2> QED
    BY <1>1, SettleIsStable DEF Accurate, RowsAccurate
<1>3. AnswersAccurate'
  BY <1>1, ExtendsIsTransitive DEF Accurate, AnswersAccurate, Close, pollVars
<1> QED
  BY <1>2, <1>3 DEF Accurate, Close, pollVars, BatchesAccurate, AlertsAreJustified,
       ShadowIsolated, Kind

\* What a detection does to the rows: one is added or counted, none is lost, no
\* outcome and no opportunity changes.
LEMMA DetectedRows ==
    ASSUME NEW f, NEW opp, NEW shadow \in BOOLEAN,
           f \in DOMAIN events /\ ~events[f].shadow => ~shadow,
           events' = Put(events, f, IF f \in DOMAIN events THEN Counted(events[f], shadow)
                                    ELSE NewRow(opp, shadow))
    PROVE  /\ DOMAIN events' = DOMAIN events \cup {f}
           /\ \A g \in DOMAIN events : /\ events'[g].opp = events[g].opp
                                       /\ events'[g].outcome = events[g].outcome
                                       /\ ~events[g].shadow => ~events'[g].shadow
           /\ \A g \in DOMAIN events : g # f => events'[g] = events[g]
           /\ events'[f].shadow = shadow
           /\ f \in DOMAIN events => events'[f].count = events[f].count + 1
           /\ f \notin DOMAIN events => events'[f].outcome = Pending /\ events'[f].count = 1
BY DEF Put, Counted, NewRow

\* What is accurate stays so when rows are detected and nothing else moves: the
\* raw rows of a real event are among its detections by assumption.
LEMMA DetectionAccurate ==
    ASSUME TypeOK, Accurate, NEW f \in Fingerprints,
           UNCHANGED <<closing, pollVars, alerts>>,
           DOMAIN events' = DOMAIN events \cup {f},
           \A g \in DOMAIN events : /\ events'[g].opp = events[g].opp
                                    /\ events'[g].outcome = events[g].outcome
                                    /\ ~events[g].shadow => ~events'[g].shadow,
           \A g \in DOMAIN events : g # f => events'[g] = events[g],
           f \notin DOMAIN events => events'[f].outcome = Pending,
           \A g \in Fingerprints : g # f => raw'[g] = raw[g],
           events'[f].shadow => raw'[f] = raw[f],
           raw'[f] <= events'[f].count
    PROVE  Accurate'
<1>1. RowsAccurate'
  BY DEF Accurate, RowsAccurate
<1>2. BatchesAccurate' /\ AnswersAccurate'
  BY DEF Accurate, BatchesAccurate, AnswersAccurate, pollVars
<1>3. AlertsAreJustified'
  <2> SUFFICES ASSUME NEW g \in Fingerprints, alerts[g] > 0 \/ \E p \in Pollers : alarm[p] = g
               PROVE  /\ Kind(g)' = "settled"
                      /\ Alarming(events'[g].opp, events'[g].outcome)
    BY DEF AlertsAreJustified, pollVars
  <2>1. Kind(g) = "settled" /\ Alarming(events[g].opp, events[g].outcome)
    BY DEF Accurate, AlertsAreJustified
  <2>2. g \in DOMAIN events /\ events[g].outcome # Pending
    BY <2>1, KindFacts
  <2> QED
    BY <2>1, <2>2 DEF Kind
<1>4. ShadowIsolated'
  <2> SUFFICES ASSUME NEW g \in Fingerprints
               PROVE  /\ Kind(g)' = "absent" \/ events'[g].shadow =>
                           /\ raw'[g] = 0 /\ alerts[g] = 0
                           /\ \A p \in Pollers : g \notin DOMAIN batch[p] /\ alarm[p] # g
                      /\ Kind(g)' # "absent" => raw'[g] <= events'[g].count
    BY DEF ShadowIsolated, pollVars
  <2>1. /\ Kind(g) = "absent" \/ events[g].shadow =>
             /\ raw[g] = 0 /\ alerts[g] = 0
             /\ \A p \in Pollers : g \notin DOMAIN batch[p] /\ alarm[p] # g
        /\ Kind(g) # "absent" => raw[g] <= events[g].count
    BY DEF Accurate, ShadowIsolated
  <2>2. /\ Kind(g) = "absent" <=> g \notin DOMAIN events
        /\ Kind(g)' = "absent" <=> g \notin DOMAIN events'
    BY DEF Kind
  <2>3. CASE g # f
    BY <2>1, <2>2, <2>3
  <2>4. CASE g = f
    BY <2>1, <2>2, <2>4
  <2> QED
    BY <2>3, <2>4
<1> QED
  BY <1>1, <1>2, <1>3, <1>4 DEF Accurate

LEMMA RecordAccurate ==
    ASSUME TypeOK, Accurate, NEW opp \in Opportunities, Record(opp)
    PROVE  Accurate'
<1> DEFINE f == EconomicFingerprint(opp)
<1>1. f \in Fingerprints
  BY DEF Fingerprints
<1>2. events' = Put(events, f, IF f \in DOMAIN events THEN Counted(events[f], FALSE)
                               ELSE NewRow(opp, FALSE))
  BY DEF Record
<1>3. /\ raw'[f] = raw[f] + 1 /\ \A g \in Fingerprints : g # f => raw'[g] = raw[g]
      /\ raw[f] \in Nat
  BY <1>1 DEF Record, TypeOK
<1>4. /\ f \notin DOMAIN events => raw[f] = 0
      /\ f \in DOMAIN events => raw[f] <= events[f].count /\ events[f].count \in Nat
  BY <1>1, KindFacts DEF Accurate, ShadowIsolated, TypeOK, TableOK, RowOK
<1>5. UNCHANGED <<closing, pollVars, alerts>>
  BY DEF Record
<1> HIDE DEF f
<1>6. raw'[f] <= events'[f].count
  <2>1. /\ f \in DOMAIN events => events'[f].count = events[f].count + 1
        /\ f \notin DOMAIN events => events'[f].count = 1
    BY <1>2, DetectedRows
  <2> QED
    BY <1>3, <1>4, <2>1
<1> QED
  BY <1>1, <1>2, <1>3, <1>5, <1>6, DetectedRows, DetectionAccurate

LEMMA RecordShadowAccurate ==
    ASSUME TypeOK, Accurate, NEW opp \in Opportunities, RecordShadow(opp)
    PROVE  Accurate'
<1> DEFINE f == EconomicFingerprint(opp)
<1>1. f \in Fingerprints
  BY DEF Fingerprints
<1>2. UNCHANGED <<closing, pollVars, alerts, raw>>
  BY DEF RecordShadow
<1>3. CASE f \in DOMAIN events /\ ~events[f].shadow
  <2>1. events' = events
    BY <1>3 DEF RecordShadow
  <2> QED
    BY <1>2, <2>1 DEF Accurate, RowsAccurate, BatchesAccurate, AnswersAccurate,
         AlertsAreJustified, ShadowIsolated, Kind, pollVars
<1>4. CASE f \notin DOMAIN events \/ events[f].shadow
  <2>1. events' = Put(events, f, IF f \in DOMAIN events THEN Counted(events[f], TRUE)
                                 ELSE NewRow(opp, TRUE))
    BY <1>4 DEF RecordShadow
  <2>2. /\ f \notin DOMAIN events => raw[f] = 0
        /\ f \in DOMAIN events => raw[f] <= events[f].count /\ events[f].count \in Nat
        /\ raw[f] \in Nat
    BY <1>1, KindFacts DEF Accurate, ShadowIsolated, TypeOK, TableOK, RowOK
  <2> HIDE DEF f
  <2>3. raw'[f] <= events'[f].count
    <3>1. /\ f \in DOMAIN events => events'[f].count = events[f].count + 1
          /\ f \notin DOMAIN events => events'[f].count = 1
      BY <1>4, <2>1, DetectedRows
    <3> QED
      BY <1>2, <2>2, <3>1
  <2> QED
    BY <1>1, <1>2, <1>4, <2>1, <2>3, DetectedRows, DetectionAccurate
<1> QED
  BY <1>3, <1>4

LEMMA PollAccurate ==
    ASSUME Accurate, NEW p \in Pollers, Poll(p), TypeOK
    PROVE  Accurate'
<1>1. \A f \in PendingBatch : f \in DOMAIN events /\ ~events[f].shadow
  BY DEF PendingBatch, PendingEvents
<1>2. batch' = [batch EXCEPT ![p] = [f \in PendingBatch |-> events[f].opp]]
  BY DEF Poll
<1>3. BatchesAccurate'
  BY <1>1, <1>2 DEF Poll, Accurate, BatchesAccurate, TypeOK
<1>4. ShadowIsolated'
  BY <1>1, <1>2, KindFacts DEF Poll, Accurate, ShadowIsolated, TypeOK, Kind
<1> QED
  BY <1>3, <1>4 DEF Poll, Accurate, RowsAccurate, AnswersAccurate, AlertsAreJustified, Kind

LEMMA AnswerAccurate ==
    ASSUME TypeOK, Accurate, NEW p \in Pollers, Answer(p)
    PROVE  Accurate'
<1>1. Extends(closing, Only(closing, Queried(batch[p])))
  BY DEF Extends, Only
<1>2. AnswersAccurate'
  BY <1>1 DEF Answer, Accurate, AnswersAccurate, TypeOK
<1> QED
  BY <1>2 DEF Answer, Accurate, RowsAccurate, BatchesAccurate, AlertsAreJustified,
       ShadowIsolated, Kind

\* A poll that advances keeps a part of its batch, and its answer or none.
LEMMA AdvanceAccurate ==
    ASSUME TypeOK, NEW p \in Pollers, NEW f, NEW next, Advance(p, f, next)
    PROVE  /\ \A q \in Pollers : DOMAIN batch'[q] \subseteq DOMAIN batch[q]
           /\ \A q \in Pollers : \A g \in DOMAIN batch'[q] : batch'[q][g] = batch[q][g]
           /\ AnswersAccurate /\ closing' = closing => AnswersAccurate'
<1> DEFINE left == Only(batch[p], DOMAIN batch[p] \ {f})
<1>1. batch' = [batch EXCEPT ![p] = left]
  BY DEF Advance
<1>2. DOMAIN left \subseteq DOMAIN batch[p] /\ \A g \in DOMAIN left : left[g] = batch[p][g]
  BY DEF Only
<1>3. \/ resolved' = [resolved EXCEPT ![p] = @]
      \/ resolved' = [resolved EXCEPT ![p] = <<>>]
  BY DEF Advance
<1>4. Extends(closing, <<>>)
  BY DEF Extends
<1> HIDE DEF left
<1>5. AnswersAccurate /\ closing' = closing => AnswersAccurate'
  BY <1>3, <1>4 DEF AnswersAccurate, TypeOK
<1> QED
  BY <1>1, <1>2, <1>5 DEF TypeOK

LEMMA SkipUnresolvedAccurate ==
    ASSUME TypeOK, Accurate, NEW p \in Pollers, NEW f \in Fingerprints, SkipUnresolved(p, f)
    PROVE  Accurate'
<1>1. Advance(p, f, "settling") /\ UNCHANGED <<closing, events, raw, alarm, alerts>>
  BY DEF SkipUnresolved
<1>2. BatchesAccurate' /\ AnswersAccurate'
  BY <1>1, AdvanceAccurate DEF Accurate, BatchesAccurate
<1>3. ShadowIsolated'
  BY <1>1, AdvanceAccurate DEF Accurate, ShadowIsolated, Kind
<1> QED
  BY <1>1, <1>2, <1>3 DEF Accurate, RowsAccurate, AlertsAreJustified, Kind

\* An entry is settled with the outcome of the opportunity in its row at the
\* closing prices, whatever has happened since the batch was read.
LEMMA SettledAtClosing ==
    ASSUME Accurate, NEW p \in Pollers, NEW f, SettleEntry(p, f)
    PROVE  /\ f \in DOMAIN events /\ ~events[f].shadow
           /\ FullyResolved(events[f].opp, closing)
           /\ batch[p][f] = events[f].opp
           /\ Settle(batch[p][f], resolved[p]) = Settle(events[f].opp, closing)
<1>1. f \in DOMAIN batch[p] /\ FullyResolved(batch[p][f], resolved[p])
  BY DEF SettleEntry, IsNext
<1>2. f \in DOMAIN events /\ ~events[f].shadow /\ batch[p][f] = events[f].opp
  BY <1>1 DEF Accurate, BatchesAccurate
<1>3. Extends(closing, resolved[p])
  BY DEF Accurate, AnswersAccurate
<1> QED
  BY <1>1, <1>2, <1>3, SettleIsStable

LEMMA SettleEntryAccurate ==
    ASSUME TypeOK, Accurate, NEW p \in Pollers, NEW f \in Fingerprints, SettleEntry(p, f)
    PROVE  Accurate'
<1> DEFINE result == Settle(events[f].opp, closing)
<1>1. /\ f \in DOMAIN events /\ ~events[f].shadow /\ batch[p][f] = events[f].opp
      /\ FullyResolved(events[f].opp, closing) /\ Settle(batch[p][f], resolved[p]) = result
  BY SettledAtClosing
<1>2. events' = Put(events, f, Resolved(events[f], result))
  BY <1>1 DEF SettleEntry
<1>3. UNCHANGED <<closing, raw, alerts>>
  BY DEF SettleEntry
<1>4. \/ Alarming(events[f].opp, result) /\ alarm' = [alarm EXCEPT ![p] = f]
      \/ alarm' = alarm
  BY <1>1 DEF SettleEntry
<1>5. Advance(p, f, "alerting") \/ Advance(p, f, "settling")
  BY DEF SettleEntry
<1>6. result # Pending
  BY OutcomeStatus
<1>7. FullyResolved(events[f].opp, closing) /\ result = Settle(events[f].opp, closing)
  BY <1>1
<1> HIDE DEF result
<1>8. /\ DOMAIN events' = DOMAIN events
      /\ \A g \in DOMAIN events : g # f => events'[g] = events[g]
      /\ events'[f] = Resolved(events[f], result)
  BY <1>1, <1>2 DEF Put
<1>9. \A g \in DOMAIN events : /\ events'[g].opp = events[g].opp
                               /\ events'[g].shadow = events[g].shadow
                               /\ events'[g].count = events[g].count
  BY <1>8 DEF Resolved
<1>10. events'[f].outcome = result
  BY <1>8 DEF Resolved
<1>11. RowsAccurate'
  BY <1>1, <1>3, <1>7, <1>8, <1>9, <1>10 DEF Accurate, RowsAccurate
<1>12. BatchesAccurate' /\ AnswersAccurate'
  BY <1>3, <1>5, <1>8, <1>9, AdvanceAccurate DEF Accurate, BatchesAccurate
<1>13. AlertsAreJustified'
  <2> SUFFICES ASSUME NEW g \in Fingerprints, alerts[g] > 0 \/ \E q \in Pollers : alarm'[q] = g
               PROVE  /\ Kind(g)' = "settled"
                      /\ Alarming(events'[g].opp, events'[g].outcome)
    BY <1>3 DEF AlertsAreJustified
  <2>1. CASE alerts[g] > 0 \/ \E q \in Pollers : alarm[q] = g
    <3>1. /\ g \in DOMAIN events /\ events[g].outcome # Pending
          /\ Alarming(events[g].opp, events[g].outcome)
      BY <2>1, KindFacts DEF Accurate, AlertsAreJustified
    <3>2. events'[g].outcome = events[g].outcome
      BY <1>7, <1>8, <1>10, <3>1 DEF Accurate, RowsAccurate
    <3> QED
      BY <1>8, <1>9, <3>1, <3>2 DEF Kind
  <2>2. CASE Alarming(events[f].opp, result) /\ g = f
    BY <1>1, <1>6, <1>8, <1>9, <1>10, <2>2 DEF Kind
  <2> QED
    BY <1>4, <2>1, <2>2 DEF TypeOK
<1>14. ShadowIsolated'
  <2> SUFFICES ASSUME NEW g \in Fingerprints
               PROVE  /\ g \notin DOMAIN events' \/ events'[g].shadow =>
                           /\ raw[g] = 0 /\ alerts[g] = 0
                           /\ \A q \in Pollers : g \notin DOMAIN batch'[q] /\ alarm'[q] # g
                      /\ g \in DOMAIN events' => raw[g] <= events'[g].count
    BY <1>3 DEF ShadowIsolated, Kind
  <2>1. /\ g \notin DOMAIN events \/ events[g].shadow =>
             /\ raw[g] = 0 /\ alerts[g] = 0
             /\ \A q \in Pollers : g \notin DOMAIN batch[q] /\ alarm[q] # g
        /\ g \in DOMAIN events => raw[g] <= events[g].count
    BY KindFacts DEF Accurate, ShadowIsolated
  <2>2. g \notin DOMAIN events \/ events[g].shadow =>
             \A q \in Pollers : alarm'[q] # g
    BY <1>1, <1>4, <2>1 DEF TypeOK
  <2>3. \A q \in Pollers : DOMAIN batch'[q] \subseteq DOMAIN batch[q]
    BY <1>5, AdvanceAccurate
  <2> QED
    BY <1>8, <1>9, <2>1, <2>2, <2>3
<1> QED
  BY <1>11, <1>12, <1>13, <1>14 DEF Accurate

LEMMA AlertAccurate ==
    ASSUME TypeOK, Accurate, NEW p \in Pollers, Alert(p)
    PROVE  Accurate'
<1> DEFINE f == alarm[p]
<1>1. f \in Fingerprints
  BY DEF Alert, TypeOK, PollerOK
<1>2. UNCHANGED <<closing, events, raw, batch>>
  BY DEF Alert
<1>3. \A g \in Fingerprints : g # f => alerts'[g] = alerts[g]
  BY DEF Alert, TypeOK
<1>4. alarm' = [alarm EXCEPT ![p] = NoAlarm]
  BY DEF Alert
<1>5. Kind(f) = "settled" /\ Alarming(events[f].opp, events[f].outcome)
  BY <1>1 DEF Accurate, AlertsAreJustified
<1>6. f \in DOMAIN events /\ ~events[f].shadow
  BY <1>5, KindFacts DEF Accurate, RowsAccurate
<1>7. \/ resolved' = [resolved EXCEPT ![p] = @]
      \/ resolved' = [resolved EXCEPT ![p] = <<>>]
  BY DEF Alert
<1>8. AnswersAccurate'
  <2>1. Extends(closing, <<>>)
    BY DEF Extends
  <2> QED
    BY <1>2, <1>7, <2>1 DEF Accurate, AnswersAccurate, TypeOK
<1>9. \A q \in Pollers : alarm'[q] = alarm[q] \/ alarm'[q] = NoAlarm
  BY <1>4 DEF TypeOK
<1> HIDE DEF f
<1>10. AlertsAreJustified'
  BY <1>2, <1>3, <1>5, <1>9, NoAlarmIsNoFingerprint DEF Accurate, AlertsAreJustified, Kind
<1>11. ShadowIsolated'
  BY <1>2, <1>3, <1>6, <1>9, NoAlarmIsNoFingerprint DEF Accurate, ShadowIsolated, Kind
<1> QED
  BY <1>2, <1>8, <1>10, <1>11 DEF Accurate, RowsAccurate, BatchesAccurate

LEMMA AbortAccurate ==
    ASSUME TypeOK, Accurate, NEW p \in Pollers, Abort(p)
    PROVE  Accurate'
<1>1. UNCHANGED <<closing, events, raw, alerts>>
  BY DEF Abort
<1>2. \A q \in Pollers : /\ batch'[q] = batch[q] \/ batch'[q] = <<>>
                         /\ resolved'[q] = resolved[q] \/ resolved'[q] = <<>>
                         /\ alarm'[q] = alarm[q] \/ alarm'[q] = NoAlarm
  BY DEF Abort, TypeOK
<1>3. AnswersAccurate' /\ BatchesAccurate'
  BY <1>1, <1>2 DEF Accurate, AnswersAccurate, BatchesAccurate, Extends
<1>4. AlertsAreJustified'
  BY <1>1, <1>2, NoAlarmIsNoFingerprint DEF Accurate, AlertsAreJustified, Kind
<1>5. ShadowIsolated'
  BY <1>1, <1>2, NoAlarmIsNoFingerprint DEF Accurate, ShadowIsolated, Kind
<1> QED
  BY <1>1, <1>3, <1>4, <1>5 DEF Accurate, RowsAccurate

LEMMA StutterAccurate ==
    ASSUME Accurate, UNCHANGED vars
    PROVE  Accurate'
BY DEF Accurate, RowsAccurate, BatchesAccurate, AnswersAccurate, AlertsAreJustified,
     ShadowIsolated, Kind, vars, pollVars

\* Rows, batches, answers and alerts stay accurate in every step, with detections,
\* other polls, market closings and aborts between any two steps of a poll.
THEOREM IInvStep == IInv /\ [Next]_vars => IInv'
<1> SUFFICES ASSUME IInv, [Next]_vars
             PROVE  IInv'
  OBVIOUS
<1>1. TypeOK /\ Accurate /\ BatchesAccurate
  BY DEF IInv, Accurate
<1>2. TypeOK'
  BY <1>1, TypeStep
<1>3. Accurate'
  <2>1. ASSUME NEW m \in Markets, NEW yes \in YesPrices, Close(m, yes)
        PROVE  Accurate'
    BY <1>1, <2>1, CloseAccurate
  <2>2. ASSUME NEW opp \in Opportunities, Record(opp) \/ RecordShadow(opp)
        PROVE  Accurate'
    BY <1>1, <2>2, RecordAccurate, RecordShadowAccurate
  <2>3. ASSUME NEW p \in Pollers, Poll(p) \/ Answer(p) \/ Alert(p) \/ Abort(p)
        PROVE  Accurate'
    BY <1>1, <2>3, PollAccurate, AnswerAccurate, AlertAccurate, AbortAccurate
  <2>4. ASSUME NEW p \in Pollers, NEW f \in Fingerprints,
               SkipUnresolved(p, f) \/ SettleEntry(p, f)
        PROVE  Accurate'
    BY <1>1, <2>4, SkipUnresolvedAccurate, SettleEntryAccurate
  <2>5. CASE UNCHANGED vars
    BY <1>1, <2>5, StutterAccurate
  <2> QED
    BY <2>1, <2>2, <2>3, <2>4, <2>5 DEF Next, Emission, Settlements
<1> QED
  BY <1>2, <1>3 DEF IInv, Accurate

\* The ledger is accurate in every reachable state.
THEOREM LedgerInvariant == Spec => []IInv
<1>1. Init => IInv
  BY InitType, InitAccurate DEF IInv, Accurate
<1> QED
  BY <1>1, IInvStep, PTL DEF Spec

\* Every reachable state of the store and of its pollers is well typed.
THEOREM TypeCorrect == Spec => []TypeOK
<1>1. IInv => TypeOK
  BY DEF IInv
<1> QED
  BY <1>1, LedgerInvariant, PTL

\* No audit alert without a structural lock that settled at a loss.
THEOREM AlertsJustified == Spec => []AlertsAreJustified
<1>1. IInv => AlertsAreJustified
  BY DEF IInv
<1> QED
  BY <1>1, LedgerInvariant, PTL

\* Shadow observations reach neither the raw feed nor a poll nor an alert.
THEOREM ShadowsIsolated == Spec => []ShadowIsolated
<1>1. IInv => ShadowIsolated
  BY DEF IInv
<1> QED
  BY <1>1, LedgerInvariant, PTL

-----------------------------------------------------------------------------
(* The ledger implements the event life cycle.  The instance has copies of *)
(* Settlement's operators, which are the operators themselves.             *)

LEMMA SameOperators ==
    /\ \A o : Lifecycle!EconomicFingerprint(o) = EconomicFingerprint(o)
    /\ Lifecycle!Fingerprints = Fingerprints
    /\ \A new, old : Lifecycle!Extends(new, old) <=> Extends(new, old)
    /\ \A o, c : Lifecycle!FullyResolved(o, c) <=> FullyResolved(o, c)
    /\ \A o, c : Lifecycle!Settle(o, c) = Settle(o, c)
<1>1. \A o : Lifecycle!EconomicFingerprint(o) = EconomicFingerprint(o)
  BY DEF EconomicFingerprint, Lifecycle!EconomicFingerprint
<1>2. Lifecycle!Fingerprints = Fingerprints
  BY <1>1 DEF Fingerprints, Lifecycle!Fingerprints
<1>3. \A new, old : Lifecycle!Extends(new, old) <=> Extends(new, old)
  BY DEF Extends, Lifecycle!Extends
<1>4. \A o, c : Lifecycle!FullyResolved(o, c) <=> FullyResolved(o, c)
  BY DEF FullyResolved, Lifecycle!FullyResolved
<1>5. \A amounts : Lifecycle!SumFunction(amounts) = SumFunction(amounts)
  BY DEF SumFunction, Lifecycle!SumFunction, SumFunctionOnSet, Lifecycle!SumFunctionOnSet,
       FoldFunctionOnSet, Lifecycle!FoldFunctionOnSet, MapThenFoldSet,
       Lifecycle!MapThenFoldSet
<1>6. \A o, c : Lifecycle!Receipts(o, c) = Receipts(o, c)
  BY DEF Receipts, Lifecycle!Receipts, SettledPayout, Lifecycle!SettledPayout,
       VoidLo, VoidHi, Lifecycle!VoidLo, Lifecycle!VoidHi
<1>7. \A o, c : Lifecycle!Gains(o, c) = Gains(o, c)
  BY DEF Gains, Lifecycle!Gains, SettledPayout, Lifecycle!SettledPayout,
       VoidLo, VoidHi, Lifecycle!VoidLo, Lifecycle!VoidHi
<1>8. \A o, c : Lifecycle!Settle(o, c) = Settle(o, c)
  BY <1>5, <1>6, <1>7 DEF Settle, Lifecycle!Settle, Voided, Lifecycle!Voided, IsVoid,
       Lifecycle!IsVoid, VoidLo, VoidHi, Lifecycle!VoidLo, Lifecycle!VoidHi
<1> QED
  BY <1>1, <1>2, <1>3, <1>4, <1>8

LEMMA InitImplements == Init => Lifecycle!Init
BY SameOperators DEF Init, Lifecycle!Init, Lifecycle!Nothing, NoAlarm, kindOf, firstOf,
     outcomeOf, Kind

\* A step that changes neither a row's status nor its opportunity is a stutter.
LEMMA StutterImplements ==
    ASSUME closing' = closing, DOMAIN events' = DOMAIN events,
           \A f \in DOMAIN events : /\ events'[f].opp = events[f].opp
                                    /\ events'[f].outcome = events[f].outcome
                                    /\ Kind(f)' = Kind(f)
    PROVE  UNCHANGED Lifecycle!lifecycleVars
<1>1. \A f : Kind(f)' = Kind(f)
  BY DEF Kind
<1>2. UNCHANGED <<kindOf, firstOf, outcomeOf>>
  BY <1>1, KindFacts DEF kindOf, firstOf, outcomeOf
<1> QED
  BY <1>2 DEF Lifecycle!lifecycleVars

LEMMA CloseImplements ==
    ASSUME NEW m \in Markets, NEW yes \in YesPrices, Close(m, yes)
    PROVE  Lifecycle!Next
<1>1. Extends(closing', closing)
  BY DEF Close, Extends, Put
<1>2. UNCHANGED <<kindOf, firstOf, outcomeOf>>
  BY DEF Close, kindOf, firstOf, outcomeOf, Kind
<1> QED
  BY <1>1, <1>2, SameOperators DEF Lifecycle!Next, Lifecycle!Close

\* The first detection of an event.
LEMMA NewImplements ==
    ASSUME NEW opp \in Opportunities, NEW shadow \in BOOLEAN, closing' = closing,
           EconomicFingerprint(opp) \notin DOMAIN events,
           events' = Put(events, EconomicFingerprint(opp), NewRow(opp, shadow))
    PROVE  Lifecycle!Next
<1> DEFINE f == EconomicFingerprint(opp)
           as == IF shadow THEN "shadow" ELSE "pending"
<1>1. f \in Fingerprints /\ as \in {"shadow", "pending"}
  BY DEF Fingerprints
<1>2. /\ DOMAIN events' = DOMAIN events \cup {f}
      /\ events'[f].opp = opp /\ events'[f].outcome = Pending /\ events'[f].shadow = shadow
      /\ \A g \in DOMAIN events : g # f => events'[g] = events[g]
  BY DEF Put, NewRow
<1>3. Kind(f) = "absent" /\ Kind(f)' = as
  BY <1>2 DEF Kind
<1> HIDE DEF f, as
<1>4. \A g : g # f => Kind(g)' = Kind(g)
  BY <1>2 DEF Kind
<1>5. kindOf' = [kindOf EXCEPT ![f] = as]
  BY <1>1, <1>3, <1>4 DEF kindOf
<1>6. firstOf' = [firstOf EXCEPT ![f] = opp]
  BY <1>1, <1>2 DEF firstOf
<1>7. as # "settled" /\ Kind(f) # "settled"
  BY <1>1, <1>3
<1>8. outcomeOf' = outcomeOf
  <2> SUFFICES ASSUME NEW g \in Fingerprints
               PROVE  (IF Kind(g)' = "settled" THEN events'[g].outcome ELSE NoAlarm)
                      = (IF Kind(g) = "settled" THEN events[g].outcome ELSE NoAlarm)
    BY DEF outcomeOf
  <2>1. CASE g = f
    BY <1>3, <1>7, <2>1
  <2>2. CASE g # f
    BY <1>2, <1>4, <2>2, KindFacts
  <2> QED
    BY <2>1, <2>2
<1>9. kindOf[f] = "absent"
  BY <1>1, <1>3 DEF kindOf
<1>10. Lifecycle!Detect(opp, as)
  BY <1>1, <1>5, <1>6, <1>8, <1>9, SameOperators DEF Lifecycle!Detect, f
<1> QED
  BY <1>1, <1>10 DEF Lifecycle!Next

\* The first emission of an event that was only observed.
LEMMA GraduateImplements ==
    ASSUME Accurate, NEW f \in Fingerprints, closing' = closing, f \in DOMAIN events,
           events[f].shadow, events' = Put(events, f, Counted(events[f], FALSE))
    PROVE  Lifecycle!Next
<1>1. /\ DOMAIN events' = DOMAIN events
      /\ events'[f].opp = events[f].opp /\ events'[f].outcome = events[f].outcome
      /\ events'[f].shadow = FALSE
      /\ \A g \in DOMAIN events : g # f => events'[g] = events[g]
  BY DEF Put, Counted
<1>2. Kind(f) = "shadow"
  BY DEF Kind, Accurate, RowsAccurate
<1>3. Kind(f)' = "pending"
  BY <1>1 DEF Kind, Accurate, RowsAccurate
<1>4. \A g : g # f => Kind(g)' = Kind(g)
  BY <1>1 DEF Kind
<1>5. kindOf' = [kindOf EXCEPT ![f] = "pending"] /\ kindOf[f] = "shadow"
  BY <1>2, <1>3, <1>4 DEF kindOf
<1>6. firstOf' = firstOf
  BY <1>1 DEF firstOf
<1>7. outcomeOf' = outcomeOf
  BY <1>1, <1>2, <1>3, <1>4, KindFacts DEF outcomeOf
<1>8. Lifecycle!Graduate(f)
  BY <1>5, <1>6, <1>7 DEF Lifecycle!Graduate
<1> QED
  BY <1>8, SameOperators DEF Lifecycle!Next

LEMMA RecordImplements ==
    ASSUME Accurate, NEW opp \in Opportunities, Record(opp)
    PROVE  Lifecycle!Next \/ UNCHANGED Lifecycle!lifecycleVars
<1> DEFINE f == EconomicFingerprint(opp)
<1>1. f \in Fingerprints
  BY DEF Fingerprints
<1>2. closing' = closing
  BY DEF Record
<1>3. CASE f \notin DOMAIN events
  <2>1. events' = Put(events, f, NewRow(opp, FALSE))
    BY <1>3 DEF Record
  <2> QED
    BY <1>2, <1>3, <2>1, NewImplements
<1>4. CASE f \in DOMAIN events
  <2>1. events' = Put(events, f, Counted(events[f], FALSE))
    BY <1>4 DEF Record
  <2> HIDE DEF f
  <2>2. CASE events[f].shadow
    BY <1>1, <1>2, <1>4, <2>1, <2>2, GraduateImplements
  <2>3. CASE ~events[f].shadow
    <3>1. /\ DOMAIN events' = DOMAIN events
          /\ \A g \in DOMAIN events : g # f => events'[g] = events[g]
          /\ events'[f].opp = events[f].opp /\ events'[f].outcome = events[f].outcome
          /\ ~events'[f].shadow
      BY <1>4, <2>1 DEF Put, Counted
    <3>2. \A g \in DOMAIN events : Kind(g)' = Kind(g)
      BY <2>3, <3>1 DEF Kind
    <3> QED
      BY <1>2, <3>1, <3>2, StutterImplements
  <2> QED
    BY <2>2, <2>3
<1> QED
  BY <1>3, <1>4

LEMMA RecordShadowImplements ==
    ASSUME NEW opp \in Opportunities, RecordShadow(opp)
    PROVE  Lifecycle!Next \/ UNCHANGED Lifecycle!lifecycleVars
<1> DEFINE f == EconomicFingerprint(opp)
<1>1. closing' = closing
  BY DEF RecordShadow
<1>2. CASE f \notin DOMAIN events
  <2>1. events' = Put(events, f, NewRow(opp, TRUE))
    BY <1>2 DEF RecordShadow
  <2> QED
    BY <1>1, <1>2, <2>1, NewImplements
<1>3. CASE f \in DOMAIN events
  <2>1. \/ events' = events
        \/ events[f].shadow /\ events' = Put(events, f, Counted(events[f], TRUE))
    BY <1>3 DEF RecordShadow
  <2> HIDE DEF f
  <2>2. /\ DOMAIN events' = DOMAIN events
        /\ \A g \in DOMAIN events : g # f => events'[g] = events[g]
        /\ events'[f].opp = events[f].opp /\ events'[f].outcome = events[f].outcome
        /\ events'[f].shadow <=> events[f].shadow
    BY <1>3, <2>1 DEF Put, Counted
  <2>3. \A g \in DOMAIN events : Kind(g)' = Kind(g)
    BY <2>2 DEF Kind
  <2> QED
    BY <1>1, <2>2, <2>3, StutterImplements
<1> QED
  BY <1>2, <1>3

\* A settled entry concludes its event, or writes the outcome it already has.
LEMMA SettleEntryImplements ==
    ASSUME Accurate, NEW p \in Pollers, NEW f \in Fingerprints, SettleEntry(p, f)
    PROVE  Lifecycle!Next \/ UNCHANGED Lifecycle!lifecycleVars
<1> DEFINE result == Settle(events[f].opp, closing)
<1>1. /\ f \in DOMAIN events /\ ~events[f].shadow /\ batch[p][f] = events[f].opp
      /\ FullyResolved(events[f].opp, closing) /\ Settle(batch[p][f], resolved[p]) = result
  BY SettledAtClosing
<1>2. events' = Put(events, f, Resolved(events[f], result)) /\ closing' = closing
  BY <1>1 DEF SettleEntry
<1>3. result # Pending
  BY OutcomeStatus
<1>4. events[f].outcome # Pending => events[f].outcome = result
  BY <1>1 DEF Accurate, RowsAccurate
<1>5. firstOf[f] = events[f].opp
  BY <1>1 DEF firstOf
<1>6. firstOf[f] = events[f].opp => Lifecycle!Settle(firstOf[f], closing) = result
  BY SameOperators
<1> HIDE DEF result
<1>7. /\ DOMAIN events' = DOMAIN events
      /\ \A g \in DOMAIN events : g # f => events'[g] = events[g]
      /\ events'[f].opp = events[f].opp /\ events'[f].outcome = result
  BY <1>1, <1>2 DEF Put, Resolved
<1>8. \A g : g # f => Kind(g)' = Kind(g)
  BY <1>7 DEF Kind
<1>9. Kind(f)' = "settled"
  BY <1>1, <1>3, <1>7 DEF Kind
<1>10. CASE events[f].outcome # Pending
  <2>1. \A g \in DOMAIN events : Kind(g)' = Kind(g)
    BY <1>8, <1>9, <1>10, KindFacts
  <2> QED
    BY <1>2, <1>4, <1>7, <1>10, <2>1, StutterImplements
<1>11. CASE events[f].outcome = Pending
  <2>1. Kind(f) = "pending"
    BY <1>1, <1>11 DEF Kind
  <2>2. kindOf' = [kindOf EXCEPT ![f] = "settled"] /\ kindOf[f] = "pending"
    BY <1>8, <1>9, <2>1 DEF kindOf
  <2>3. firstOf' = firstOf
    BY <1>7 DEF firstOf
  <2>4. outcomeOf' = [outcomeOf EXCEPT ![f] = result]
    BY <1>7, <1>8, <1>9, KindFacts DEF outcomeOf
  <2>5. Lifecycle!FullyResolved(firstOf[f], closing)
    BY <1>1, <1>5, SameOperators
  <2>6. Lifecycle!Conclude(f)
    BY <1>2, <1>5, <1>6, <2>2, <2>3, <2>4, <2>5 DEF Lifecycle!Conclude
  <2> QED
    BY <2>6, SameOperators DEF Lifecycle!Next
<1> QED
  BY <1>10, <1>11

LEMMA NextImplements ==
    ASSUME IInv, [Next]_vars
    PROVE  [Lifecycle!Next]_Lifecycle!lifecycleVars
<1>1. Accurate
  BY DEF IInv, Accurate
<1>2. ASSUME NEW m \in Markets, NEW yes \in YesPrices, Close(m, yes)
      PROVE  Lifecycle!Next
  BY <1>2, CloseImplements
<1>3. ASSUME NEW opp \in Opportunities, Record(opp) \/ RecordShadow(opp)
      PROVE  Lifecycle!Next \/ UNCHANGED Lifecycle!lifecycleVars
  BY <1>1, <1>3, RecordImplements, RecordShadowImplements
<1>4. ASSUME NEW p \in Pollers, NEW f \in Fingerprints, SettleEntry(p, f)
      PROVE  Lifecycle!Next \/ UNCHANGED Lifecycle!lifecycleVars
  BY <1>1, <1>4, SettleEntryImplements
<1>5. ASSUME UNCHANGED <<closing, events>>
      PROVE  UNCHANGED Lifecycle!lifecycleVars
  BY <1>5 DEF kindOf, firstOf, outcomeOf, Kind, Lifecycle!lifecycleVars
<1>6. ASSUME NEW p \in Pollers, Poll(p) \/ Answer(p) \/ Alert(p) \/ Abort(p)
      PROVE  UNCHANGED <<closing, events>>
  BY <1>6 DEF Poll, Answer, Alert, Abort
<1>7. ASSUME NEW p \in Pollers, NEW f \in Fingerprints, SkipUnresolved(p, f)
      PROVE  UNCHANGED <<closing, events>>
  BY <1>7 DEF SkipUnresolved
<1>8. CASE UNCHANGED vars
  BY <1>5, <1>8 DEF vars
<1> QED
  BY <1>2, <1>3, <1>4, <1>5, <1>6, <1>7, <1>8 DEF Next, Emission, Settlements

\* The ledger implements the event life cycle: one final outcome per event, the
\* audit of the opportunity first seen at the prices all its markets closed at.
THEOREM Implementation == Spec => ImplementsLifecycle
<1>1. Init => Lifecycle!Init
  BY InitImplements
<1>2. IInv /\ [Next]_vars => [Lifecycle!Next]_Lifecycle!lifecycleVars
  BY NextImplements
<1> QED
  BY <1>1, <1>2, LedgerInvariant, PTL DEF Spec, ImplementsLifecycle, Lifecycle!Spec

-----------------------------------------------------------------------------
(* With the scanner alone, a loss is alerted at most once: a batch holds   *)
(* only pending events, for nobody else settles them after it is read, and *)
(* a pending event has no alert.                                           *)

BatchesPending ==
    \A p \in Pollers : \A f \in DOMAIN batch[p] : events[f].outcome = Pending

NotYetAlerted ==
    \A p \in Pollers : \A f \in Fingerprints : alarm[p] = f => alerts[f] = 0

OneAlert == BatchesPending /\ NotYetAlerted /\ AlertsAtMostOnce

\* A detection leaves the outcomes of the rows in a batch alone.
LEMMA EmissionOneAlert ==
    ASSUME IInv, OneAlert, NEW opp \in Opportunities, Record(opp) \/ RecordShadow(opp)
    PROVE  OneAlert'
<1> DEFINE g == EconomicFingerprint(opp)
<1>1. UNCHANGED <<batch, alarm, alerts>>
  BY DEF Record, RecordShadow, pollVars
<1>2. \/ events' = events
      \/ events' = Put(events, g, IF g \in DOMAIN events THEN Counted(events[g], FALSE)
                                  ELSE NewRow(opp, FALSE))
      \/ events' = Put(events, g, IF g \in DOMAIN events THEN Counted(events[g], TRUE)
                                  ELSE NewRow(opp, TRUE))
  BY DEF Record, RecordShadow
<1>3. \A f \in DOMAIN events : events'[f].outcome = events[f].outcome
  <2> HIDE DEF g
  <2>1. ASSUME NEW shadow \in BOOLEAN, NEW f \in DOMAIN events,
               events' = Put(events, g, IF g \in DOMAIN events THEN Counted(events[g], shadow)
                                        ELSE NewRow(opp, shadow))
        PROVE  events'[f].outcome = events[f].outcome
    BY <2>1 DEF Put, Counted
  <2> QED
    BY <1>2, <2>1
<1>4. BatchesPending'
  BY <1>1, <1>3 DEF OneAlert, BatchesPending, IInv, BatchesAccurate
<1> QED
  BY <1>1, <1>4 DEF OneAlert, NotYetAlerted, AlertsAtMostOnce

LEMMA PollOneAlert ==
    ASSUME IInv, OneAlert, NEW p \in Pollers, Poll(p)
    PROVE  OneAlert'
<1>1. batch' = [batch EXCEPT ![p] = [f \in PendingBatch |-> events[f].opp]]
  BY DEF Poll
<1>2. \A f \in PendingBatch : events[f].outcome = Pending
  BY DEF PendingBatch, PendingEvents
<1>3. UNCHANGED <<events, alarm, alerts>>
  BY DEF Poll
<1>4. BatchesPending'
  BY <1>1, <1>2, <1>3 DEF OneAlert, BatchesPending, IInv, TypeOK
<1> QED
  BY <1>3, <1>4 DEF OneAlert, NotYetAlerted, AlertsAtMostOnce

LEMMA SkipOneAlert ==
    ASSUME IInv, OneAlert, NEW p \in Pollers, NEW f \in Fingerprints, SkipUnresolved(p, f)
    PROVE  OneAlert'
<1>1. Advance(p, f, "settling") /\ UNCHANGED <<events, alarm, alerts>>
  BY DEF SkipUnresolved
<1>2. \A q \in Pollers : DOMAIN batch'[q] \subseteq DOMAIN batch[q]
  BY <1>1, AdvanceAccurate DEF IInv
<1> QED
  BY <1>1, <1>2 DEF OneAlert, BatchesPending, NotYetAlerted, AlertsAtMostOnce

\* The entry leaves the only batch it is in before its alert is posted.
LEMMA SettleEntryOneAlert ==
    ASSUME Pollers = {Scanner}, IInv, OneAlert,
           NEW p \in Pollers, NEW f \in Fingerprints, SettleEntry(p, f)
    PROVE  OneAlert'
<1>1. f \in DOMAIN batch[p] /\ f \in DOMAIN events /\ events[f].outcome = Pending
  BY DEF SettleEntry, IsNext, IInv, BatchesAccurate, OneAlert, BatchesPending
<1>2. alerts[f] = 0
  <2>1. Kind(f) # "settled"
    BY <1>1, KindFacts
  <2> QED
    BY <2>1 DEF IInv, AlertsAreJustified, TypeOK
<1>3. events' = Put(events, f, Resolved(events[f], Settle(batch[p][f], resolved[p])))
  BY DEF SettleEntry
<1>4. \A g \in DOMAIN events : g # f => events'[g] = events[g]
  BY <1>3 DEF Put
<1>5. alerts' = alerts /\ (alarm' = alarm \/ alarm' = [alarm EXCEPT ![p] = f])
  BY DEF SettleEntry
<1>6. batch' = [batch EXCEPT ![p] = Only(batch[p], DOMAIN batch[p] \ {f})]
  BY DEF SettleEntry, Advance
<1>7. \A q \in Pollers : DOMAIN batch'[q] \subseteq DOMAIN batch[q] \ {f}
  BY <1>6 DEF Only, IInv, TypeOK
<1>8. BatchesPending'
  BY <1>4, <1>7 DEF OneAlert, BatchesPending, IInv, BatchesAccurate
<1>9. NotYetAlerted'
  BY <1>2, <1>5 DEF OneAlert, NotYetAlerted, IInv, TypeOK
<1> QED
  BY <1>5, <1>8, <1>9 DEF OneAlert, AlertsAtMostOnce

LEMMA AlertOneAlert ==
    ASSUME Pollers = {Scanner}, IInv, OneAlert, NEW p \in Pollers, Alert(p)
    PROVE  OneAlert'
<1> DEFINE f == alarm[p]
<1>1. f \in Fingerprints /\ alerts[f] = 0
  BY DEF Alert, IInv, TypeOK, PollerOK, OneAlert, NotYetAlerted
<1>2. /\ alerts' = [alerts EXCEPT ![f] = @ + 1]
      /\ alarm' = [alarm EXCEPT ![p] = NoAlarm]
      /\ UNCHANGED <<events, batch>>
  BY DEF Alert
<1> HIDE DEF f
<1>3. AlertsAtMostOnce'
  BY <1>1, <1>2 DEF OneAlert, AlertsAtMostOnce, IInv, TypeOK
<1>4. NotYetAlerted'
  BY <1>2, NoAlarmIsNoFingerprint DEF NotYetAlerted, IInv, TypeOK
<1>5. BatchesPending'
  BY <1>2 DEF OneAlert, BatchesPending
<1> QED
  BY <1>3, <1>4, <1>5 DEF OneAlert

LEMMA AbortOneAlert ==
    ASSUME IInv, OneAlert, NEW p \in Pollers, Abort(p)
    PROVE  OneAlert'
<1>1. /\ batch' = [batch EXCEPT ![p] = <<>>]
      /\ alarm' = [alarm EXCEPT ![p] = NoAlarm]
      /\ UNCHANGED <<events, alerts>>
  BY DEF Abort
<1>2. NotYetAlerted'
  BY <1>1, NoAlarmIsNoFingerprint DEF OneAlert, NotYetAlerted, IInv, TypeOK
<1>3. BatchesPending'
  BY <1>1 DEF OneAlert, BatchesPending, IInv, TypeOK
<1> QED
  BY <1>1, <1>2, <1>3 DEF OneAlert, AlertsAtMostOnce

LEMMA OtherOneAlert ==
    ASSUME OneAlert, UNCHANGED <<events, batch, alarm, alerts>>
    PROVE  OneAlert'
BY DEF OneAlert, BatchesPending, NotYetAlerted, AlertsAtMostOnce

\* A loss is alerted at most once while only the scanner settles, with re-detections,
\* closings and aborted polls in between (settlement.py:147-148).
THEOREM AlertedOnce == ASSUME Pollers = {Scanner} PROVE Spec => []AlertsAtMostOnce
<1>1. Init => OneAlert
  BY NoAlarmIsNoFingerprint DEF Init, OneAlert, BatchesPending, NotYetAlerted, AlertsAtMostOnce
<1>2. IInv /\ OneAlert /\ [Next]_vars => OneAlert'
  <2> SUFFICES ASSUME IInv, OneAlert, [Next]_vars
               PROVE  OneAlert'
    OBVIOUS
  <2>1. ASSUME NEW m \in Markets, NEW yes \in YesPrices, Close(m, yes)
        PROVE  OneAlert'
    BY <2>1, OtherOneAlert DEF Close, pollVars
  <2>2. ASSUME NEW opp \in Opportunities, Record(opp) \/ RecordShadow(opp)
        PROVE  OneAlert'
    BY <2>2, EmissionOneAlert
  <2>3. ASSUME NEW p \in Pollers, Poll(p) \/ Alert(p) \/ Abort(p)
        PROVE  OneAlert'
    BY <2>3, PollOneAlert, AlertOneAlert, AbortOneAlert
  <2>4. ASSUME NEW p \in Pollers, Answer(p)
        PROVE  OneAlert'
    BY <2>4, OtherOneAlert DEF Answer
  <2>5. ASSUME NEW p \in Pollers, NEW f \in Fingerprints,
               SkipUnresolved(p, f) \/ SettleEntry(p, f)
        PROVE  OneAlert'
    BY <2>5, SkipOneAlert, SettleEntryOneAlert
  <2>6. CASE UNCHANGED vars
    BY <2>6, OtherOneAlert DEF vars, pollVars
  <2> QED
    BY <2>1, <2>2, <2>3, <2>4, <2>5, <2>6 DEF Next, Emission, Settlements
<1>3. OneAlert => AlertsAtMostOnce
  BY DEF OneAlert
<1> QED
  BY <1>1, <1>2, <1>3, LedgerInvariant, PTL DEF Spec
=============================================================================
