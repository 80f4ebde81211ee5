----------------------------- MODULE EmitPipeline ------------------------------
(***************************************************************************)
(* One process of the scanner from detected candidates to stored and       *)
(* announced opportunities: Scanner._emit (engine/scanner.py), the filter  *)
(* and its dedupe caches (engine/filters.py), and the connection of        *)
(* SqliteStore (sinks/store.py), whose statements and commits may fail.    *)
(*                                                                         *)
(* A store method that raises leaves the transaction as SQLite left it:    *)
(* open, with the statements that succeeded, or rolled back.  Nothing in   *)
(* the program rolls it back, and the next commit commits what is open.    *)
(***************************************************************************)
EXTENDS Integers, Sequences, SequencesExt, FiniteSets, Arrangements

CONSTANTS
    Candidates,      \* opportunities that may be detected
    Feeds,           \* lists of candidates one pass may detect
    MinNotional,     \* min_notional_usdc
    ShadowFloor,     \* shadow_floor_usdc, 0 for off
    Cooldown,        \* dedupe_cooldown_seconds
    PruneThreshold,  \* _PRUNE_THRESHOLD
    MaxTime,         \* bound: the clock
    MaxPasses,       \* bound: passes
    MaxFailures,     \* bound: store calls that raise
    MaxCrashes       \* bound: restarts

\* A candidate has a dedupe key, an economic event and a rank; sound stands for
\* the gates that both filters apply alike (profit, order size, annualized, risk).
ASSUME EmitAssumption ==
    /\ IsFiniteSet(Candidates)
    /\ \A c \in Candidates :
         c.notional \in Nat /\ c.sound \in BOOLEAN /\ c.score \in Int
    /\ Feeds \subseteq Seq(Candidates)
    /\ MinNotional \in Nat /\ ShadowFloor \in Nat /\ Cooldown \in Nat
    /\ PruneThreshold \in Nat
    /\ {MaxTime, MaxPasses, MaxFailures, MaxCrashes} \subseteq Nat

VARIABLES
    clock,       \* time.monotonic
    seen,        \* _dedupe: key -> time
    shadowSeen,  \* _shadow_dedupe: key -> time
    pc,          \* "idle", "emitting" or "notifying"
    observing,   \* candidates still to pass to record_shadow
    kept,        \* the pass's kept opportunities, ranked
    at,          \* the one of them to be recorded or notified next
    emitted,     \* opportunities of the pass that record has stored
    failed,      \* opportunities of the pass logged as emit_failed
    total,       \* _totals["emitted"]
    disk,        \* the database
    work,        \* the database as the connection sees it
    posted,      \* external: per event, notifications received
    base,        \* history: rows of the database when the process started
    lastKept,    \* history: key -> time it was last kept in this process
    passes, failures, crashes   \* how much of the bounds is used

memory == <<seen, shadowSeen, kept, total, base, lastKept>>
bounds == <<passes, failures, crashes>>
vars == <<clock, pc, observing, at, emitted, failed, disk, work, posted, memory, bounds>>

Events == {c.event : c \in Candidates}
Keys == {c.key : c \in Candidates}

-----------------------------------------------------------------------------
(* The filter.                                                             *)

NoEntries == [k \in {} |-> 0]

Live(cache) == {k \in DOMAIN cache : cache[k] >= clock - Cooldown}

\* Variant: a cache past the threshold is emptied.
PrunedAll(cache) ==
    IF Cardinality(DOMAIN cache) > PruneThreshold THEN NoEntries ELSE cache

Pruned(cache) ==
    IF Cardinality(DOMAIN cache) > PruneThreshold
    THEN [k \in Live(cache) |-> cache[k]]
    ELSE cache

Fresh(cache, key) == key \in DOMAIN cache => clock - cache[key] >= Cooldown

\* Variant: the cache holds the time an entry expires.
MarkExpiry(cache, key) ==
    [k \in DOMAIN cache \cup {key} |-> IF k = key THEN clock + Cooldown ELSE cache[k]]

Mark(cache, key) == [k \in DOMAIN cache \cup {key} |-> IF k = key THEN clock ELSE cache[k]]

\* passes: the gates in order, dedupe last.
Passes(acc, opp, floor) ==
    LET cache == Pruned(acc.cache)
    IN  IF ~opp.sound \/ opp.notional < floor THEN acc
        ELSE IF Fresh(cache, opp.key)
             THEN [cache |-> Mark(cache, opp.key), kept |-> Append(acc.kept, opp)]
             ELSE [acc EXCEPT !.cache = cache]

Filtered(feed, floor, cache) ==
    FoldLeft(LAMBDA acc, opp : Passes(acc, opp, floor), [cache |-> cache, kept |-> <<>>], feed)

Rank(opps) == Arranged(opps, DOMAIN opps, [i \in DOMAIN opps |-> opps[i].score])

\* The observations below the floor of the feed.
BelowFloor(opps) == Selected(opps, {i \in DOMAIN opps : opps[i].notional < MinNotional})

-----------------------------------------------------------------------------
(* The store.                                                              *)

EmptyDb == [raw |-> [e \in Events |-> 0],
            count |-> [e \in Events |-> 0],
            real |-> [e \in Events |-> FALSE]]

Inserted(db, e) == [db EXCEPT !.raw[e] = @ + 1]

Upserted(db, e) == [db EXCEPT !.count[e] = @ + 1, !.real[e] = TRUE]

UpsertedShadow(db, e) == IF db.real[e] THEN db ELSE [db EXCEPT !.count[e] = @ + 1]

Commit(db) == disk' = db /\ work' = db

\* The call raises after statements that lead to db.
Raise(db) ==
    /\ failures < MaxFailures
    /\ failures' = failures + 1
    /\ work' \in {db, disk}
    /\ UNCHANGED disk

Rows(db) == MapThenSumSet(LAMBDA e : db.raw[e], Events)

-----------------------------------------------------------------------------
Init ==
    /\ clock = 0 /\ pc = "idle" /\ observing = <<>> /\ kept = <<>> /\ at = 1
    /\ emitted = 0 /\ failed = 0 /\ total = 0 /\ base = 0
    /\ seen = NoEntries /\ shadowSeen = NoEntries /\ lastKept = NoEntries
    /\ disk = EmptyDb /\ work = EmptyDb
    /\ posted = [e \in Events |-> 0]
    /\ passes = 0 /\ failures = 0 /\ crashes = 0

Tick ==
    /\ clock < MaxTime
    /\ clock' = clock + 1
    /\ UNCHANGED <<pc, observing, at, emitted, failed, disk, work, posted, memory, bounds>>

\* Variant: the shadow filter shares the dedupe cache of the feed.
BeginShared(feed) ==
    LET real == Filtered(feed, MinNotional, seen)
        shadow == Filtered(feed, ShadowFloor, real.cache)
    IN  /\ pc = "idle" /\ passes < MaxPasses
        /\ passes' = passes + 1
        /\ pc' = "emitting"
        /\ kept' = Rank(real.kept) /\ at' = 1 /\ emitted' = 0 /\ failed' = 0
        /\ seen' = shadow.cache
        /\ observing' = BelowFloor(shadow.kept)
        /\ lastKept' = [k \in DOMAIN lastKept \cup {c.key : c \in ToSet(kept')} |->
                          IF k \in {c.key : c \in ToSet(kept')} THEN clock ELSE lastKept[k]]
        /\ UNCHANGED <<clock, disk, work, posted, shadowSeen, total, base, failures, crashes>>

\* A pass has detected feed: both filters run over it, the kept are ranked.
Begin(feed) ==
    LET real == Filtered(feed, MinNotional, seen)
        shadow == IF ShadowFloor > 0 THEN Filtered(feed, ShadowFloor, shadowSeen)
                  ELSE [cache |-> shadowSeen, kept |-> <<>>]
        keys == {c.key : c \in ToSet(real.kept)}
    IN  /\ pc = "idle" /\ passes < MaxPasses
        /\ passes' = passes + 1
        /\ pc' = "emitting"
        /\ kept' = Rank(real.kept) /\ at' = 1 /\ emitted' = 0 /\ failed' = 0
        /\ seen' = real.cache
        /\ shadowSeen' = shadow.cache
        /\ observing' = BelowFloor(shadow.kept)
        /\ lastKept' = [k \in DOMAIN lastKept \cup keys |->
                          IF k \in keys THEN clock ELSE lastKept[k]]
        /\ UNCHANGED <<clock, disk, work, posted, total, base, failures, crashes>>

\* record_shadow of the next observation; an exception is suppressed.
Observe ==
    LET db == UpsertedShadow(work, Head(observing).event)
    IN  /\ pc = "emitting" /\ observing # <<>>
        /\ \/ Commit(db) /\ UNCHANGED failures
           \/ \E left \in {work, db} : Raise(left)
        /\ observing' = Tail(observing)
        /\ UNCHANGED <<clock, pc, at, emitted, failed, posted, memory, passes, crashes>>

Recording == pc = "emitting" /\ observing = <<>> /\ at <= Len(kept)

\* Variant: the counter counts what is kept, stored or not.
RecordEarlyCount ==
    LET e == kept[at].event
    IN  /\ Recording
        /\ emitted' = emitted + 1
        /\ \/ Commit(Upserted(Inserted(work, e), e)) /\ UNCHANGED failures
           \/ Raise(work)
        /\ pc' = "notifying"
        /\ UNCHANGED <<clock, observing, at, failed, posted, memory, passes, crashes>>

\* record succeeds: the raw row and the event are committed.
Record ==
    LET e == kept[at].event
    IN  /\ Recording
        /\ Commit(Upserted(Inserted(work, e), e))
        /\ emitted' = emitted + 1
        /\ pc' = "notifying"
        /\ UNCHANGED <<clock, observing, at, failed, posted, memory, bounds>>

\* Variant: the exception leaves the loop.
RecordRaisesOut ==
    LET e == kept[at].event
    IN  /\ Recording
        /\ \E left \in {work, Inserted(work, e), Upserted(Inserted(work, e), e)} : Raise(left)
        /\ failed' = failed + 1
        /\ at' = Len(kept) + 1
        /\ UNCHANGED <<clock, pc, observing, emitted, posted, memory, passes, crashes>>

\* Variant: the notification does not depend on the record.
RecordRaisesNotified ==
    LET e == kept[at].event
    IN  /\ Recording
        /\ \E left \in {work, Inserted(work, e), Upserted(Inserted(work, e), e)} : Raise(left)
        /\ failed' = failed + 1
        /\ pc' = "notifying"
        /\ UNCHANGED <<clock, observing, at, emitted, posted, memory, passes, crashes>>

\* record raises at one of its statements or at the commit: logged, next one.
RecordRaises ==
    LET e == kept[at].event
    IN  /\ Recording
        /\ \E left \in {work, Inserted(work, e), Upserted(Inserted(work, e), e)} : Raise(left)
        /\ failed' = failed + 1
        /\ at' = at + 1
        /\ UNCHANGED <<clock, pc, observing, emitted, posted, memory, passes, crashes>>

\* notify: posted or, its errors swallowed, not.
Notify ==
    /\ pc = "notifying"
    /\ \/ posted' = [posted EXCEPT ![kept[at].event] = @ + 1]
       \/ UNCHANGED posted
    /\ pc' = "emitting"
    /\ at' = at + 1
    /\ UNCHANGED <<clock, observing, emitted, failed, disk, work, memory, bounds>>

\* The pass ends.
Finish ==
    /\ pc = "emitting" /\ observing = <<>> /\ at > Len(kept)
    /\ total' = total + emitted
    /\ pc' = "idle"
    /\ UNCHANGED <<clock, observing, at, emitted, failed, disk, work, posted, seen,
                   shadowSeen, kept, base, lastKept, bounds>>

\* The scanner's settlement commits on the same connection, between passes.
SettleCommit ==
    /\ pc = "idle" /\ work # disk
    /\ Commit(work)
    /\ UNCHANGED <<clock, pc, observing, at, emitted, failed, posted, memory, bounds>>

\* The process is killed and started again: its memory and what is open are lost.
Crash ==
    /\ crashes < MaxCrashes
    /\ crashes' = crashes + 1
    /\ pc' = "idle" /\ observing' = <<>> /\ kept' = <<>> /\ at' = 1
    /\ emitted' = 0 /\ failed' = 0 /\ total' = 0 /\ base' = Rows(disk)
    /\ seen' = NoEntries /\ shadowSeen' = NoEntries /\ lastKept' = NoEntries
    /\ work' = disk
    /\ UNCHANGED <<clock, disk, posted, passes, failures>>

Next ==
    \/ Tick
    \/ \E feed \in Feeds : Begin(feed)
    \/ Observe \/ Record \/ RecordRaises \/ Notify \/ Finish
    \/ SettleCommit \/ Crash

Spec == Init /\ [][Next]_vars

-----------------------------------------------------------------------------
IsCache(cache) == DOMAIN cache \subseteq Keys /\ \A k \in DOMAIN cache : cache[k] \in 0 .. clock

IsDb(db) == db \in [raw : [Events -> Nat], count : [Events -> Nat], real : [Events -> BOOLEAN]]

TypeOK ==
    /\ clock \in 0 .. MaxTime
    /\ pc \in {"idle", "emitting", "notifying"}
    /\ IsCache(seen) /\ IsCache(shadowSeen) /\ IsCache(lastKept)
    /\ ToSet(observing) \cup ToSet(kept) \subseteq Candidates
    /\ at \in 1 .. Len(kept) + 1
    /\ pc = "notifying" => at <= Len(kept)
    /\ {emitted, failed, total, base} \subseteq Nat
    /\ IsDb(disk) /\ IsDb(work)
    /\ posted \in [Events -> Nat]

-----------------------------------------------------------------------------
\* What the counter calls emitted is on disk, whatever failed before and is
\* still open (scanner.py:344-345, 351).
EmittedIsStored == total + (IF pc = "idle" THEN 0 ELSE emitted) <= Rows(disk) - base

\* Nobody is told of an opportunity that the store could lose: a notification
\* follows the commit, also across restarts (scanner.py:350-352).
NotifiedIsStored == \A e \in Events : posted[e] <= disk.raw[e]

\* A failure of one opportunity does not drop the others of its pass, which are
\* marked as seen already (scanner.py:347-348).
EachKeptIsTried == pc = "idle" => emitted + failed = Len(kept)

\* An opportunity is not kept again within the cooldown, and the cache may forget
\* only what no longer counts (filters.py:44-54).
CooldownHolds ==
    [][ \A k \in DOMAIN lastKept \cap DOMAIN lastKept' :
          lastKept'[k] # lastKept[k] => lastKept'[k] - lastKept[k] >= Cooldown ]_vars

\* A pass keeps the candidates it may keep: the shadow experiment, which runs over
\* the same candidates, marks none of them as reported (scanner.py:184-186).
ShadowLeavesFeedAlone ==
    \A k \in DOMAIN seen : k \in DOMAIN lastKept /\ seen[k] = lastKept[k]
=============================================================================
