-------------------------- MODULE EmitPipelineProofs ---------------------------
(***************************************************************************)
(* The emission of a pass, for all feeds, thresholds, cooldowns and finite *)
(* sets of candidates and any number of passes, failures and restarts.     *)
(*                                                                         *)
(* Nobody is told of an opportunity the store could lose (NInv): an event  *)
(* has no more notifications than rows on disk; an event being notified    *)
(* has one row more; and what the connection sees, with an open            *)
(* transaction or without, has every row the disk has, so that a commit    *)
(* never takes one away.                                                   *)
(*                                                                         *)
(* The process's memory (MInv): the caches mark moments of the past, a     *)
(* pass is at the position that its successes and failures add up to, and  *)
(* the feed's cache marks what was kept, when it was kept.                 *)
(*                                                                         *)
(* The counter (PInv): the rows on the disk, summed over the events,       *)
(* exceed those at the start by at least what was counted, and the rows of *)
(* the connection by at least one more while a commit is due.              *)
(***************************************************************************)
EXTENDS EmitPipeline, CollectionTheorems

Rowed(db) == db.raw \in [Events -> Nat] /\ DOMAIN db = {"raw", "count", "real"}

Covers(db, older) == \A e \in Events : older.raw[e] <= db.raw[e]

Typed == Rowed(disk) /\ Rowed(work) /\ posted \in [Events -> Nat]

Notifying == pc = "notifying" => \A e \in Events : e = kept[at].event => posted[e] < disk.raw[e]

NInv == Typed /\ Covers(work, disk) /\ NotifiedIsStored /\ Notifying

tables == <<disk, work, posted>>

-----------------------------------------------------------------------------
\* What the statements of a call make of a table.
LEMMA InsertedCovers ==
    ASSUME NEW db, NEW e, Rowed(db)
    PROVE  /\ Rowed(Inserted(db, e)) /\ Covers(Inserted(db, e), db)
           /\ e \in Events => Inserted(db, e).raw[e] = db.raw[e] + 1
<1>1. DOMAIN Inserted(db, e) = DOMAIN db
  BY DEF Inserted
<1>2. Inserted(db, e).raw = [db.raw EXCEPT ![e] = @ + 1]
  BY DEF Inserted, Rowed
<1>3. \A x \in Events : /\ db.raw[x] \in Nat
                        /\ Inserted(db, e).raw[x] = IF x = e THEN db.raw[x] + 1 ELSE db.raw[x]
  BY <1>2 DEF Rowed
<1>4. Inserted(db, e).raw \in [Events -> Nat]
  <2>1. Inserted(db, e).raw = [x \in Events |-> Inserted(db, e).raw[x]]
    BY <1>2 DEF Rowed
  <2>2. \A x \in Events : Inserted(db, e).raw[x] \in Nat
    BY <1>3
  <2> QED
    BY <2>1, <2>2
<1> QED
  BY <1>1, <1>3, <1>4 DEF Rowed, Covers

LEMMA UpsertedCovers ==
    ASSUME NEW db, NEW e, Rowed(db)
    PROVE  Rowed(Upserted(db, e)) /\ Upserted(db, e).raw = db.raw
BY DEF Rowed, Upserted

LEMMA UpsertedShadowCovers ==
    ASSUME NEW db, NEW e, Rowed(db)
    PROVE  Rowed(UpsertedShadow(db, e)) /\ UpsertedShadow(db, e).raw = db.raw
BY DEF Rowed, UpsertedShadow

LEMMA CoversIsTransitive ==
    ASSUME NEW a, NEW b, NEW c, Rowed(a), Rowed(b), Rowed(c), Covers(a, b), Covers(b, c)
    PROVE  Covers(a, c)
<1> SUFFICES ASSUME NEW e \in Events PROVE c.raw[e] <= a.raw[e]
  BY DEF Covers
<1>1. a.raw[e] \in Nat /\ b.raw[e] \in Nat /\ c.raw[e] \in Nat
  BY DEF Rowed
<1> QED
  BY <1>1 DEF Covers

-----------------------------------------------------------------------------
LEMMA InitNotified == Init => NInv
BY DEF Init, EmptyDb, NInv, Typed, Rowed, Covers, NotifiedIsStored, Notifying

\* A step that moves no table keeps the invariant, unless it starts notifying.
LEMMA Frame ==
    ASSUME NInv, UNCHANGED tables,
           \/ pc' # "notifying"
           \/ UNCHANGED <<pc, kept, at>>
    PROVE  NInv'
BY DEF NInv, Typed, Rowed, Covers, NotifiedIsStored, Notifying, tables

\* A commit of what covers the disk, with nobody being notified.
LEMMA CommitStep ==
    ASSUME NInv, NEW db, Rowed(db), Covers(db, disk), Commit(db), UNCHANGED posted,
           pc' # "notifying"
    PROVE  NInv'
<1>1. Typed' /\ Covers(work, disk)' /\ Notifying'
  <2>1. disk' = db /\ work' = db /\ posted' = posted
    BY DEF Commit
  <2> QED
    BY <2>1 DEF NInv, Typed, Rowed, Covers, Notifying
<1>2. NotifiedIsStored'
  <2> SUFFICES ASSUME NEW e \in Events PROVE posted[e] <= db.raw[e]
    BY DEF NotifiedIsStored, Commit
  <2>1. posted[e] \in Nat /\ disk.raw[e] \in Nat /\ db.raw[e] \in Nat
    BY DEF NInv, Typed, Rowed
  <2> QED
    BY <2>1 DEF NInv, NotifiedIsStored, Covers
<1> QED
  BY <1>1, <1>2 DEF NInv

\* A call that raises, whatever of it is left open.
LEMMA RaiseStep ==
    ASSUME NInv, NEW db, Rowed(db), Covers(db, disk), Raise(db), UNCHANGED posted,
           pc' # "notifying"
    PROVE  NInv'
<1>1. disk' = disk /\ posted' = posted /\ (work' = db \/ work' = disk)
  BY DEF Raise
<1>2. Typed' /\ NotifiedIsStored' /\ Notifying'
  BY <1>1 DEF NInv, Typed, Rowed, NotifiedIsStored, Notifying
<1>3. Covers(disk, disk)
  BY DEF Covers, NInv, Typed, Rowed
<1>4. Covers(work, disk)'
  BY <1>1, <1>3 DEF Covers
<1> QED
  BY <1>2, <1>4 DEF NInv

LEMMA ObserveStep == NInv /\ Observe => NInv'
<1> SUFFICES ASSUME NInv, Observe
             PROVE  NInv'
  OBVIOUS
<1> DEFINE db == UpsertedShadow(work, Head(observing).event)
<1>1. Rowed(db) /\ db.raw = work.raw /\ Rowed(work)
  BY UpsertedShadowCovers DEF NInv, Typed
<1>2. Covers(db, disk) /\ Covers(work, disk)
  BY <1>1 DEF NInv, Covers
<1>3. UNCHANGED posted /\ pc' # "notifying"
  BY DEF Observe
<1>4. Commit(db) \/ Raise(work) \/ Raise(db)
  BY DEF Observe
<1> HIDE DEF db
<1> QED
  BY <1>1, <1>2, <1>3, <1>4, CommitStep, RaiseStep

\* record commits one row of its event, which may then be notified.
LEMMA RecordStep == NInv /\ Record => NInv'
<1> SUFFICES ASSUME NInv, Record
             PROVE  NInv'
  OBVIOUS
<1> DEFINE e == kept[at].event
           db == Upserted(Inserted(work, e), e)
<1>1. disk' = db /\ work' = db /\ UNCHANGED <<posted, kept, at>>
  BY DEF Record, Commit, memory
<1>2. Rowed(Inserted(work, e)) /\ Covers(Inserted(work, e), work)
  BY InsertedCovers DEF NInv, Typed
<1>3. Rowed(db) /\ db.raw = Inserted(work, e).raw
  BY <1>2, UpsertedCovers
<1>4. e \in Events => db.raw[e] = work.raw[e] + 1
  BY <1>3, InsertedCovers DEF NInv, Typed
<1> HIDE DEF db, e
<1>5. Covers(db, work)
  BY <1>2, <1>3 DEF Covers
<1>6. \A x \in Events : /\ posted[x] \in Nat /\ disk.raw[x] \in Nat
                        /\ work.raw[x] \in Nat /\ db.raw[x] \in Nat
                        /\ posted[x] <= disk.raw[x] /\ disk.raw[x] <= work.raw[x]
                        /\ work.raw[x] <= db.raw[x]
  BY <1>3, <1>5 DEF NInv, Typed, Rowed, NotifiedIsStored, Covers
<1>7. Typed' /\ Covers(work, disk)'
  BY <1>1, <1>3, <1>6 DEF NInv, Typed, Covers
<1>8. NotifiedIsStored'
  BY <1>1, <1>6 DEF NotifiedIsStored
<1>9. Notifying'
  BY <1>1, <1>4, <1>6 DEF Notifying, e
<1> QED
  BY <1>7, <1>8, <1>9 DEF NInv

LEMMA RecordRaisesStep == NInv /\ RecordRaises => NInv'
<1> SUFFICES ASSUME NInv, RecordRaises
             PROVE  NInv'
  OBVIOUS
<1> DEFINE e == kept[at].event
           row == Inserted(work, e)
           all == Upserted(Inserted(work, e), e)
<1>1. Raise(work) \/ Raise(row) \/ Raise(all)
  BY DEF RecordRaises
<1>2. UNCHANGED posted /\ pc' # "notifying"
  BY DEF RecordRaises, Recording
<1>3. Rowed(work) /\ Rowed(disk) /\ Covers(work, disk)
  BY DEF NInv, Typed
<1>4. Rowed(row) /\ Covers(row, work)
  BY <1>3, InsertedCovers
<1>5. Rowed(all) /\ all.raw = row.raw
  BY <1>4, UpsertedCovers
<1> HIDE DEF row, all
<1>6. Covers(row, disk)
  BY <1>3, <1>4, CoversIsTransitive
<1>7. Covers(all, disk)
  BY <1>5, <1>6 DEF Covers
<1> QED
  BY <1>1, <1>2, <1>3, <1>4, <1>5, <1>6, <1>7, RaiseStep

LEMMA NotifyStep == NInv /\ Notify => NInv'
<1> SUFFICES ASSUME NInv, Notify
             PROVE  NInv'
  OBVIOUS
<1> DEFINE e == kept[at].event
<1>1. UNCHANGED <<disk, work>> /\ pc' = "emitting"
  BY DEF Notify
<1>2. \/ posted' = [posted EXCEPT ![e] = @ + 1]
      \/ posted' = posted
  BY DEF Notify
<1>3. \A x \in Events : x = e => posted[x] < disk.raw[x]
  BY DEF NInv, Notifying, Notify
<1> HIDE DEF e
<1>4. posted' \in [Events -> Nat]
  BY <1>2 DEF NInv, Typed
<1>5. NotifiedIsStored'
  <2> SUFFICES ASSUME NEW x \in Events PROVE posted'[x] <= disk.raw[x]
    BY <1>1 DEF NotifiedIsStored
  <2>1. posted[x] \in Nat /\ disk.raw[x] \in Nat /\ posted[x] <= disk.raw[x]
    BY DEF NInv, Typed, Rowed, NotifiedIsStored
  <2> QED
    BY <1>2, <1>3, <2>1 DEF NInv, Typed
<1> QED
  BY <1>1, <1>4, <1>5 DEF NInv, Typed, Rowed, Covers, Notifying

LEMMA SettleCommitStep == NInv /\ SettleCommit => NInv'
<1> SUFFICES ASSUME NInv, SettleCommit
             PROVE  NInv'
  OBVIOUS
<1>1. Commit(work) /\ UNCHANGED posted /\ pc' # "notifying"
  BY DEF SettleCommit
<1>2. Rowed(work) /\ Covers(work, disk)
  BY DEF NInv, Typed
<1> QED
  BY <1>1, <1>2, CommitStep

\* A restart finds what was committed.
LEMMA CrashStep == NInv /\ Crash => NInv'
<1> SUFFICES ASSUME NInv, Crash
             PROVE  NInv'
  OBVIOUS
<1>1. disk' = disk /\ work' = disk /\ posted' = posted /\ pc' = "idle"
  BY DEF Crash
<1> QED
  BY <1>1 DEF NInv, Typed, Rowed, Covers, NotifiedIsStored, Notifying

LEMMA OtherSteps ==
    ASSUME NInv, Tick \/ (\E feed \in Feeds : Begin(feed)) \/ Finish \/ UNCHANGED vars
    PROVE  NInv'
<1>1. CASE Tick \/ UNCHANGED vars
  BY <1>1, Frame DEF Tick, vars, memory, tables
<1>2. ASSUME NEW feed \in Feeds, Begin(feed)
      PROVE  NInv'
  <2>1. UNCHANGED tables /\ pc' # "notifying"
    BY <1>2 DEF Begin, tables
  <2> QED
    BY <2>1, Frame
<1>3. CASE Finish
  BY <1>3, Frame DEF Finish, tables
<1> QED
  BY <1>1, <1>2, <1>3

LEMMA NextNotified ==
    ASSUME NInv, [Next]_vars
    PROVE  NInv'
<1>1. CASE Observe
  BY <1>1, ObserveStep
<1>2. CASE Record
  BY <1>2, RecordStep
<1>3. CASE RecordRaises
  BY <1>3, RecordRaisesStep
<1>4. CASE Notify
  BY <1>4, NotifyStep
<1>5. CASE SettleCommit
  BY <1>5, SettleCommitStep
<1>6. CASE Crash
  BY <1>6, CrashStep
<1>7. CASE Tick \/ (\E feed \in Feeds : Begin(feed)) \/ Finish \/ UNCHANGED vars
  BY <1>7, OtherSteps
<1> QED
  BY <1>1, <1>2, <1>3, <1>4, <1>5, <1>6, <1>7 DEF Next

\* A notification follows the commit of its row, whatever failed before and is
\* still open, across restarts and settlements' commits (Scanner._emit).
THEOREM NotifiedStored == Spec => []NotifiedIsStored
<1>1. NInv => NotifiedIsStored
  BY DEF NInv
<1> QED
  BY <1>1, InitNotified, NextNotified, PTL DEF Spec

-----------------------------------------------------------------------------
(* The filter over a whole feed.                                           *)

\* What the filter keeps true of its cache and its kept list, candidate by
\* candidate, is true of them after the feed.
LEMMA FilteredStaysIn ==
    ASSUME NEW feed \in Seq(Candidates), NEW floor, NEW cache, NEW A,
           [cache |-> cache, kept |-> <<>>] \in A,
           \A acc \in A, opp \in Candidates : Passes(acc, opp, floor) \in A
    PROVE  Filtered(feed, floor, cache) \in A
<1> DEFINE D == DOMAIN feed
           first == [cache |-> cache, kept |-> <<>>]
           step == [p \in D \X A |-> Passes(p[2], feed[p[1]], floor)]
           IsIt(h) == h = [s \in SUBSET D |->
                             IF s = {} THEN first
                             ELSE Passes(h[s \ {Max(s)}], feed[Max(s)], floor)]
<1>1. IsFiniteSet(D) /\ D \subseteq Int
  <2>1. D = 1 .. Len(feed) /\ Len(feed) \in Nat
    OBVIOUS
  <2>2. IsFiniteSet(1 .. Len(feed))
    BY <2>1, FS_Interval
  <2> QED
    BY <2>1, <2>2
<1>2. Filtered(feed, floor, cache) = (CHOOSE h : IsIt(h))[D]
  BY DEF Filtered, FoldLeft, MapThenFoldSet
<1>3. \A i \in D : feed[i] \in Candidates
  OBVIOUS
<1>4. \A i \in D, acc \in A : step[<<i, acc>>] = Passes(acc, feed[i], floor)
  OBVIOUS
<1>5. \A i \in D, acc \in A : step[<<i, acc>>] \in A
  BY <1>3, <1>4
<1>6. first \in A
  OBVIOUS
<1> HIDE DEF D, first, step, IsIt
<1>7. PICK g \in [SUBSET D -> A] : IsLeftFold(g, D, first, step)
  BY <1>1, <1>5, <1>6, LeftFoldExists
<1>8. \A s \in SUBSET D : s # {} => Max(s) \in s
  BY <1>1, FS_Subset, MaxOfSet
<1>9. ASSUME NEW s \in SUBSET D, s # {}
      PROVE  step[<<Max(s), g[s \ {Max(s)}]>>] = Passes(g[s \ {Max(s)}], feed[Max(s)], floor)
  BY <1>4, <1>7, <1>8, <1>9
<1>10. IsIt(g)
  BY <1>7, <1>9 DEF IsLeftFold, IsIt
<1>11. ASSUME NEW h, IsIt(h)
       PROVE  h[D] \in A
  <2>1. h[{}] = first
    BY <1>11 DEF IsIt
  <2>2. ASSUME NEW s \in SUBSET D, s # {}, h[s \ {Max(s)}] \in A
        PROVE  h[s] \in A
    <3>1. h[s] = Passes(h[s \ {Max(s)}], feed[Max(s)], floor)
      BY <1>11, <2>2 DEF IsIt
    <3>2. feed[Max(s)] \in Candidates
      BY <1>3, <1>8, <2>2
    <3> QED
      BY <2>2, <3>1, <3>2
  <2>3. \A s \in SUBSET D : h[s] \in A
    BY <1>1, <1>6, <2>1, <2>2, LeftFoldStays
  <2> QED
    BY <2>3
<1>12. IsIt(CHOOSE h : IsIt(h))
  BY <1>10
<1>13. (CHOOSE h : IsIt(h))[D] \in A
  BY <1>11, <1>12
<1> QED
  BY <1>2, <1>13

\* The dedupe caches the process can hold at this moment.
Caches == UNION {[K -> 0 .. clock] : K \in SUBSET Keys}

Accs == [cache : Caches, kept : Seq(Candidates)]

LEMMA CacheIs ==
    ASSUME NEW cache
    PROVE  cache \in Caches <=> cache = [k \in DOMAIN cache |-> cache[k]] /\ IsCache(cache)
BY DEF Caches, IsCache

\* Pruning keeps the entries within the cooldown, as they are.
LEMMA PrunedKeeps ==
    ASSUME NEW cache \in Caches, clock \in Nat
    PROVE  /\ Pruned(cache) \in Caches
           /\ DOMAIN Pruned(cache) \subseteq DOMAIN cache
           /\ \A k \in DOMAIN Pruned(cache) : Pruned(cache)[k] = cache[k]
           /\ \A k \in DOMAIN cache : clock - cache[k] < Cooldown => k \in DOMAIN Pruned(cache)
           /\ \A k \in DOMAIN cache : cache[k] = clock => k \in DOMAIN Pruned(cache)
<1>1. cache = [k \in DOMAIN cache |-> cache[k]] /\ IsCache(cache)
  BY CacheIs
<1>2. Cooldown \in Nat
  BY EmitAssumption
<1>3. \A k \in DOMAIN cache : cache[k] \in Nat
  BY <1>1 DEF IsCache
<1> DEFINE live == [k \in Live(cache) |-> cache[k]]
<1>4. \A k \in DOMAIN cache : clock - cache[k] < Cooldown \/ cache[k] = clock => k \in Live(cache)
  BY <1>2, <1>3 DEF Live
<1>5. Live(cache) \subseteq DOMAIN cache
  BY DEF Live
<1>6. live \in Caches
  BY <1>1, <1>5 DEF Caches, IsCache
<1>7. Pruned(cache) = live \/ Pruned(cache) = cache
  BY DEF Pruned
<1> QED
  BY <1>4, <1>5, <1>6, <1>7

LEMMA MarkType ==
    ASSUME NEW cache \in Caches, NEW key \in Keys, clock \in Nat
    PROVE  Mark(cache, key) \in Caches
<1>1. cache = [k \in DOMAIN cache |-> cache[k]] /\ IsCache(cache)
  BY CacheIs
<1>2. clock \in 0 .. clock
  OBVIOUS
<1>3. /\ DOMAIN Mark(cache, key) \subseteq Keys
      /\ \A k \in DOMAIN Mark(cache, key) : Mark(cache, key)[k] \in 0 .. clock
  BY <1>1, <1>2 DEF Mark, IsCache
<1>4. Mark(cache, key) = [k \in DOMAIN Mark(cache, key) |-> Mark(cache, key)[k]]
  BY DEF Mark
<1> QED
  BY <1>3, <1>4, CacheIs DEF IsCache

LEMMA CacheEntries ==
    ASSUME NEW cache \in Caches
    PROVE  /\ DOMAIN cache \subseteq Keys
           /\ \A k \in DOMAIN cache : cache[k] \in 0 .. clock
           /\ cache = [k \in DOMAIN cache |-> cache[k]]
BY CacheIs DEF IsCache

LEMMA PassesTyped ==
    ASSUME NEW acc \in Accs, NEW opp \in Candidates, NEW floor, clock \in Nat
    PROVE  Passes(acc, opp, floor) \in Accs
<1> DEFINE cache == Pruned(acc.cache)
<1>1. acc.cache \in Caches /\ acc.kept \in Seq(Candidates) /\ acc = [cache |-> acc.cache, kept |-> acc.kept]
  BY DEF Accs
<1>2. cache \in Caches
  BY <1>1, PrunedKeeps
<1>3. opp.key \in Keys
  BY DEF Keys
<1>4. Mark(cache, opp.key) \in Caches
  BY <1>2, <1>3, MarkType
<1>5. Append(acc.kept, opp) \in Seq(Candidates)
  BY <1>1
<1>6. \/ Passes(acc, opp, floor) = acc
      \/ Passes(acc, opp, floor) = [cache |-> Mark(cache, opp.key), kept |-> Append(acc.kept, opp)]
      \/ Passes(acc, opp, floor) = [cache |-> cache, kept |-> acc.kept]
  BY <1>1 DEF Passes
<1> HIDE DEF cache
<1> QED
  BY <1>1, <1>2, <1>4, <1>5, <1>6 DEF Accs

KeysOf(opps) == {c.key : c \in ToSet(opps)}

\* What a filter that started from a cache made of it so far: the kept are
\* marked with this moment, the others' marks are the old ones, and a mark
\* within the cooldown is still there and its key not kept.
Faithful(acc, from) ==
    /\ \A k \in DOMAIN acc.cache \ KeysOf(acc.kept) : k \in DOMAIN from /\ acc.cache[k] = from[k]
    /\ \A k \in KeysOf(acc.kept) : k \in DOMAIN acc.cache /\ acc.cache[k] = clock
    /\ \A k \in DOMAIN from :
         clock - from[k] < Cooldown => k \in DOMAIN acc.cache /\ k \notin KeysOf(acc.kept)

LEMMA KeysAppended ==
    ASSUME NEW opps \in Seq(Candidates), NEW opp
    PROVE  KeysOf(Append(opps, opp)) = KeysOf(opps) \cup {opp.key}
<1> DEFINE more == Append(opps, opp)
<1>1. ToSet(more) = ToSet(opps) \cup {opp}
  <2>1. /\ DOMAIN more = DOMAIN opps \cup {Len(opps) + 1}
        /\ more[Len(opps) + 1] = opp /\ Len(opps) + 1 \notin DOMAIN opps
    OBVIOUS
  <2>2. \A i \in DOMAIN opps : more[i] = opps[i]
    OBVIOUS
  <2> HIDE DEF more
  <2> QED
    BY <2>1, <2>2 DEF ToSet
<1> QED
  BY <1>1 DEF KeysOf

LEMMA PassesFaithful ==
    ASSUME NEW from \in Caches, NEW acc \in Accs, Faithful(acc, from),
           NEW opp \in Candidates, NEW floor, clock \in Nat
    PROVE  Faithful(Passes(acc, opp, floor), from)
<1> DEFINE cache == Pruned(acc.cache)
           keys == KeysOf(acc.kept)
<1>1. acc.cache \in Caches /\ acc.kept \in Seq(Candidates) /\ acc = [cache |-> acc.cache, kept |-> acc.kept]
  BY DEF Accs
<1>2. /\ cache \in Caches
      /\ DOMAIN cache \subseteq DOMAIN acc.cache
      /\ \A k \in DOMAIN cache : cache[k] = acc.cache[k]
      /\ \A k \in DOMAIN acc.cache : clock - acc.cache[k] < Cooldown => k \in DOMAIN cache
      /\ \A k \in DOMAIN acc.cache : acc.cache[k] = clock => k \in DOMAIN cache
  BY <1>1, PrunedKeeps
<1>3. /\ \A k \in DOMAIN acc.cache \ keys : k \in DOMAIN from /\ acc.cache[k] = from[k]
      /\ \A k \in keys : k \in DOMAIN acc.cache /\ acc.cache[k] = clock
      /\ \A k \in DOMAIN from :
           clock - from[k] < Cooldown => k \in DOMAIN acc.cache /\ k \notin keys
  BY DEF Faithful
<1> HIDE DEF cache, keys
<1>4. /\ \A k \in DOMAIN cache \ keys : k \in DOMAIN from /\ cache[k] = from[k]
      /\ \A k \in keys : k \in DOMAIN cache /\ cache[k] = clock
      /\ \A k \in DOMAIN from :
           clock - from[k] < Cooldown => k \in DOMAIN cache /\ k \notin keys
  BY <1>2, <1>3
<1>5. CASE Passes(acc, opp, floor) = acc
  BY <1>5
<1>6. CASE Passes(acc, opp, floor) = [cache |-> cache, kept |-> acc.kept]
  BY <1>4, <1>6 DEF Faithful, keys
<1>7. CASE /\ Passes(acc, opp, floor) = [cache |-> Mark(cache, opp.key), kept |-> Append(acc.kept, opp)]
           /\ Fresh(cache, opp.key)
  <2> DEFINE new == Mark(cache, opp.key)
             all == keys \cup {opp.key}
  <2>1. DOMAIN new = DOMAIN cache \cup {opp.key}
    BY DEF Mark
  <2>2. \A k \in DOMAIN new : new[k] = IF k = opp.key THEN clock ELSE cache[k]
    BY DEF Mark
  <2>3. opp.key \in DOMAIN cache => ~(clock - cache[opp.key] < Cooldown)
    <3>1. opp.key \in DOMAIN cache => cache[opp.key] \in Int
      BY <1>2, CacheEntries
    <3>2. Cooldown \in Nat
      BY EmitAssumption
    <3> QED
      BY <1>7, <3>1, <3>2 DEF Fresh
  <2>4. KeysOf(Append(acc.kept, opp)) = all
    BY <1>1, KeysAppended DEF keys
  <2> HIDE DEF new
  <2>5. \A k \in DOMAIN new \ all : k \in DOMAIN from /\ new[k] = from[k]
    BY <1>4, <2>1, <2>2
  <2>6. \A k \in all : k \in DOMAIN new /\ new[k] = clock
    BY <1>4, <2>1, <2>2
  <2>7. ASSUME NEW k \in DOMAIN from, clock - from[k] < Cooldown
        PROVE  k \in DOMAIN new /\ k \notin all
    <3>1. k \in DOMAIN cache /\ k \notin keys
      BY <1>4, <2>7
    <3>2. cache[k] = from[k]
      BY <1>4, <3>1
    <3>3. k # opp.key
      BY <2>3, <2>7, <3>1, <3>2
    <3> QED
      BY <2>1, <3>1, <3>3
  <2> HIDE DEF all
  <2> QED
    BY <1>7, <2>4, <2>5, <2>6, <2>7 DEF Faithful, new
<1>8. \/ Passes(acc, opp, floor) = acc
      \/ Passes(acc, opp, floor) = [cache |-> cache, kept |-> acc.kept]
      \/ /\ Passes(acc, opp, floor) = [cache |-> Mark(cache, opp.key), kept |-> Append(acc.kept, opp)]
         /\ Fresh(cache, opp.key)
  BY <1>1 DEF Passes, cache
<1> QED
  BY <1>5, <1>6, <1>7, <1>8

\* A whole feed through the filter.
LEMMA FilteredFacts ==
    ASSUME NEW feed \in Feeds, NEW floor, NEW cache \in Caches, clock \in Nat
    PROVE  Filtered(feed, floor, cache) \in Accs /\ Faithful(Filtered(feed, floor, cache), cache)
<1> DEFINE A == {acc \in Accs : Faithful(acc, cache)}
           first == [cache |-> cache, kept |-> <<>>]
<1>1. feed \in Seq(Candidates)
  BY EmitAssumption
<1>2. first \in Accs
  BY DEF Accs
<1>3. KeysOf(<<>>) = {}
  BY DEF KeysOf, ToSet
<1>4. Faithful(first, cache)
  BY <1>3 DEF Faithful
<1>5. \A acc \in A, opp \in Candidates : Passes(acc, opp, floor) \in A
  BY PassesTyped, PassesFaithful
<1>6. first \in A
  BY <1>2, <1>4
<1> HIDE DEF A
<1>7. Filtered(feed, floor, cache) \in A
  BY <1>1, <1>5, <1>6, FilteredStaysIn
<1> QED
  BY <1>7 DEF A

\* The ranking and the selection of the observations are lists of candidates.
LEMMA ListsTyped ==
    ASSUME NEW opps \in Seq(Candidates)
    PROVE  Rank(opps) \in Seq(Candidates) /\ BelowFloor(opps) \in Seq(Candidates)
<1> DEFINE D == DOMAIN opps
           score == [i \in D |-> opps[i].score]
           below == {i \in D : opps[i].notional < MinNotional}
<1>1. \A i \in D : score[i] \in Int
  BY EmitAssumption
<1>2. D \in SUBSET DOMAIN opps /\ below \in SUBSET DOMAIN opps
  OBVIOUS
<1> HIDE DEF score, below, D
<1>3. Arranged(opps, D, score) \in Seq(Candidates)
  BY <1>1, <1>2, ArrangedType
<1>4. Selected(opps, below) \in Seq(Candidates)
  BY <1>2, SelectedType
<1> QED
  BY <1>3, <1>4 DEF Rank, BelowFloor, D, score, below

-----------------------------------------------------------------------------
(* The process's memory: its types, the dedupe caches and the position in  *)
(* the pass.                                                               *)

CachesTyped ==
    /\ clock \in 0 .. MaxTime
    /\ seen \in Caches /\ shadowSeen \in Caches /\ lastKept \in Caches

PassTyped ==
    /\ pc \in {"idle", "emitting", "notifying"}
    /\ observing \in Seq(Candidates) /\ kept \in Seq(Candidates)
    /\ at \in 1 .. Len(kept) + 1
    /\ pc = "notifying" => at <= Len(kept)
    /\ emitted \in Nat /\ failed \in Nat

\* The cache knows when it kept what it still holds, and holds what it kept
\* within the cooldown.
Deduped ==
    /\ \A k \in DOMAIN seen : k \in DOMAIN lastKept /\ seen[k] = lastKept[k]
    /\ \A k \in DOMAIN lastKept : clock - lastKept[k] < Cooldown => k \in DOMAIN seen

\* Every opportunity of the pass up to the current one was stored or failed.
Counted ==
    /\ at = emitted + failed + (IF pc = "notifying" THEN 0 ELSE 1)
    /\ pc = "idle" => at = Len(kept) + 1

MInv == CachesTyped /\ PassTyped /\ Deduped /\ Counted

filter == <<clock, seen, shadowSeen, lastKept>>
pass == <<pc, observing, kept, at, emitted, failed>>

LEMMA FilterFrame ==
    ASSUME CachesTyped, Deduped, UNCHANGED filter
    PROVE  CachesTyped' /\ Deduped'
BY DEF CachesTyped, Deduped, Caches, filter

LEMMA InitMemory == Init => MInv
<1> SUFFICES ASSUME Init
             PROVE  MInv
  OBVIOUS
<1>1. NoEntries \in Caches
  BY CacheIs DEF NoEntries, IsCache
<1>2. clock \in 0 .. MaxTime
  BY EmitAssumption DEF Init
<1>3. DOMAIN NoEntries = {}
  BY DEF NoEntries
<1>4. CachesTyped /\ Deduped
  BY <1>1, <1>2, <1>3 DEF Init, CachesTyped, Deduped
<1>5. PassTyped /\ Counted
  BY DEF Init, PassTyped, Counted
<1> QED
  BY <1>4, <1>5 DEF MInv

LEMMA TickMemory ==
    ASSUME MInv, Tick
    PROVE  MInv'
<1>1. clock' = clock + 1 /\ clock \in Nat /\ clock' \in 0 .. MaxTime
  BY EmitAssumption DEF Tick, MInv, CachesTyped
<1>2. UNCHANGED <<seen, shadowSeen, lastKept, pass>>
  BY DEF Tick, memory, pass
<1>3. \A cache : cache \in Caches => cache \in Caches'
  <2>1. 0 .. clock \subseteq 0 .. clock'
    BY <1>1
  <2> QED
    BY <2>1 DEF Caches
<1>4. CachesTyped'
  BY <1>1, <1>2, <1>3 DEF MInv, CachesTyped
<1>5. Deduped'
  <2>1. \A k \in DOMAIN lastKept : lastKept[k] \in Int
    BY CacheEntries DEF MInv, CachesTyped
  <2>2. \A k \in DOMAIN lastKept : clock' - lastKept[k] < Cooldown => clock - lastKept[k] < Cooldown
    BY <1>1, <2>1, EmitAssumption
  <2> QED
    BY <1>2, <2>2 DEF MInv, Deduped
<1>6. PassTyped' /\ Counted'
  BY <1>2 DEF MInv, PassTyped, Counted, pass
<1> QED
  BY <1>4, <1>5, <1>6 DEF MInv

\* The opportunities a pass keeps are out of their cooldown.
LEMMA BeginMemory ==
    ASSUME MInv, NEW feed \in Feeds, Begin(feed)
    PROVE  /\ MInv'
           /\ \A k \in DOMAIN lastKept \cap DOMAIN lastKept' :
                lastKept'[k] # lastKept[k] => lastKept'[k] - lastKept[k] >= Cooldown
<1> DEFINE real == Filtered(feed, MinNotional, seen)
           shadow == IF ShadowFloor > 0 THEN Filtered(feed, ShadowFloor, shadowSeen)
                     ELSE [cache |-> shadowSeen, kept |-> <<>>]
           keys == KeysOf(real.kept)
<1>1. /\ pc' = "emitting" /\ at' = 1 /\ emitted' = 0 /\ failed' = 0
      /\ kept' = Rank(real.kept) /\ seen' = real.cache /\ shadowSeen' = shadow.cache
      /\ observing' = BelowFloor(shadow.kept)
      /\ lastKept' = [k \in DOMAIN lastKept \cup keys |-> IF k \in keys THEN clock ELSE lastKept[k]]
      /\ clock' = clock
  BY DEF Begin, KeysOf
<1>2. clock \in Nat /\ clock \in 0 .. clock
  BY DEF MInv, CachesTyped
<1>3. seen \in Caches /\ shadowSeen \in Caches /\ lastKept \in Caches
  BY DEF MInv, CachesTyped
<1>4. real \in Accs /\ Faithful(real, seen)
  BY <1>2, <1>3, FilteredFacts
<1>5. shadow \in Accs
  <2>1. [cache |-> shadowSeen, kept |-> <<>>] \in Accs
    BY <1>3 DEF Accs
  <2>2. Filtered(feed, ShadowFloor, shadowSeen) \in Accs
    BY <1>2, <1>3, FilteredFacts
  <2> QED
    BY <2>1, <2>2
<1> HIDE DEF real, shadow
<1>6. real.cache \in Caches /\ real.kept \in Seq(Candidates)
      /\ shadow.cache \in Caches /\ shadow.kept \in Seq(Candidates)
  BY <1>4, <1>5 DEF Accs
<1>7. /\ \A k \in DOMAIN real.cache \ keys : k \in DOMAIN seen /\ real.cache[k] = seen[k]
      /\ \A k \in keys : k \in DOMAIN real.cache /\ real.cache[k] = clock
      /\ \A k \in DOMAIN seen :
           clock - seen[k] < Cooldown => k \in DOMAIN real.cache /\ k \notin keys
  BY <1>4 DEF Faithful
<1>8. keys \subseteq Keys
  <2>1. DOMAIN real.cache \subseteq Keys
    BY <1>6, CacheEntries
  <2> QED
    BY <1>7, <2>1
<1> HIDE DEF keys
<1>9. lastKept' \in Caches
  <2>1. DOMAIN lastKept \subseteq Keys /\ \A k \in DOMAIN lastKept : lastKept[k] \in 0 .. clock
    BY <1>3, CacheEntries
  <2>2. DOMAIN lastKept' \subseteq Keys /\ \A k \in DOMAIN lastKept' : lastKept'[k] \in 0 .. clock
    BY <1>1, <1>2, <1>8, <2>1
  <2>3. lastKept' = [k \in DOMAIN lastKept' |-> lastKept'[k]]
    BY <1>1
  <2> QED
    BY <2>2, <2>3, CacheIs DEF IsCache
<1>10. CachesTyped'
  <2>1. Caches' = Caches
    BY <1>1 DEF Caches
  <2> QED
    BY <1>1, <1>6, <1>9, <2>1 DEF MInv, CachesTyped
<1>11. Deduped'
  <2>1. \A k \in DOMAIN real.cache : k \in DOMAIN lastKept' /\ real.cache[k] = lastKept'[k]
    BY <1>1, <1>7 DEF MInv, Deduped
  <2>2. \A k \in DOMAIN lastKept' : clock - lastKept'[k] < Cooldown => k \in DOMAIN real.cache
    BY <1>1, <1>7 DEF MInv, Deduped
  <2> QED
    BY <1>1, <2>1, <2>2 DEF Deduped
<1>12. PassTyped' /\ Counted'
  <2>1. kept' \in Seq(Candidates) /\ observing' \in Seq(Candidates)
    BY <1>1, <1>6, ListsTyped
  <2>2. Len(kept') \in Nat
    BY <2>1
  <2> QED
    BY <1>1, <2>1, <2>2 DEF PassTyped, Counted
<1>13. ASSUME NEW k \in DOMAIN lastKept \cap DOMAIN lastKept', lastKept'[k] # lastKept[k]
       PROVE  lastKept'[k] - lastKept[k] >= Cooldown
  <2>1. k \in keys /\ lastKept'[k] = clock
    BY <1>1, <1>13
  <2>2. ~(clock - lastKept[k] < Cooldown)
    BY <1>7, <2>1 DEF MInv, Deduped
  <2>3. lastKept[k] \in Int /\ Cooldown \in Int
    BY <1>3, CacheEntries, EmitAssumption
  <2> QED
    BY <1>2, <2>1, <2>2, <2>3
<1> QED
  BY <1>10, <1>11, <1>12, <1>13 DEF MInv

\* The steps of the pass leave the caches alone.
LEMMA PassMemory ==
    ASSUME MInv, Observe \/ Record \/ RecordRaises \/ Notify \/ Finish \/ SettleCommit
    PROVE  MInv'
<1>1. UNCHANGED <<filter, kept>>
  BY DEF Observe, Record, RecordRaises, Notify, Finish, SettleCommit, memory, filter
<1>2. CachesTyped' /\ Deduped'
  BY <1>1, FilterFrame DEF MInv
<1>3. PassTyped /\ Counted /\ Len(kept) \in Nat
  BY DEF MInv, PassTyped
<1>4. CASE Observe
  <2>1. observing \in Seq(Candidates) /\ observing # <<>> /\ observing' = Tail(observing)
    BY <1>3, <1>4 DEF Observe, PassTyped
  <2>2. observing' \in Seq(Candidates)
    BY <2>1
  <2>3. UNCHANGED <<pc, kept, at, emitted, failed>>
    BY <1>1, <1>4 DEF Observe
  <2> QED
    BY <1>2, <1>3, <2>2, <2>3 DEF MInv, PassTyped, Counted
<1>5. CASE Record
  <2>1. /\ pc = "emitting" /\ pc' = "notifying" /\ at <= Len(kept) /\ emitted' = emitted + 1
        /\ UNCHANGED <<observing, kept, at, failed>>
    BY <1>1, <1>5 DEF Record, Recording
  <2> QED
    BY <1>2, <1>3, <2>1 DEF MInv, PassTyped, Counted
<1>6. CASE RecordRaises
  <2>1. /\ pc = "emitting" /\ at <= Len(kept) /\ failed' = failed + 1 /\ at' = at + 1
        /\ UNCHANGED <<pc, observing, kept, emitted>>
    BY <1>1, <1>6 DEF RecordRaises, Recording
  <2> QED
    BY <1>2, <1>3, <2>1 DEF MInv, PassTyped, Counted
<1>7. CASE Notify
  <2>1. /\ pc = "notifying" /\ pc' = "emitting" /\ at' = at + 1
        /\ UNCHANGED <<observing, kept, emitted, failed>>
    BY <1>1, <1>7 DEF Notify
  <2> QED
    BY <1>2, <1>3, <2>1 DEF MInv, PassTyped, Counted
<1>8. CASE Finish
  <2>1. /\ pc = "emitting" /\ pc' = "idle" /\ at > Len(kept)
        /\ UNCHANGED <<observing, kept, at, emitted, failed>>
    BY <1>1, <1>8 DEF Finish
  <2> QED
    BY <1>2, <1>3, <2>1 DEF MInv, PassTyped, Counted
<1>9. CASE SettleCommit
  <2>1. UNCHANGED pass
    BY <1>1, <1>9 DEF SettleCommit, pass
  <2> QED
    BY <1>2, <1>3, <2>1 DEF MInv, PassTyped, Counted, pass
<1> QED
  BY <1>4, <1>5, <1>6, <1>7, <1>8, <1>9

LEMMA CrashMemory ==
    ASSUME MInv, Crash
    PROVE  MInv'
<1>1. /\ pc' = "idle" /\ observing' = <<>> /\ kept' = <<>> /\ at' = 1 /\ emitted' = 0 /\ failed' = 0
      /\ seen' = NoEntries /\ shadowSeen' = NoEntries /\ lastKept' = NoEntries /\ clock' = clock
  BY DEF Crash
<1>2. DOMAIN NoEntries = {} /\ NoEntries \in Caches
  BY CacheIs DEF NoEntries, IsCache
<1>3. Caches' = Caches
  BY <1>1 DEF Caches
<1>4. CachesTyped' /\ Deduped'
  BY <1>1, <1>2, <1>3 DEF MInv, CachesTyped, Deduped
<1>5. PassTyped' /\ Counted'
  BY <1>1 DEF PassTyped, Counted
<1> QED
  BY <1>4, <1>5 DEF MInv

LEMMA NextMemory ==
    ASSUME MInv, [Next]_vars
    PROVE  MInv'
<1>1. CASE \E feed \in Feeds : Begin(feed)
  BY <1>1, BeginMemory
<1>2. CASE Observe \/ Record \/ RecordRaises \/ Notify \/ Finish \/ SettleCommit
  BY <1>2, PassMemory
<1>3. CASE UNCHANGED vars
  <2>1. UNCHANGED <<filter, pass>>
    BY <1>3 DEF vars, memory, filter, pass
  <2> QED
    BY <2>1, FilterFrame DEF MInv, PassTyped, Counted, pass
<1> QED
  BY <1>1, <1>2, <1>3, TickMemory, CrashMemory DEF Next

\* A failure of one opportunity does not drop the others of its pass
\* (Scanner._emit).
THEOREM KeptTried == Spec => []EachKeptIsTried
<1>1. MInv => EachKeptIsTried
  BY DEF MInv, PassTyped, Counted, EachKeptIsTried
<1> QED
  BY <1>1, InitMemory, NextMemory, PTL DEF Spec

\* Whatever the shadow experiment observes, the feed's cache marks exactly what
\* the feed kept, at the moment it was kept.
THEOREM ShadowApart == Spec => []ShadowLeavesFeedAlone
<1>1. MInv => ShadowLeavesFeedAlone
  BY DEF MInv, Deduped, ShadowLeavesFeedAlone
<1> QED
  BY <1>1, InitMemory, NextMemory, PTL DEF Spec

\* No opportunity is kept twice within the cooldown, although the cache forgets
\* entries when it is pruned (DedupeCache).
THEOREM CooldownKept == Spec => CooldownHolds
<1> DEFINE Held == \A k \in DOMAIN lastKept \cap DOMAIN lastKept' :
                     lastKept'[k] # lastKept[k] => lastKept'[k] - lastKept[k] >= Cooldown
<1>1. MInv /\ [Next]_vars => [Held]_vars
  <2> SUFFICES ASSUME MInv, [Next]_vars
               PROVE  Held \/ UNCHANGED vars
    OBVIOUS
  <2>1. CASE \E feed \in Feeds : Begin(feed)
    BY <2>1, BeginMemory
  <2>2. CASE Tick \/ Observe \/ Record \/ RecordRaises \/ Notify \/ Finish \/ SettleCommit
    <3>1. lastKept' = lastKept
      BY <2>2 DEF Tick, Observe, Record, RecordRaises, Notify, Finish, SettleCommit, memory
    <3> QED
      BY <3>1
  <2>3. CASE Crash
    <3>1. DOMAIN lastKept' = {}
      BY <2>3 DEF Crash, NoEntries
    <3> QED
      BY <3>1
  <2> QED
    BY <2>1, <2>2, <2>3 DEF Next
<1> QED
  BY <1>1, InitMemory, NextMemory, PTL DEF Spec, CooldownHolds

-----------------------------------------------------------------------------
(* The database and the counter of what was emitted.                       *)

StoreTyped ==
    /\ IsDb(disk) /\ IsDb(work)
    /\ posted \in [Events -> Nat]
    /\ total \in Nat /\ base \in Nat

Counter == total + (IF pc = "idle" THEN 0 ELSE emitted)

Stored == Counter + base <= Rows(disk)

PInv == MInv /\ NInv /\ StoreTyped /\ Stored

LEMMA StatementsTyped ==
    ASSUME NEW db, NEW e \in Events, IsDb(db)
    PROVE  IsDb(Inserted(db, e)) /\ IsDb(Upserted(db, e)) /\ IsDb(UpsertedShadow(db, e))
<1>1. IsDb(Inserted(db, e))
  BY DEF IsDb, Inserted
<1>2. IsDb(Upserted(db, e))
  <2>1. /\ db = [raw |-> db.raw, count |-> db.count, real |-> db.real]
        /\ db.raw \in [Events -> Nat] /\ db.count \in [Events -> Nat]
        /\ db.real \in [Events -> BOOLEAN]
    BY DEF IsDb
  <2> DEFINE count == [db.count EXCEPT ![e] = @ + 1]
             real == [db.real EXCEPT ![e] = TRUE]
  <2>2. DOMAIN db = {"raw", "count", "real"}
    BY <2>1
  <2>3. Upserted(db, e).raw = db.raw
    BY <2>2 DEF Upserted
  <2>4. Upserted(db, e).count = count
    BY <2>2 DEF Upserted
  <2>5. Upserted(db, e).real = real
    BY <2>2 DEF Upserted
  <2>6. Upserted(db, e) = [f \in {"raw", "count", "real"} |-> Upserted(db, e)[f]]
    BY <2>2 DEF Upserted
  <2> HIDE DEF count, real
  <2>7. Upserted(db, e) = [raw |-> db.raw, count |-> count, real |-> real]
    BY <2>3, <2>4, <2>5, <2>6
  <2> USE DEF count, real
  <2>8. count \in [Events -> Nat]
    BY <2>1
  <2>9. real \in [Events -> BOOLEAN]
    BY <2>1
  <2> HIDE DEF count, real
  <2> QED
    BY <2>1, <2>7, <2>8, <2>9 DEF IsDb
<1>3. IsDb(UpsertedShadow(db, e))
  BY DEF IsDb, UpsertedShadow
<1> QED
  BY <1>1, <1>2, <1>3

LEMMA EventsFinite == IsFiniteSet(Events)
<1> DEFINE event == [c \in Candidates |-> c.event]
<1>1. event \in Surjection(Candidates, Events)
  BY DEF Surjection, Events
<1> HIDE DEF event
<1> QED
  BY <1>1, FS_Surjection, EmitAssumption

LEMMA RowsAre ==
    ASSUME NEW db
    PROVE  Rows(db) = Total(db.raw, Events)
BY DEF Rows, Total

\* A database with as many rows of every event has as many rows.
LEMMA RowsGrow ==
    ASSUME NEW db, NEW older, IsDb(db), IsDb(older), Covers(db, older)
    PROVE  Rows(db) \in Nat /\ Rows(older) \in Nat /\ Rows(older) <= Rows(db)
<1>1. \A e \in Events : db.raw[e] \in Nat /\ older.raw[e] \in Nat /\ older.raw[e] <= db.raw[e]
  BY DEF IsDb, Covers
<1>2. Total(db.raw, Events) \in Nat /\ Total(older.raw, Events) \in Nat
  BY <1>1, EventsFinite, TotalNat
<1>3. Total(older.raw, Events) <= Total(db.raw, Events)
  BY <1>1, EventsFinite, TotalMonotone
<1> QED
  BY <1>2, <1>3, RowsAre

LEMMA RowsInserted ==
    ASSUME NEW db, NEW e \in Events, IsDb(db)
    PROVE  Rows(Upserted(Inserted(db, e), e)) = Rows(db) + 1
<1> DEFINE new == Upserted(Inserted(db, e), e)
           f == db.raw
           h == new.raw
<1>1. \A x \in Events : f[x] \in Nat /\ h[x] = IF x = e THEN f[x] + 1 ELSE f[x]
  BY DEF IsDb, Inserted, Upserted
<1> HIDE DEF new, f, h
<1>2. Total(h, Events) = Total(f, Events) + (h[e] - f[e])
  <2>1. \A x \in Events : f[x] \in Int /\ h[x] \in Int
    BY <1>1
  <2>2. \A x \in Events \ {e} : h[x] = f[x]
    BY <1>1
  <2> QED
    BY <2>1, <2>2, EventsFinite, TotalChanged
<1>3. h[e] - f[e] = 1
  BY <1>1
<1> QED
  BY <1>2, <1>3, RowsAre DEF new, f, h

LEMMA InitStored == Init => PInv
<1> SUFFICES ASSUME Init
             PROVE  PInv
  OBVIOUS
<1>1. StoreTyped
  BY DEF Init, StoreTyped, IsDb, EmptyDb
<1>2. Rows(disk) \in Nat
  BY <1>1, RowsGrow, InitNotified DEF NInv, StoreTyped
<1>3. Stored
  BY <1>2 DEF Init, Stored, Counter
<1> QED
  BY <1>1, <1>3, InitMemory, InitNotified DEF PInv

\* A step that takes no row away and does not count more.
LEMMA NotCounted ==
    ASSUME PInv, IsDb(disk)', Covers(disk', disk), Counter' = Counter, base' = base
    PROVE  Stored'
<1>1. Rows(disk') \in Nat /\ Rows(disk) \in Nat /\ Rows(disk) <= Rows(disk')
  <2>1. IsDb(disk) /\ IsDb(disk')
    BY DEF PInv, StoreTyped, IsDb
  <2> QED
    BY <2>1, RowsGrow
<1>2. Counter \in Nat /\ base \in Nat
  BY DEF PInv, MInv, PassTyped, StoreTyped, Counter
<1>3. Rows(disk)' = Rows(disk')
  OBVIOUS
<1> QED
  BY <1>1, <1>2, <1>3 DEF PInv, Stored

LEMMA CoversItself ==
    ASSUME NEW db, IsDb(db)
    PROVE  Covers(db, db)
BY DEF IsDb, Covers

\* A call that commits or raises without having been counted.
LEMMA UncountedStep ==
    ASSUME PInv, NEW db, IsDb(db), Covers(db, disk), Commit(db) \/ Raise(db),
           Counter' = Counter, UNCHANGED <<posted, total, base>>
    PROVE  StoreTyped' /\ Stored'
<1>1. IsDb(disk) /\ IsDb(work)
  BY DEF PInv, StoreTyped
<1>2. disk' \in {db, disk} /\ work' \in {db, disk}
  BY DEF Commit, Raise
<1>3. IsDb(disk') /\ IsDb(work')
  BY <1>1, <1>2
<1>4. Covers(disk', disk)
  BY <1>1, <1>2, CoversItself
<1>5. IsDb(disk)' /\ IsDb(work)'
  BY <1>3 DEF IsDb
<1>6. StoreTyped'
  BY <1>5 DEF PInv, StoreTyped
<1> QED
  BY <1>4, <1>5, <1>6, NotCounted

\* The event of the opportunity that is being recorded or notified.
LEMMA RecordingEvent ==
    ASSUME MInv, at <= Len(kept)
    PROVE  kept[at].event \in Events
<1>1. kept[at] \in Candidates
  BY DEF MInv, PassTyped
<1> QED
  BY <1>1 DEF Events

LEMMA StoreStep ==
    ASSUME PInv, Observe \/ RecordRaises \/ SettleCommit
    PROVE  StoreTyped' /\ Stored'
<1>1. IsDb(work) /\ IsDb(disk) /\ Covers(work, disk) /\ Rowed(work) /\ Rowed(disk)
  BY DEF PInv, NInv, Typed, StoreTyped
<1>2. CASE Observe
  <2> DEFINE db == UpsertedShadow(work, Head(observing).event)
  <2>1. Head(observing) \in Candidates
    BY <1>2 DEF Observe, PInv, MInv, PassTyped
  <2>2. IsDb(db)
    BY <1>1, <2>1, StatementsTyped DEF Events
  <2>3. Covers(db, disk)
    <3>1. db.raw = work.raw
      BY <1>1, UpsertedShadowCovers
    <3> HIDE DEF db
    <3> QED
      BY <1>1, <3>1 DEF Covers
  <2>4. Commit(db) \/ Raise(work) \/ Raise(db)
    BY <1>2 DEF Observe
  <2>5. Counter' = Counter /\ UNCHANGED <<posted, total, base>>
    BY <1>2 DEF Observe, Counter, memory
  <2> HIDE DEF db
  <2> QED
    BY <1>1, <2>2, <2>3, <2>4, <2>5, UncountedStep
<1>3. CASE RecordRaises
  <2> DEFINE e == kept[at].event
             row == Inserted(work, e)
             all == Upserted(row, e)
  <2>1. e \in Events
    BY <1>3, RecordingEvent DEF RecordRaises, Recording, PInv
  <2>2. IsDb(row)
    BY <1>1, <2>1, StatementsTyped
  <2>3. IsDb(all)
    BY <2>1, <2>2, StatementsTyped
  <2>4. Rowed(row) /\ Covers(row, work)
    BY <1>1, InsertedCovers
  <2>5. Covers(row, disk)
    BY <1>1, <2>4, CoversIsTransitive
  <2>6. Covers(all, disk)
    <3>1. all.raw = row.raw
      BY <2>4, UpsertedCovers
    <3> HIDE DEF all, row
    <3> QED
      BY <2>5, <3>1 DEF Covers
  <2>7. Raise(work) \/ Raise(row) \/ Raise(all)
    BY <1>3 DEF RecordRaises
  <2>8. Counter' = Counter /\ UNCHANGED <<posted, total, base>>
    BY <1>3 DEF RecordRaises, Counter, memory
  <2> HIDE DEF row, all
  <2> QED
    BY <1>1, <2>2, <2>3, <2>5, <2>6, <2>7, <2>8, UncountedStep
<1>4. CASE SettleCommit
  <2>1. Counter' = Counter /\ UNCHANGED <<posted, total, base>> /\ Commit(work)
    BY <1>4 DEF SettleCommit, Counter, memory
  <2> QED
    BY <1>1, <2>1, UncountedStep
<1> QED
  BY <1>2, <1>3, <1>4

\* A recorded opportunity is counted once its row is committed.
LEMMA RecordStored ==
    ASSUME PInv, Record
    PROVE  StoreTyped' /\ Stored'
<1> DEFINE e == kept[at].event
           db == Upserted(Inserted(work, e), e)
<1>1. IsDb(work) /\ IsDb(disk) /\ Covers(work, disk)
  BY DEF PInv, NInv, StoreTyped
<1>2. e \in Events
  BY RecordingEvent DEF Record, Recording, PInv
<1>3. IsDb(Inserted(work, e))
  BY <1>1, <1>2, StatementsTyped
<1>4. IsDb(db) /\ Rows(db) = Rows(work) + 1
  BY <1>1, <1>2, <1>3, StatementsTyped, RowsInserted
<1>5. Rows(disk) \in Nat /\ Rows(work) \in Nat /\ Rows(disk) <= Rows(work)
  BY <1>1, RowsGrow
<1>6. /\ disk' = db /\ work' = db /\ UNCHANGED <<posted, total, base>>
      /\ pc = "emitting" /\ pc' = "notifying" /\ emitted' = emitted + 1
  BY DEF Record, Recording, Commit, memory
<1> HIDE DEF db, e
<1>7. IsDb(disk)' /\ IsDb(work)' /\ Rows(disk)' = Rows(db)
  <2>1. Rows(disk)' = Rows(disk')
    OBVIOUS
  <2> QED
    BY <1>4, <1>6, <2>1 DEF IsDb
<1>8. StoreTyped'
  BY <1>6, <1>7 DEF PInv, StoreTyped
<1>9. Counter' = Counter + 1 /\ Counter \in Nat /\ base \in Nat
  BY <1>6 DEF Counter, PInv, MInv, PassTyped, StoreTyped
<1>10. Stored'
  BY <1>4, <1>5, <1>6, <1>7, <1>9 DEF PInv, Stored
<1> QED
  BY <1>8, <1>10

LEMMA CrashStored ==
    ASSUME PInv, Crash
    PROVE  StoreTyped' /\ Stored'
<1>1. IsDb(disk) /\ Covers(disk, disk)
  BY CoversItself DEF PInv, StoreTyped
<1>2. Rows(disk) \in Nat
  BY <1>1, RowsGrow
<1>3. /\ disk' = disk /\ work' = disk /\ posted' = posted /\ pc' = "idle"
      /\ total' = 0 /\ base' = Rows(disk)
  BY DEF Crash
<1>4. StoreTyped'
  BY <1>1, <1>2, <1>3 DEF PInv, StoreTyped, IsDb
<1>5. Stored'
  <2>1. Rows(disk)' = Rows(disk')
    OBVIOUS
  <2> QED
    BY <1>2, <1>3, <2>1 DEF Stored, Counter
<1> QED
  BY <1>4, <1>5

LEMMA OthersStored ==
    ASSUME PInv, Tick \/ (\E feed \in Feeds : Begin(feed)) \/ Notify \/ Finish \/ UNCHANGED vars
    PROVE  StoreTyped' /\ Stored'
<1>1. IsDb(disk) /\ IsDb(work)
  BY DEF PInv, StoreTyped
<1>2. UNCHANGED <<disk, work, base>>
  BY DEF Tick, Begin, Notify, Finish, vars, memory
<1>3. Counter' = Counter /\ total' \in Nat
  <2>1. total \in Nat /\ emitted \in Nat
    BY DEF PInv, StoreTyped, MInv, PassTyped
  <2>2. CASE Tick
    BY <2>1, <2>2 DEF Tick, Counter, memory
  <2>3. CASE \E feed \in Feeds : Begin(feed)
    BY <2>1, <2>3 DEF Begin, Counter
  <2>4. CASE Notify
    BY <2>1, <2>4 DEF Notify, Counter, memory
  <2>5. CASE Finish
    BY <2>1, <2>5 DEF Finish, Counter
  <2>6. CASE UNCHANGED vars
    BY <2>1, <2>6 DEF vars, Counter, memory
  <2> QED
    BY <2>2, <2>3, <2>4, <2>5, <2>6
<1>4. posted' \in [Events -> Nat]
  <2>1. posted \in [Events -> Nat]
    BY DEF PInv, StoreTyped
  <2>2. CASE Notify
    BY <2>1, <2>2 DEF Notify
  <2>3. CASE Tick \/ (\E feed \in Feeds : Begin(feed)) \/ Finish \/ UNCHANGED vars
    BY <2>1, <2>3 DEF Tick, Begin, Finish, vars
  <2> QED
    BY <2>2, <2>3
<1>5. IsDb(disk)' /\ IsDb(work)'
  BY <1>1, <1>2 DEF IsDb
<1>6. StoreTyped'
  BY <1>2, <1>3, <1>4, <1>5 DEF StoreTyped, PInv
<1>7. Covers(disk', disk)
  BY <1>1, <1>2, CoversItself
<1> QED
  BY <1>2, <1>3, <1>5, <1>6, <1>7, NotCounted

LEMMA NextStored ==
    ASSUME PInv, [Next]_vars
    PROVE  PInv'
<1>1. MInv' /\ NInv'
  BY NextMemory, NextNotified DEF PInv
<1>2. StoreTyped' /\ Stored'
  <2>1. CASE Observe \/ RecordRaises \/ SettleCommit
    BY <2>1, StoreStep
  <2>2. CASE Tick \/ (\E feed \in Feeds : Begin(feed)) \/ Notify \/ Finish \/ UNCHANGED vars
    BY <2>2, OthersStored
  <2> QED
    BY <2>1, <2>2, RecordStored, CrashStored DEF Next
<1> QED
  BY <1>1, <1>2 DEF PInv

\* The counter never claims an opportunity whose row is not on disk, whatever
\* failed before and is still open (Scanner._emit, SqliteStore.record).
THEOREM CountedStored == Spec => []EmittedIsStored
<1>1. PInv => EmittedIsStored
  <2> SUFFICES ASSUME PInv
               PROVE  EmittedIsStored
    OBVIOUS
  <2>1. Rows(disk) \in Nat
    BY RowsGrow, CoversItself DEF PInv, StoreTyped
  <2>2. Counter \in Nat /\ base \in Nat
    BY DEF Counter, PInv, MInv, PassTyped, StoreTyped
  <2> QED
    BY <2>1, <2>2 DEF PInv, Stored, Counter, EmittedIsStored
<1> QED
  BY <1>1, InitStored, NextStored, PTL DEF Spec

\* The process's memory and the database have their types.
THEOREM TypeCorrect == Spec => []TypeOK
<1>1. PInv => TypeOK
  <2> SUFFICES ASSUME PInv
               PROVE  TypeOK
    OBVIOUS
  <2>1. IsCache(seen) /\ IsCache(shadowSeen) /\ IsCache(lastKept)
    BY CacheIs DEF PInv, MInv, CachesTyped
  <2>2. ToSet(observing) \cup ToSet(kept) \subseteq Candidates
    BY DEF PInv, MInv, PassTyped, ToSet
  <2> QED
    BY <2>1, <2>2 DEF TypeOK, PInv, MInv, CachesTyped, PassTyped, StoreTyped
<1> QED
  BY <1>1, InitStored, NextStored, PTL DEF Spec
=============================================================================
