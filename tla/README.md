# A verification development for polyarb

polyarb watches Polymarket order books, looks for structural arbitrage, reports
it, and later audits how each reported event resolved. It never trades. This
directory holds TLA+ models of the parts where order and failure decide whether
what it reports is true, the TLC runs that check them on small instances, and
proofs, checked by TLAPS, of the results that hold for every instance.

Source paths below are relative to `src/polyarb/` of the repository.
`PROJECT.json` is the index: components, runs, the line each definition
stands for, seeded faults, findings, hazards, theorems.

## 1. The system

```
 Polymarket  --frames-->  MarketWebSocket --> StreamingBooks --> OrderBookCache
             <--control--                     stream loop            ^    |
             --/book------------------------> resync loop ----seed---'    | books
                                                  ^ set_tokens            v
 Gamma  --markets-->  Scanner: discover -> detect -> confirm -> filter -> emit
                                                                   |
            notifier <---------------------------------------------+--> SqliteStore
            notifier <-- poll_settlements (scanner, `polyarb settle`) <-----^
```

| part | state it keeps | operations | what is hard | what makes it correct |
|---|---|---|---|---|
| `OrderBookCache` `engine/bookcache.py` | per token a book, a timestamp, the last 8 hashes; the set of tokens flagged stale | apply (`book`, `price_change`), seed, evict, take_stale | messages and snapshots of different age; flags set and cleared by several paths | a book is the exchange's, or is flagged, or will be repaired |
| `StreamingBooks` `engine/streaming.py` | tracked tokens, control queue, freshness stamps, phase of the two loops | set_tokens; stream loop; resync loop; fresh_books | three tasks interleaving at every await, responses for tokens no longer tracked, reconnects | cache and subscription converge to the tracked set |
| `MarketWebSocket` `clients/ws.py` | one connection, a pending read and a pending control get | stream | control operations race frames | every queued operation is sent, in order |
| `Scanner` `engine/scanner.py` | dedupe caches, totals, relations | scan passes, emit, settle, run | a failing pass, partial failure in the emit loop, shutdown | every kept opportunity is persisted or logged |
| confirm `engine/confirm.py` | none | re-fetch, re-detect | books fetched at different moments | a reported edge exists on fresh books |
| filters, ranking `engine/filters.py`, `engine/ranking.py` | key -> time of last emission | passes, should_emit | marked as seen before it is stored | one report per cooldown |
| store `sinks/store.py` | `opportunities`, `economic_events` | record, record_shadow, pending_events, record_resolution | two processes, upserts that must not undo a resolution | one row and one outcome per event |
| settlement `engine/settlement.py` | none of its own | settle, poll_settlements | read, await, write without a lock; crash between write and alert | an outcome is final and is the audit of what was first seen |
| notifiers `sinks/notify.py` | HTTP client | notify, alert | errors are swallowed | never raises |
| heartbeat, healthcheck `engine/heartbeat.py`, `cli.py` | two files | write, age | a dead feed masked by resync | healthy only while something refreshes the books, and always while the resync does |
| rate limiter `clients/ratelimit.py` | token buckets | acquire, with_backoff | bursts at window edges, retries of several callers | a bounded number of requests per window; every call ends |
| gas oracle `clients/gas.py` | cached price and age | estimate | refresh fails | never older than the TTL unless the source is down |
| depth walk, fees `pricing/` | none | walk_buy_legs, walk_sell_legs | equal prices, empty sides, the last partial level | no set is counted that loses |
| detectors `detectors/` | none | detect | closed or void outcomes, residual outcomes | a reported lock pays in every outcome |
| relations `resolution/` | none | ladders, closure, DAG | ties, cycles | only implied relations |

## 2. Modules

| module | models |
|---|---|
| `BookCache` | every operation of `OrderBookCache` that changes a book, a timestamp, a hash history or a flag. No specification of its own: the next two modules drive it. |
| `RevertDetection`, `MCRevertDetection` | the cache under every message it accepts, next to an unbounded record `seen` of the hashes the feed announced |
| `BookSync`, `MCBookSync` | `StreamingBooks` and `MarketWebSocket` on that cache, with the exchange and the network (external), and the scanner calling `set_tokens` |
| `CacheProofs` | theorems about `BookSync` and `RevertDetection` |
| `Settlement` | the fingerprint and the settlement arithmetic, as functions |
| `EventLifecycle` | abstract: what the ledger promises about an economic event |
| `Ledger`, `MCLedger` | the store, the scanner's emission and any number of settling processes; implements `EventLifecycle` |
| `LedgerProofs` | theorems about `Ledger` |
| `Sizing` | the arithmetic of depth and fees: both walks, as functions |
| `DepthWalk`, `MCDepthWalk` | the walk as a loop, next to a reference that looks at every number of sets |
| `Detectors` | the five detectors, the live partition, book tests and risk tags, as functions of a snapshot |
| `ScanPass`, `MCScanPass` | one pass, polled or streaming, over books and markets that move under it; composes `Sizing`, `Detectors` and the settlement |
| `ScanPassProofs` | theorems about `DepthWalk` and `ScanPass` |
| `Relations`, `MCRelations` | ladder relations, the depth-first closure as a loop, the generator of declared relations |
| `RelationsProofs` | theorems about `Relations` |
| `Runner`, `MCRunner` | `Scanner.run` and the two tasks of `StreamingBooks.run` over a clock, heartbeat files, healthcheck |
| `RunnerProofs` | theorems about `Runner` |
| `Requests` | a token bucket shared by callers that retry with backoff |
| `RequestsProofs` | a theorem about `Requests` |
| `EmitPipeline`, `MCEmitPipeline` | one scanner process from a pass's candidates to disk and notification: filter, dedupe caches, shadow pass, failing store calls, restart |
| `EmitPipelineProofs` | theorems about `EmitPipeline` |
| `Arrangements` | Python's comprehensions and stable sorts over a list, in the form the proofs use |
| `CollectionTheorems` | lemmas: induction over finite sets and numbers, folds, sums and sums over runs of numbers, arrangements, least and greatest |

Operators introduced by a comment "Variant" are seeded faults: PROJECT.json
says which definition each one replaces and which property must then fail.

### BookCache

A level is a (side, price) pair and a book a function from levels to sizes, 0
for a level the dict lacks. `known` is the key set of `_state`; the other
functions are total and hold the initial value of a token that is not known. A
`book` frame may name several tokens (the initial dump does), so `HandleBook`
takes a function from tokens to snapshots. `observe_hash` is split into what it
returns (`Reverts`) and what it leaves (`Observed`). The best prices an entry
declares are `NoBest` (nothing asserted), `EmptySide` (asserted 0) or a price;
"computed is None" is `EmptySide` too, which makes `_declared_side_mismatch` one
inequality. Left out: `tick_size` and `last_trade_price` (nothing downstream of
a cached book reads them), entries that do not parse, the skip counter.

### BookSync

asyncio runs one task at a time, so an action is the code between two awaits.

* Stream loop: `Attempt` (drain the control queue, capture the token list, one
  step because `stream` runs up to the connect without an await), `Opened`
  (subscribed), `SendOp` (one control operation), `Ingest` (one frame),
  `Disconnect` (any way the connection or the attempt ends; the stall watchdog
  is one).
* Resync loop: `WakeStale`, `FullResync`, `Sleep`; each `_one` is `SendFetch`,
  `Serve` (external: the book of that moment) and `Complete` or `FetchFails`, at
  most `ResyncConcurrency` of them at a time.
* Scanner: `SetTokens`, between any two steps.
* Exchange, external: `Change` sets one level and sends the delta to subscribers,
  or loses it. The exchange answers a subscription with the books of that
  moment. `touched` records when each level last changed; only properties read it.

The frames carry no hash and their declared best prices are the true ones, so a
flag is raised by a lost delta or by a delta for an unknown token.

### Settlement, EventLifecycle, Ledger

Money is in integer cents. `closing` is external: the price each outcome token
closed at. A store method is one committed transaction. A poll is `Poll` (read
the batch), `Answer` (Gamma's reply, restricted to the closed markets of the
batch), then `SkipUnresolved` or `SettleEntry` for each entry, oldest first, and
`Alert` after a loss; `Abort` ends it anywhere (exception or kill) and keeps what
was committed. The scanner emits and polls in turn, never at once, as
`Scanner.run` awaits both; the process of `polyarb settle` interleaves freely.
Detection times are the number of the record call, so they are distinct.

`EventLifecycle` has four kinds of event (absent, shadow, pending, settled).
`ImplementsLifecycle` maps a row to its kind, its opportunity and its outcome. A
second settlement of an event maps to a stutter, because it writes the same
outcome: that is what the refinement has to establish, since the writer looks at
a snapshot of the row and of the prices.

### EmitPipeline

`Ledger` takes a store method as atomic and never failing; `EmitPipeline` looks
at one process and opens the method up. `work` is the database as the connection
sees it, `disk` what is committed. A call that raises leaves the statements that
succeeded in the open transaction, or SQLite has rolled it back; the program does
neither, and the next commit, of whatever method, commits what is open
(`SettleCommit` is the one of the in-process settlement). `Begin` is everything up
to the first store call (both filters, ranking), `Observe` one `record_shadow`,
`Record` or `RecordRaises` one `record`, `Notify` the one await. A restart loses
the caches, the counters and the open transaction. Of a candidate, the dedupe
key, the economic event, the notional and the rank are kept; `sound` stands for
the gates that the two filters apply alike. `base` and `lastKept` are history.

### Sizing, DepthWalk

Decimals are exact, so money is in integers: a price is a number of ticks, a rate
a number of parts, and amounts are in units in which every product is whole
(nothing is rounded, as in the code). A walk's state is the level and the size
left of each leg and the totals; `Slice` is one turn of the loop. The buying and
the selling walk differ in the direction of the comparisons only and share one
definition with a `side`. `MaxSets` and `NetOf` are the reference: share by share,
whatever the grouping into levels, the best number of whole sets. An order has at
least one leg, rates of at most 1 and at least 0 (`IsOrder`); above 1 the fee on a
share could fall by more than its price rises, and the docstring's "marginal cost
is non-decreasing" (`pricing/depth.py`) would be false.

### Detectors, ScanPass

A detector is a function from a snapshot (books, markets, event, relations, gas)
to a set of opportunities. Texts are attributes: the category and the dispute
state of a market stand for what `risk.py` finds in strings. Return on capital,
days to resolution and wording are left out.

`ScanPass` is one pass: `Discover`, then either `Fetch` per token and `ScanOnce`,
or `Trigger` (detection on cached books), and per candidate `Choose`, `Fetch` per
leg and `Confirm`. Between any two steps a book may be replaced (`Move`); a
market may close before the discovery (`Close`), with its closing prices known
or not; a fetch may fail, which also stands for a book that `_fresh_books` drops
as too old. The tokens are fetched in a fixed order, without loss of generality
because the moves are free. `fates` is the set of resolutions still possible. The
world is assumed to keep the promises the code relies on, which `IsFate` states: of a
negRisk event at most one outcome is YES, exactly one unless it is augmented or one is
void; declared relations hold where neither market is void; a source tagged objective
does not void; a closed market shows the closing prices of its resolution or none.
`IsScene` adds the types (a fee rate is at most 1) and that a token belongs to one
outcome of one market. Both are the assumption `ScanPassAssumption` of the proofs, which
TLC evaluates on every scenario of the runs; it also says that a void, which pays half a
dollar, is a whole number of ticks and above the price at which `live_partition` takes an
outcome to have lost (`ResolvedNoMax`). Everything else is free.

### Relations

`edges` is the declared graph, `tags` the markets. `Ladders` and `GenerateDag` are
the two generators; in between `transitive_closure` runs as it is written: one
search per node that occurs in an edge (`StartSearch`), `Pop` with its `if node in
reachable`, `EndSearch`. The order in which Python iterates over sets is free
(`Listings`). A malformed bound makes its cohort give nothing, because the sort
parses every bound before a relation is appended.

### Runner

Time is in ticks; a task has a timer (`left`) and time does not pass a timer that
is due. Stored moments are ages that saturate, so that runs have no horizon and
liveness is meaningful. Scanner: `PassEnds`, `SettleEnds`, `Wake`, `Close` (the
`finally`), `Signal`. Stream: `Connect`, `Message`, `Disconnect`, `Stall`, with the
backoff and its reset after a healthy run. Resync: `ResyncWake`, `Seed`,
`BatchEnds`, `CancelResync`. `Publish` writes the freshest moment; a write may fail.
External and free: whether the REST API answers, whether the disk can be
written, messages, disconnects, whether there are tokens. Left out: the contents of
books (`BookSync`), cancellation of the runner from outside.

### Requests

One bucket whose lock is first come, first served and is held during the wait;
each caller's call is `Call`, `Acquire` (again when it waited), `Done` or
`Retryable`, and `Retry` after any jitter. A token is counted in `Window` parts, so
a tick refills exactly `Limit` of them.

## 3. Runs

| run | instance | shows |
|---|---|---|
| `revert_detection` | 1 token, 1 price and 1 size, 3 hashes, history of 2, times 0..1, up to 4 hashes announced | `HistoryIsTail`, `RevertIsFlagged`. A hash can be the last, an earlier one, or already pushed out; three are needed for the last case. |
| `book_sync_lossless` | 2 tokens, 1 price, 2 changes, 2 churns, 1 failure, no loss, strict clock | `Coherent`, `SubscriptionConverges`, `StampedIsKnown`, `RestNeverResurrects`, `SeedNeverRegresses`, and the inductive invariant `IInv` of the proofs |
| `book_sync_heals` | 1 token, 2 changes, 1 churn, 1 loss, 1 failure, fair | `Heals` |
| `ledger` | 2 settling processes, 3 opportunities of 2 events, 3 records, 1 abort, closing prices 3, 50, 97 | `ImplementsLifecycle`, `ShadowIsolated`, `AlertsAreJustified`, and the inductive invariant `IInv` of the proofs, which contains `TypeOK` |
| `ledger_alone` | the scanner alone, same bounds, fair | `AlertsAtMostOnce`, `ResolvedEventSettles` |
| `emit_pipeline` | 3 candidates of 2 keys, one key on both sides of the floor, cooldown 2, prune threshold 1, clock 0..3, 3 passes, 1 failure, 1 restart | `EmittedIsStored`, `NotifiedIsStored`, `EachKeptIsTried`, `CooldownHolds`, `ShadowLeavesFeedAlone` |
| `depth_walk` | every pair of books of up to 2 levels out of 9 (phantoms and ties included), bought and sold, and triples of one level | `WalkIsOptimal`: the size has the best profit of all sizes; `ConservativeIsWithin`; `WalkEnds` |
| `scan_pass` | 3 markets, 7 events x 6 sets of books x 2 modes, 1 move, 1 close, 1 failed fetch | `LockPays`, `QuietMeansExecutable`, `AtMostOneSide`, `DirectionalRanksLast` |
| `scan_pass_audit` | the same | counterexample, section 5 |
| `relations` | every graph of 3 nodes (cycles and self-loops), ladders of 3 rungs with ties, a malformed bound, a second source and a point-in-time market | `ClosureIsExact`, `RelationsHold` |
| `runner` | a tick of about ten seconds: scan 1, settle 1, stale check 1, resync 2, stall 2, backoff 1 to 2, healthy run 1; loops until a signal, for 1 pass, or for 2 ticks | `FrozenIsSeen`, `MaskedFeedIsHealthy`, `ShutdownCompletes` |
| `requests` | 3 callers, 2 requests per 3 ticks, 3 attempts, backoff 1 to 2, timeout 1 | `SentAtMostTwiceQuota`, `CallsEnd` |

Why the bounds are enough. A race in `BookSync` is between a change, a response
and a token set: two changes give a snapshot between them, two churns drop a
token and track it again while its fetch is in flight, one failure gives a
reconnect. The second token exercises frames and operations that name several
tokens, and batches. More of anything repeats these; the proofs cover them all.
In `Ledger` two events and a batch of two make the order of entries matter, a
third record re-detects or graduates one of them, and the three prices give a
loss, a gain and a void. In `EmitPipeline` two keys pass the prune threshold, three
passes and four times put a repeat before, at and after the cooldown, and one
failing call meets every later commit. A leg of two levels has a level that
is finished before, with or after the other leg's, so the walk takes each branch of
its loop; a third leg only adds terms to the sums. Three markets are the fewest
that make a negRisk event, a partial basket (one leg not buyable) and a chain of
relations; one move separates the books of a pass in every way a later fetch can
see. Three nodes have a chain, a diamond's edge, a cycle and a self-loop, and the
proof covers the rest. `Runner`'s constants keep the order of the defaults (stale
check below resync interval, stall above the backoff) with `LongestPass` and
`LongestResync` of one tick. The invariants hold with `LongestPass = 2` as well. A
batch too long for the websocket window makes the healthcheck fail, in the model as in
the code; the run's batches just fit, in the sense of `BatchesFit` (section 4). `runner` and `requests` check deadlock; the other runs set `CHECK_DEADLOCK FALSE`, because
changes, records, moves and failures are bounded or the algorithm ends.

Fairness, where a liveness property needs it. `BookSync`: a runnable asyncio task
runs, sleeps end, a request is answered or fails (the client has a timeout); the
full resync comes round although flushes of flagged tokens come in between
(strong fairness), because its interval is measured in time and not in wakes.
Nothing is assumed of changes, churn, losses, disconnects, or of the success of a
fetch. `Ledger`: the scanner polls again and again and a poll goes on unless it
is aborted; nobody need ever run `polyarb settle`, and markets need never close.
`Runner`: time passes, timers that are due run, requests end within their timeout;
the exchange owes no message and no disconnect, no signal need come, the REST
API may be down for ever. `Requests`: the same; the server may fail every request.
`DepthWalk`: the loop takes its next turn.

## 4. Proofs

`CacheProofs` proves of `BookSync`, for all sets of tokens, prices and sizes and all bounds:

* `TypeCorrect`: `Spec => []TypeOK`.
* `SubscriptionsConverge`: `Spec => []SubscriptionConverges`. The strengthening is
  `ControlAccurate`: read in order, the queued operations turn what the exchange
  has subscribed (or will, by the handshake) into the tracked set.
* `SeedIsSafe`: with `StrictClock`, `Spec => SeedNeverRegresses`. It rests on
  `SnapshotAccurate` (a response is wrong only about levels that changed after
  its timestamp) and `TouchedInTime`, and allows lost deltas.
* `InvariantHolds`: with `StrictClock` and no losses, `Spec => []IInv`.
* `CacheIsCoherent`: under the same assumptions, `Spec => []Coherent`.
  `Coherent` speaks of tokens with nothing under way and is not inductive.
  `IInv` says what is under way: the frames about a subscribed token lead to
  the exchange's book level by level (`WireAccurate`), and a cached level is
  right with a timestamp that covers its last change unless a frame is still to
  set it (`CacheAccurate`). The timestamps are what make a late snapshot harmless.

* `StampsAreBooks`: `Spec => []StampedIsKnown`, inductive as it is.
* `DroppedStaysDropped`: `Spec => RestNeverResurrects`.

The two assumptions of `CacheIsCoherent` are needed. A snapshot taken between two changes of one
millisecond carries the timestamp of the later one, and `seed` lets it replace
the book that has both: with `StrictClock = FALSE` TLC finds `SeedNeverRegresses`
violated. A lost delta makes the cache wrong until the next full resync (`Heals`).

Of `RevertDetection` it proves, for every length of the history, `HistoryHolds`
(`RevertSpec => []HistoryIsTail`), `RevertFlagged` (`RevertSpec => RevertIsFlagged`)
and `RevertTypeCorrect`. The first two rest on a lemma about sequences, `ObservedIsTail`:
remembering one more hash commutes with forgetting the oldest, echoes included.

`LedgerProofs` proves, for all opportunities, markets and closing prices, any set
of settling processes and all bounds, from `LedgerAssumption` alone:

* `LedgerInvariant`: `Spec => []IInv`, hence `TypeCorrect`, `AlertsJustified` and
  `ShadowsIsolated`.
* `Implementation`: `Spec => ImplementsLifecycle`, with initial states mapped to
  initial states and each action to an abstract action or a stutter.

* `AlertedOnce`: with `Pollers = {Scanner}`, `Spec => []AlertsAtMostOnce`. On top of
  `IInv`, a batch then holds pending events only, and a pending event has no alert.
  With two pollers the first of these fails, and so does the property (section 5).

The refinement is not provable from types. A poller writes from a snapshot of the
row and of the prices, so `IInv` says what snapshots are worth: an entry of a
batch is a real event with the opportunity of its row (`BatchesAccurate`), an
answer holds closing prices (`AnswersAccurate`), and an outcome already written
is the audit of the row's opportunity at the closing prices (`RowsAccurate`).
`SettleIsStable` then makes the outcome computed from an old answer the one a
later answer gives, so a second write changes nothing. What `settle` returns is
not typed, because no theorem needs it.

`RelationsProofs` proves, for every finite set of nodes and all inputs, from
`RelationsAssumption`:

* `ClosureExact`: `Spec => []ClosureIsExact`. When the closure is computed it is
  contained in every transitive relation that has the edges, and no edge leads out
  of it. The invariant follows the search: what is reached or stacked is implied by
  the start (`Implied`), the successors of what is reached are reached or stacked
  (`Covering`), and the nodes whose search is over have all their pairs
  (`Recorded`). An empty stack then leaves a set that no edge leaves.
* `ClosureRespectsWorlds`: a set of outcomes that respects the declared edges
  respects the closure, which is what makes a generated relation an implication.
* `RelationsJustified`: each generated relation has two tags that carry its ids,
  have one subject and one source, and of which the first implies the second in
  every world. Of a ladder this is the order of the bounds (`ArrangedOrder`), of
  the DAG it is `ClosureRespectsWorlds`.
* `ImplicationsHold`: `Spec => []RelationsHold`, which speaks of any two tags with the
  relation's ids, so it has the hypothesis that a market carries one tag
  (`OneTagEach`). The code does not enforce it; `RelationsJustified` is what is
  left without it.
* `TypeCorrect`: `Spec => []TypeOK`.

`EmitPipelineProofs` proves every property of its module, for all finite sets of
candidates, all feeds and bounds:

* `NotifiedStored`: `Spec => []NotifiedIsStored`. An event being notified has a row
  more than it has notifications, and the connection sees every row of the disk,
  whatever a failed call left open, so no commit takes a row away (`NInv`).
* `CountedStored`: `Spec => []EmittedIsStored`. The rows of the disk, summed over the
  events, exceed those at the start by what was counted, and those the connection
  sees by one more while a commit is due (`PInv`). A commit then moves the disk's
  sum at least as far as the counter.
* `KeptTried`, `ShadowApart`, `CooldownKept`, `TypeCorrect`: `EachKeptIsTried`,
  `ShadowLeavesFeedAlone`, `CooldownHolds`, `TypeOK`. Their invariant `MInv` says that
  the caches mark moments of the past, that successes and failures add up to the
  position in the pass, and that the feed's cache marks what was kept. For the
  cooldown: an entry that pruning drops is older than the cooldown.

`RunnerProofs` proves, for all intervals, windows and timeouts, and whatever may
fail:

* `FrozenSeen`: `Spec => []FrozenIsSeen`. The heartbeat holds a moment, so the
  invariant is that a refresh, or a moment without tracked tokens, is at least as
  recent as the moment in the file (`Backed`); ages saturate together, which keeps
  their order (`AgedMonotone`).
* `TypeCorrect`: `Spec => []TypeOK`, with the bounds of back-off and timers.
* `MaskedHealthy`: with `BatchesFit`, `Spec => []MaskedFeedIsHealthy`. The invariant
  (`HInv`) follows a turn of the resync loop: how old the refresh is that it will publish
  (`FreshSinceFull`, `FreshInBatch`), and how old the published one has become
  (`SinceWritten`). `BatchesFit` says that the oldest refresh a turn publishes, a stale
  check and two batches (a stale one and a full one) fit into the window. The code does
  not guarantee it. With the default intervals (60 s, 5 s, a window of 120 s) it holds for
  batches of up to 28 s. The bound is not slack: it holds with equality in the run
  `runner`, and with a window one tick smaller than it asks for (resync 3, stale
  check 1, batches of 2) TLC finds a scanner with a working REST API reported dead.

`RequestsProofs` proves `QuotaHolds`: `Spec => []SentAtMostTwiceQuota`, for any number
of callers, any quota, window, number of attempts and delays. The invariant is the
bucket's account for every age up to the window: what was sent within the age, and
what the bucket has or would be refilled to, cost no more than a full bucket and
the refill of that age (`Paid`).

`ScanPassProofs` proves of `DepthWalk`, for all finite books of any number of legs
and levels, ties, phantoms and empty sides included, any direction, rates, gas and
cap:

* `WalkKept`: `WalkSpec => []WalkHolds`. Until it stops, the accounts the loop keeps
  turn by turn are those of the reference share by share: each leg stands at the
  share whose number is the size, what it paid is the sum of the prices of the
  shares before, and so is its fee. A turn lies inside one level of every leg, so
  each set in it has the same margin (`TurnSets`, `ChunkIs`).
* `WalkIsBest`: `WalkSpec => []WalkIsOptimal`. The prices of a sorted leg get no
  better share by share (`ArrangedTotal`), the fee moves no faster than the price
  (`FeeSteps`, `WorthMonotone`), so the margin of a set falls from set to set
  (`MarginMonotone`) and a sum of falling margins is at its peak where they stop
  being positive (`PeakIsBest`). That is where the loop ends, by its margin, by a leg
  that is exhausted, or by the cap (`EndIsPeak`).
* `ConservativeHolds`: `WalkSpec => []ConservativeIsWithin`. The size taken at the
  first price alone is a first turn of the walk (`FirstTurn`).

Of `ScanPass` it proves every invariant of the runs, from `ScanPassAssumption`, for any
event, books, menu, relations, gas and any number of markets, levels, moves and closes:

* A detector is the opportunities of some trades of a snapshot: a trade names the tokens,
  the side and what a set is worth (`DetectIs`, one lemma for each detector), and an
  opportunity has the size, the fees and the net profit of the walk of those tokens'
  books (`OpportunityIs`).
* `PassKept`: `Spec => []PassInv`. What is reported is the opportunity of a trade of *some*
  snapshot of the event as discovered (`Reported`); while nothing moves, the fetched
  books are those of the exchange (`Fresh`); candidates come from the cached books and
  each is confirmed at most once (`Progress`). A confirmation sees the books of one
  candidate's legs only; that what it finds would also be found among all books of the
  exchange is `DetectedInMore`. Hence `PassTypes`: `Spec => []TypeOK`, and
  `QuietExecutable`: `Spec => []QuietMeansExecutable`.
* `OneSide`: `Spec => []AtMostOneSide`. In one snapshot the two complement trades exclude
  each other, since a pair that costs less than a dollar and one that brings in more need
  a crossed book (`ComplementOnce`), and a full basket needs the leg a partial one lacks
  (`BasketsExclude`). The books of a pass are of several moments, so this is not enough:
  a streaming pass confirms at most the one candidate that the cache offers for a
  market, and a confirmation repeats its detector and its legs (`Stems`).
* `DirectionalLast`: `Spec => []DirectionalRanksLast`, which follows from the tags alone:
  a partial basket is tagged `directional` or `at_risk`, and only a disputed market
  gives a structural opportunity one of these.
* `FatesKept`: `Spec => []Resolved`. A close leaves only resolutions that agree with the
  prices it shows, so those still possible keep the promises of the scenario.
* `LocksAlwaysPay`: `Spec => []LockPays`. Each structural trade pays at least what a set
  is worth, or at most when it is sold, at every resolution that keeps the promises
  (`ComplementPays`, `DependencyPays`, `BasketPays`, `DualPays`): the partition left out
  only markets whose price says that they have lost (`ClosedHasLost`), a dual and a
  dependency take only markets that do not void, and a basket of YES is claimed where no
  market of it voids (`Covered`). With the size, the fees and the spending of the walk
  this gives the reported net profit (`TradePays`).

`Reported` quantifies over all snapshots, which TLC cannot enumerate, so of `PassInv` the
runs evaluate only the two last conjuncts.

`CollectionTheorems` is what these rest on. The library's induction theorems have a
predicate as parameter, which the provers cannot instantiate; a set of instances
does instead, and the well-founded inclusion among the finite subsets gives
`SubsetInduction`, `SetInduction` and `NumberInduction`. From these follow what sums
over a set are (`TotalTake`, `TotalChanged`, `TotalMonotone`, `TotalSplit`, `TotalRenamed`), folds over sequences
(`LeftFoldStays`), and that an arrangement has each element once, in order, ties by
position (`PlaceReached`, `ArrangedOrder`).

Every invariant and every action property of the runs is proved. Only model-checked
are the liveness properties `Heals`, `ResolvedEventSettles`, `WalkEnds`,
`ShutdownCompletes` and `CallsEnd`, which need fairness and are outside the prover.

## 5. Findings

`AuditIsNetProfit` (`engine/settlement.py:120`, run `scan_pass_audit`). The ledger's
"net profit vs entry" subtracts the gas but not the taker fees, while the net profit
an opportunity is reported with subtracts both. A complement realizes at once and
in any outcome, so the two figures should be equal; with a fee they differ by it.
An alert compares the ledger's figure with 0, so a lock that loses by its fees
only is not announced.

Other places where the code does less than a comment says, met while modelling.
They have no run of their own; where one bounds what a run can claim, the run's
instance says so.

* `engine/streaming.py:180`: a frame on the wire when its token is dropped
  re-creates the cache entry after the eviction, and nothing evicts it again. The
  scan reads only the tokens it needs: a growing cache, not a wrong report.
* `engine/bookcache.py:233`: `take_stale` has cleared the flag that a rejected
  seed is said to leave; the repair waits for the full resync (`Heals`).
* `engine/settlement.py:147`: with the scanner and `polyarb settle` at once an event
  can be alerted twice. Outcomes stay right (`ImplementsLifecycle`).
* `engine/settlement.py:144`: a process killed between the commit and the alert
  leaves a loss that is never announced.
* `sinks/store.py:200`: a full batch of old events that do not resolve starves
  younger ones that have.
* `engine/scanner.py:351`: a failed commit leaves the row in the open transaction;
  `count()` sees it and the next commit stores it, while the counter does not have
  it. `EmittedIsStored` (never more than is stored) holds.
* `clients/ratelimit.py:5`: a full bucket and its refill in one window are up to
  twice the quota (`SentAtMostTwiceQuota` is the bound that holds).
* `resolution/relations.py:191`: of two rungs with the same bound only one is
  adjacent to the next rung, so the implication from the other is not generated: a
  missed opportunity, not a false one.
* `engine/scanner.py:542`: `finally` awaits the streaming task without cancelling it.
  With the watchdog off (`ws_stall_timeout_s = 0`) and a silent feed it waits for
  ever; `ShutdownCompletes` is checked with the watchdog on.
* `engine/streaming.py:367`: when tokens are tracked again after an idle spell the
  heartbeat goes back to the last refresh, so a runner may be reported unhealthy
  until its next resync. `MaskedFeedIsHealthy` is stated for runs with no such spell.

## 6. Not modelled, and the plan

Not modelled: recording, metrics, logging, configuration, reports and CLI output
(no control of their own), the backtest (read-only summaries), URLs, paging and
parsing of the HTTP clients, formatting of notifications, the gas oracle (one pair
of numbers to a pass, and a fallback), keyword matching in `risk.py`, the filter
gates other than notional and cooldown, execution and the cross-venue detector
(stubs).

Next, the most important first:

1. An abstract specification of a report's life, from detection to outcome, that
   `ScanPass`, `EmitPipeline` and `Ledger` together implement.
2. The gas oracle's cache, should a property come to depend on its age.
