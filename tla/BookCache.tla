------------------------------ MODULE BookCache ------------------------------
(***************************************************************************)
(* OrderBookCache (src/polyarb/engine/bookcache.py): WebSocket messages    *)
(* and REST snapshots in, one order book per token out.                    *)
(*                                                                         *)
(* Every method runs to completion without an await, so each is one        *)
(* action.  A level is a (side, price) pair and a book maps every level    *)
(* to its size, 0 standing for a level the dict does not hold.  The        *)
(* _TokenState of a token outside `known` does not exist; its functions    *)
(* then hold the values a new _TokenState starts from.                     *)
(*                                                                         *)
(* Left out: entries that fail to parse (counted and skipped, no effect),  *)
(* and tick_size / last_trade_price, which no consumer of a book reads.    *)
(* Two entries of one price_change for the same token are two messages of  *)
(* equal timestamp here.                                                   *)
(***************************************************************************)
EXTENDS Integers, Sequences

CONSTANTS
    Tokens,          \* CLOB token ids
    Prices,          \* prices a level can have, in ticks
    Sizes,           \* sizes of a level that is there
    Hashes,          \* book hashes a message can carry
    HashHistorySize  \* _HASH_HISTORY_SIZE

ASSUME BookCacheAssumption ==
    /\ Prices \subseteq Nat \ {0}
    /\ Sizes \subseteq Nat \ {0}
    /\ HashHistorySize \in Nat \ {0}

VARIABLES
    known,   \* tokens that have a _TokenState
    book,    \* bids and asks of the _TokenState
    ts,      \* its timestamp_ms
    hashes,  \* its history of observed hashes, oldest first
    stale    \* tokens flagged for a REST resync

cacheVars == <<known, book, ts, hashes, stale>>

-----------------------------------------------------------------------------
Sides == {"BUY", "SELL"}
Levels == Sides \X Prices
Book == [Levels -> Sizes \cup {0}]
EmptyBook == [l \in Levels |-> 0]

NoHash == "no_hash"    \* the message carries no hash
NoBest == -1           \* the entry asserts nothing about that side
EmptySide == 0         \* the entry declares 0, or the computed best is None

Quoted(b, side) == {p \in Prices : b[<<side, p>>] > 0}

\* best_bid_price and best_ask_price
Best(b, side) ==
    IF Quoted(b, side) = {} THEN EmptySide
    ELSE CHOOSE p \in Quoted(b, side) :
            \A q \in Quoted(b, side) : IF side = "BUY" THEN q <= p ELSE p <= q

DeclaredSideMismatch(declared, computed) ==
    declared # NoBest /\ computed # declared

\* observe_hash: what it returns, and the deque it leaves
Echo(history, h) == history # <<>> /\ h = history[Len(history)]

Reverts(history, h) ==
    /\ h # NoHash
    /\ ~Echo(history, h)
    /\ \E i \in 1 .. Len(history) : history[i] = h

\* Variant (seeded fault): a message without a hash is remembered too.
ObservedBlank(history, h) ==
    IF Echo(history, h) THEN history
    ELSE IF Len(history) < HashHistorySize THEN Append(history, h)
    ELSE Tail(Append(history, h))

Observed(history, h) ==
    IF h = NoHash \/ Echo(history, h) THEN history
    ELSE IF Len(history) < HashHistorySize THEN Append(history, h)
    ELSE Tail(Append(history, h))

\* A `book` event of one token, and one entry of a price_change.
Snapshot == [ts : Nat, book : Book, hash : Hashes \cup {NoHash}]

Bests == {Best(b, side) : b \in Book, side \in Sides}

Entry == [level : Levels, size : Sizes \cup {0}, hash : Hashes \cup {NoHash},
          best : [Sides -> Bests \cup {NoBest}]]

AfterEntry(b, e) == [b EXCEPT ![e.level] = e.size]

-----------------------------------------------------------------------------
CacheInit ==
    /\ known = {}
    /\ book = [t \in Tokens |-> EmptyBook]
    /\ ts = [t \in Tokens |-> 0]
    /\ hashes = [t \in Tokens |-> <<>>]
    /\ stale = {}

\* Variant: the flag is cleared after the hash is judged, not before.
HandleBookClearsLast(snaps) ==
    LET hit == DOMAIN snaps
    IN  /\ known' = known \cup hit
        /\ book' = [t \in Tokens |-> IF t \in hit THEN snaps[t].book ELSE book[t]]
        /\ ts' = [t \in Tokens |-> IF t \in hit THEN snaps[t].ts ELSE ts[t]]
        /\ hashes' = [t \in Tokens |-> IF t \in hit
                                       THEN Observed(hashes[t], snaps[t].hash)
                                       ELSE hashes[t]]
        /\ stale' = stale \ hit

\* apply of a frame of `book` events, one per token of DOMAIN snaps (the
\* initial dump is one frame for all subscribed tokens).  The snapshot is
\* taken whatever its timestamp; the hash history survives it.
HandleBook(snaps) ==
    LET hit == DOMAIN snaps
        reverted == {t \in hit : Reverts(hashes[t], snaps[t].hash)}
    IN  /\ known' = known \cup hit
        /\ book' = [t \in Tokens |-> IF t \in hit THEN snaps[t].book ELSE book[t]]
        /\ ts' = [t \in Tokens |-> IF t \in hit THEN snaps[t].ts ELSE ts[t]]
        /\ hashes' = [t \in Tokens |-> IF t \in hit
                                       THEN Observed(hashes[t], snaps[t].hash)
                                       ELSE hashes[t]]
        /\ stale' = (stale \ hit) \cup reverted

\* Variant: a delta leaves the timestamp of the snapshot it was applied to.
HandlePriceChangeUndated(time, entries) ==
    LET hit == DOMAIN entries \cap known
    IN  /\ book' = [t \in Tokens |->
                      IF t \in hit THEN AfterEntry(book[t], entries[t]) ELSE book[t]]
        /\ stale' = stale \cup (DOMAIN entries \ known)
        /\ UNCHANGED <<known, ts, hashes>>

\* apply of a price_change, one entry per token of DOMAIN entries.
HandlePriceChange(time, entries) ==
    LET hit == DOMAIN entries \cap known
        after(t) == AfterEntry(book[t], entries[t])
        suspect == {t \in hit :
                      \/ Reverts(hashes[t], entries[t].hash)
                      \/ \E side \in Sides :
                           DeclaredSideMismatch(entries[t].best[side],
                                                Best(after(t), side))}
    IN  /\ book' = [t \in Tokens |-> IF t \in hit THEN after(t) ELSE book[t]]
        /\ ts' = [t \in Tokens |-> IF t \in hit THEN time ELSE ts[t]]
        /\ hashes' = [t \in Tokens |-> IF t \in hit
                                       THEN Observed(hashes[t], entries[t].hash)
                                       ELSE hashes[t]]
        /\ stale' = stale \cup (DOMAIN entries \ known) \cup suspect
        /\ UNCHANGED known

\* Variants: no last-write-wins rule; one that tolerates a tick of skew.
RegressesNever(t, time) == FALSE

RegressesWithSkew(t, time) == t \in known /\ ts[t] > time + 1

\* seed: a REST snapshot is dropped when the cache is strictly newer.
Regresses(t, time) == t \in known /\ ts[t] > time

\* Variant: the _TokenState is rebuilt with an empty history.
SeedForgetsHistory(t, time, b) ==
    IF Regresses(t, time) THEN UNCHANGED cacheVars
    ELSE /\ known' = known \cup {t}
         /\ book' = [book EXCEPT ![t] = b]
         /\ ts' = [ts EXCEPT ![t] = time]
         /\ hashes' = [hashes EXCEPT ![t] = <<>>]
         /\ stale' = stale \ {t}

Seed(t, time, b) ==
    IF Regresses(t, time) THEN UNCHANGED cacheVars
    ELSE /\ known' = known \cup {t}
         /\ book' = [book EXCEPT ![t] = b]
         /\ ts' = [ts EXCEPT ![t] = time]
         /\ stale' = stale \ {t}
         /\ UNCHANGED hashes

\* Variant: the timestamp goes back to a sentinel instead of with the state.
EvictToSentinel(gone) ==
    /\ known' = known \ gone
    /\ book' = [t \in Tokens |-> IF t \in gone THEN EmptyBook ELSE book[t]]
    /\ ts' = [t \in Tokens |-> IF t \in gone THEN -1 ELSE ts[t]]
    /\ hashes' = [t \in Tokens |-> IF t \in gone THEN <<>> ELSE hashes[t]]
    /\ stale' = stale \ gone

\* evict of every token of the set
Evict(gone) ==
    /\ known' = known \ gone
    /\ book' = [t \in Tokens |-> IF t \in gone THEN EmptyBook ELSE book[t]]
    /\ ts' = [t \in Tokens |-> IF t \in gone THEN 0 ELSE ts[t]]
    /\ hashes' = [t \in Tokens |-> IF t \in gone THEN <<>> ELSE hashes[t]]
    /\ stale' = stale \ gone

TakeStale ==
    /\ stale' = {}
    /\ UNCHANGED <<known, book, ts, hashes>>

CacheTypeOK ==
    /\ known \subseteq Tokens
    /\ book \in [Tokens -> Book]
    /\ ts \in [Tokens -> Nat]
    /\ hashes \in [Tokens -> Seq(Hashes)]
    /\ stale \subseteq Tokens
=============================================================================
